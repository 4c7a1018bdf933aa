----------------------------- MODULE TextProofs -----------------------------
(***************************************************************************)
(* What holds of a text on its way from the program to who attaches.       *)
(*                                                                         *)
(* The escape parser, for any octets and any bounds: whatever it is in the *)
(* middle of, it finds the end of a sequence, keeps titles free of         *)
(* terminators, and loses nothing of a broken character.                   *)
(*                                                                         *)
(* The redraw, for any width and any styles: the SGR sequence that is      *)
(* written between two styles makes the one of the other, and a row that   *)
(* is written and read is seen as it was.                                  *)
(***************************************************************************)
EXTENDS EscapeParser, Redraw, BasicsProofs

Octets == 0 .. 255

(* A title read so far, and one that has ended.                            *)
Clean(s) == \A i \in DOMAIN s : /\ s[i] # BEL
                                /\ s[i] = ESC /\ i < Len(s) => s[i + 1] # BACKSLASH
Titles == {s \in Seq(Octets) : Clean(s)}

Grounds == [at : {"Ground"}, pending : {"none", "g0", "g1"}]
Csis    == [at : {"Csi"}, private : BOOLEAN, params : Seq(Int), current : Int,
            intermediates : Seq(Octets)]
Oscs    == [at : {"Osc"}, bytes : Titles, escape : BOOLEAN]
Utf8s   == [at : {"Utf8"}, bytes : Seq(128 .. 255) \ {<< >>}]

(* An ESC that has been taken for a part of the title is followed by what  *)
(* came after it, or else there is no room for anything.                   *)
Closed(p) == ~p.escape /\ p.bytes # << >> /\ p.bytes[Len(p.bytes)] = ESC
               => ~(Len(p.bytes) < MAX_OSC_BYTES)

(* The states of the parser.                                               *)
Fits(p) == \/ p \in Grounds
           \/ p = Escape
           \/ p \in Csis
           \/ p \in Oscs /\ Closed(p)
           \/ p \in Utf8s

Effects == ({"put"} \X Seq(Octets)) \union ({"charset"} \X {"g0", "g1"} \X Octets)
             \union {<< "bell" >>} \union ({"move"} \X Octets) \union ({"escape"} \X Octets)
             \union ({"osc"} \X Titles)
             \union ({"csi"} \X Octets \X Seq(Int) \X Seq(Octets))
             \union ({"private"} \X Octets \X Seq(Int)) \union ({"mode"} \X Int \X BOOLEAN)

(* What an octet leads to.                                                 *)
Leads(r) == Fits(r.next) /\ r.does \in Seq(Effects)

-----------------------------------------------------------------------------
(* One octet.                                                              *)

LEMMA ToNothing ==
    ASSUME NEW n, Fits(n)
    PROVE  Leads(To(n, << >>))
<1>1. To(n, << >>).next = n /\ To(n, << >>).does = << >>
  BY DEF To
<1>2. << >> \in Seq(Effects)
  OBVIOUS
<1>. QED  BY <1>1, <1>2, Zenon DEF Leads

LEMMA ToOne ==
    ASSUME NEW n, Fits(n), NEW e \in Effects
    PROVE  Leads(To(n, << e >>))
<1>1. To(n, << e >>).next = n /\ To(n, << e >>).does = << e >>
  BY DEF To
<1>2. << e >> \in Seq(Effects)
  OBVIOUS
<1>. QED  BY <1>1, <1>2, Zenon DEF Leads

LEMMA Fresher == Fits(Ground) /\ Fits(Escape) /\ Fits(Csi) /\ Fits(Osc) /\ Fits(Pending("g0")) /\ Fits(Pending("g1"))
<1>1. Ground \in Grounds /\ Pending("g0") \in Grounds /\ Pending("g1") \in Grounds
  BY DEF Ground, Pending, Grounds
<1>2. Csi \in Csis
  BY DEF Csi, Csis, None
<1>3. Osc \in Oscs /\ Closed(Osc)
  <2>1. << >> \in Titles
    BY DEF Titles, Clean
  <2>. QED  BY <2>1 DEF Osc, Oscs, Closed
<1>. QED  BY <1>1, <1>2, <1>3 DEF Fits

LEMMA GroundLeads ==
    ASSUME NEW p \in Grounds, NEW b \in Octets
    PROVE  Leads(InGround(p, b))
<1>. USE DEF InGround
<1>1. CASE p.pending # "none"
  <2>1. << "charset", p.pending, b >> \in Effects
    BY <1>1 DEF Effects, Grounds
  <2>. QED  BY <1>1, <2>1, Fresher, ToOne
<1>2. CASE p.pending = "none" /\ b = ESC
  BY <1>2, Fresher, ToNothing DEF ESC, BEL, CR, BS, TAB
<1>3. CASE p.pending = "none" /\ b # ESC /\ b = BEL
  <2>1. << "bell" >> \in Effects
    BY DEF Effects
  <2>. QED  BY <1>3, <2>1, Fresher, ToOne DEF ESC, BEL, CR, BS, TAB
<1>4. CASE p.pending = "none" /\ b # ESC /\ b # BEL /\ b \in {CR, 10, 11, 12, BS, TAB}
  <2>1. << "move", b >> \in Effects
    BY DEF Effects
  <2>2. b \notin 194 .. 244
    BY <1>4 DEF CR, BS, TAB
  <2>3. InGround(p, b) = To(Ground, << << "move", b >> >>)
    BY <1>4, <2>2
  <2>. QED  BY <2>1, <2>3, Fresher, ToOne
<1>5. CASE p.pending = "none" /\ b \in 194 .. 244
  <2>1. Fits(Utf8(<< b >>))
    BY <1>5 DEF Fits, Utf8, Utf8s
  <2>2. b # ESC /\ b # BEL /\ b \notin {CR, 10, 11, 12, BS, TAB}
    BY <1>5 DEF BEL, ESC, CR, BS, TAB
  <2>. QED  BY <1>5, <2>1, <2>2, ToNothing
<1>6. CASE p.pending = "none" /\ b # ESC /\ b # BEL /\ b \notin {CR, 10, 11, 12, BS, TAB} /\ b \notin 194 .. 244
  <2>1. Put(<< b >>) \in Effects
    BY DEF Effects, Put
  <2>. QED  BY <1>6, <2>1, Fresher, ToOne
<1>. QED  BY <1>1, <1>2, <1>3, <1>4, <1>5, <1>6

LEMMA EscapeLeads ==
    ASSUME NEW b \in Octets
    PROVE  Leads(InEscape(b))
<1>1. << "escape", b >> \in Effects
  BY DEF Effects
<1>. HIDE DEF Effects
<1>2. CASE b = 91
  BY <1>2, Fresher, ToNothing DEF InEscape
<1>3. CASE b = 93
  BY <1>3, Fresher, ToNothing DEF InEscape
<1>4. CASE b = 40
  BY <1>4, Fresher, ToNothing DEF InEscape
<1>5. CASE b = 41
  BY <1>5, Fresher, ToNothing DEF InEscape
<1>6. CASE b \notin {91, 93, 40, 41}
  BY <1>1, <1>6, Fresher, ToOne DEF InEscape
<1>. QED  BY <1>2, <1>3, <1>4, <1>5, <1>6

LEMMA CsiLeads ==
    ASSUME NEW p \in Csis, NEW b \in Octets
    PROVE  Leads(InCsi(p, b))
<1>. DEFINE start == p.params = << >> /\ p.current = None
            done  == Append(p.params, p.current)
            read  == (IF p.current = None THEN 0 ELSE p.current) * 10 + b - ZERO
            digit == IF read > 65535 THEN 65535 ELSE read
            wider == Append(p.intermediates, b)
            r     == InCsi(p, b)
<1>1. r = CASE b = 63 /\ start -> To([p EXCEPT !.private = TRUE], << >>)
            [] b \in ZERO .. NINE -> To([p EXCEPT !.current = digit], << >>)
            [] b = SEMICOLON -> To([p EXCEPT !.params = done, !.current = None], << >>)
            [] b \in 32 .. 47 -> To([p EXCEPT !.intermediates = wider], << >>)
            [] IsFinal(b) -> To(Ground, IF p.private THEN PrivateEffects(b, done)
                                                     ELSE << << "csi", b, done, p.intermediates >> >>)
            [] OTHER -> To(p, << >>)
  BY DEF InCsi
<1>2. /\ p.params \in Seq(Int) /\ p.current \in Int /\ p.intermediates \in Seq(Octets)
      /\ done \in Seq(Int) /\ wider \in Seq(Octets) /\ (b \in ZERO .. NINE => digit \in Int)
  <2>1. p.params \in Seq(Int) /\ p.current \in Int /\ p.intermediates \in Seq(Octets)
    BY DEF Csis
  <2>2. b \in ZERO .. NINE => digit \in Int
    BY <2>1 DEF ZERO, NINE
  <2>. QED  BY <2>1, <2>2
<1>. HIDE DEF start, done, wider, read, digit, r
<1>3. CASE b = 63 /\ start
  <2>1. Fits([p EXCEPT !.private = TRUE])
    BY DEF Fits, Csis
  <2>2. r = To([p EXCEPT !.private = TRUE], << >>)
    BY <1>1, <1>3 DEF IsFinal, ZERO, NINE, SEMICOLON
  <2>. QED  BY <2>1, <2>2, ToNothing DEF r
<1>4. CASE b \in ZERO .. NINE
  <2>1. b # 63 /\ b # SEMICOLON /\ b \notin 32 .. 47 /\ ~IsFinal(b)
    BY <1>4 DEF ZERO, NINE, SEMICOLON, IsFinal
  <2>2. r = To([p EXCEPT !.current = digit], << >>)
    BY <1>1, <1>4, <2>1
  <2>3. [p EXCEPT !.current = digit] \in Csis
    BY <1>2, <1>4 DEF Csis
  <2>. QED  BY <2>2, <2>3, ToNothing DEF Fits, r
<1>5. CASE b = SEMICOLON
  <2>1. [p EXCEPT !.params = done, !.current = None] \in Csis
    <3>1. None \in Int
      BY DEF None
    <3>. QED  BY <1>2, <3>1 DEF Csis
  <2>2. r = To([p EXCEPT !.params = done, !.current = None], << >>)
    BY <1>1, <1>5 DEF ZERO, NINE, SEMICOLON, IsFinal
  <2>. QED  BY <2>1, <2>2, ToNothing DEF Fits, r
<1>6. CASE b \in 32 .. 47
  <2>1. [p EXCEPT !.intermediates = wider] \in Csis
    BY <1>2 DEF Csis
  <2>2. b # 63 /\ b \notin ZERO .. NINE /\ b # SEMICOLON /\ ~IsFinal(b)
    BY <1>6 DEF ZERO, NINE, SEMICOLON, IsFinal
  <2>3. r = To([p EXCEPT !.intermediates = wider], << >>)
    BY <1>1, <1>6, <2>2
  <2>. QED  BY <2>1, <2>3, ToNothing DEF Fits, r
<1>7. CASE IsFinal(b)
  <2>1. r = To(Ground, IF p.private THEN PrivateEffects(b, done)
                                    ELSE << << "csi", b, done, p.intermediates >> >>)
    BY <1>1, <1>7 DEF IsFinal, ZERO, NINE, SEMICOLON
  <2>2. PrivateEffects(b, done) \in Seq(Effects)
    <3>1. CASE b \in {104, 108}
      <4>1. \A i \in DOMAIN done : ParamOr(done, i, 0) \in Int
        BY <1>2 DEF ParamOr
      <4>2. \A i \in 1 .. Len(done) : << "mode", ParamOr(done, i, 0), b = 104 >> \in Effects
        <5>1. DOMAIN done = 1 .. Len(done) /\ (b = 104) \in BOOLEAN
          BY <1>2
        <5>. HIDE DEF done
        <5>. QED  BY <4>1, <5>1 DEF Effects
      <4>3. PrivateEffects(b, done) = [i \in 1 .. Len(done) |-> << "mode", ParamOr(done, i, 0), b = 104 >>]
        BY <1>2, <3>1 DEF PrivateEffects
      <4>4. Len(done) \in Nat
        BY <1>2
      <4>. HIDE DEF done
      <4>. QED  BY <4>2, <4>3, <4>4
    <3>2. CASE b \notin {104, 108}
      <4>. HIDE DEF done
      <4>1. PrivateEffects(b, done) = << << "private", b, done >> >>
        BY <3>2 DEF PrivateEffects
      <4>2. << "private", b, done >> \in Effects
        BY <1>2 DEF Effects
      <4>. QED  BY <4>1, <4>2
    <3>. QED  BY <3>1, <3>2
  <2>3. << "csi", b, done, p.intermediates >> \in Effects
    <3>. HIDE DEF done
    <3>. QED  BY <1>2 DEF Effects
  <2>. DEFINE d == IF p.private THEN PrivateEffects(b, done)
                                ELSE << << "csi", b, done, p.intermediates >> >>
  <2>4. d \in Seq(Effects) /\ r = To(Ground, d)
    BY <2>1, <2>2, <2>3
  <2>. HIDE DEF d
  <2>5. To(Ground, d).next = Ground /\ To(Ground, d).does = d
    BY DEF To
  <2>. QED  BY <2>4, <2>5, Fresher DEF Leads, r
<1>8. CASE /\ ~(b = 63 /\ start) /\ b \notin ZERO .. NINE /\ b # SEMICOLON /\ b \notin 32 .. 47
           /\ ~IsFinal(b)
  <2>1. r = To(p, << >>)
    BY <1>1, <1>8
  <2>. QED  BY <2>1, ToNothing DEF Fits, r
<1>. QED  BY <1>3, <1>4, <1>5, <1>6, <1>7, <1>8

(* What may be kept of a title.                                            *)
LEMMA KeptFacts ==
    ASSUME NEW s \in Titles, NEW b \in Octets, b # BEL,
           b = BACKSLASH /\ s # << >> /\ s[Len(s)] = ESC => ~(Len(s) < MAX_OSC_BYTES)
    PROVE  Kept(s, b) \in Titles
<1>1. s \in Seq(Octets) /\ Clean(s)
  BY DEF Titles
<1>2. CASE Len(s) < MAX_OSC_BYTES
  <2>1. /\ Append(s, b) \in Seq(Octets) /\ Len(Append(s, b)) = Len(s) + 1 /\ Len(s) \in Nat
        /\ DOMAIN s = 1 .. Len(s) /\ DOMAIN Append(s, b) = 1 .. Len(s) + 1
        /\ Append(s, b)[Len(s) + 1] = b
        /\ \A i \in 1 .. Len(s) : Append(s, b)[i] = s[i]
    BY <1>1
  <2>. DEFINE u == Append(s, b)
  <2>. HIDE DEF u
  <2>2. ASSUME NEW i \in DOMAIN u
        PROVE  u[i] # BEL /\ (u[i] = ESC /\ i < Len(u) => u[i + 1] # BACKSLASH)
    <3>1. CASE i = Len(s) + 1
      BY <2>1, <3>1 DEF u
    <3>2. CASE i \in 1 .. Len(s) /\ i # Len(s)
      <4>1. i + 1 \in 1 .. Len(s) /\ i < Len(s) /\ u[i] = s[i] /\ u[i + 1] = s[i + 1]
        BY <2>1, <3>2 DEF u
      <4>. QED  BY <1>1, <2>1, <3>2, <4>1 DEF Clean
    <3>3. CASE i \in 1 .. Len(s) /\ i = Len(s)
      <4>1. s # << >> /\ u[i] = s[Len(s)] /\ u[i + 1] = b
        BY <2>1, <3>3 DEF u
      <4>2. s[i] # BEL
        BY <1>1, <2>1, <3>3 DEF Clean
      <4>. QED  BY <1>2, <3>3, <4>1, <4>2
    <3>. QED  BY <2>1, <3>1, <3>2, <3>3 DEF u
  <2>3. Kept(s, b) = u
    BY <1>2 DEF Kept, u
  <2>4. u \in Seq(Octets)
    BY <2>1 DEF u
  <2>. QED  BY <2>2, <2>3, <2>4 DEF Titles, Clean
<1>3. CASE ~(Len(s) < MAX_OSC_BYTES)
  BY <1>3 DEF Kept
<1>. QED  BY <1>2, <1>3

LEMMA OscLeads ==
    ASSUME NEW p \in Oscs, Closed(p), NEW b \in Octets
    PROVE  Leads(InOsc(p, b))
<1>. DEFINE read == IF p.escape THEN Kept(p.bytes, ESC) ELSE p.bytes
            ends == p.escape /\ b = BACKSLASH
            r    == InOsc(p, b)
<1>1. r = CASE ends -> To(Ground, << << "osc", p.bytes >> >>)
            [] ~ends /\ b = BEL -> To(Ground, << << "osc", read >> >>)
            [] b = ESC -> To([p EXCEPT !.bytes = read, !.escape = TRUE], << >>)
            [] OTHER -> To([p EXCEPT !.bytes = Kept(read, b), !.escape = FALSE], << >>)
  BY DEF InOsc
<1>2. p.bytes \in Titles /\ p.escape \in BOOLEAN
  BY DEF Oscs
<1>3. read \in Titles /\ (~p.escape => read = p.bytes)
  <2>1. Kept(p.bytes, ESC) \in Titles
    <3>1. ESC \in Octets /\ ESC # BEL /\ ESC # BACKSLASH
      BY DEF Octets, ESC, BEL, BACKSLASH
    <3>. QED  BY <1>2, <3>1, KeptFacts
  <2>. QED  BY <1>2, <2>1
<1>. HIDE DEF read, r
<1>4. CASE ends
  <2>1. << "osc", p.bytes >> \in Effects
    BY <1>2 DEF Effects
  <2>2. r = To(Ground, << << "osc", p.bytes >> >>)
    <3>1. b # ESC
      BY <1>4 DEF ESC, BACKSLASH
    <3>. QED  BY <1>1, <1>4, <3>1
  <2>. QED  BY <2>1, <2>2, Fresher, ToOne DEF r
<1>5. CASE ~ends /\ b = BEL
  <2>1. << "osc", read >> \in Effects
    BY <1>3 DEF Effects
  <2>2. r = To(Ground, << << "osc", read >> >>)
    <3>1. b # ESC
      BY <1>5 DEF ESC, BEL
    <3>. QED  BY <1>1, <1>5, <3>1
  <2>. QED  BY <2>1, <2>2, Fresher, ToOne DEF r
<1>6. CASE ~ends /\ b = ESC
  <2>. DEFINE n == [p EXCEPT !.bytes = read, !.escape = TRUE]
  <2>1. n \in Oscs /\ n.escape
    BY <1>3 DEF Oscs
  <2>2. r = To(n, << >>)
    <3>1. b # BEL
      BY <1>6 DEF ESC, BEL
    <3>. QED  BY <1>1, <1>6, <3>1
  <2>. HIDE DEF n
  <2>. QED  BY <2>1, <2>2, ToNothing DEF Fits, Closed, r
<1>7. CASE ~ends /\ b # BEL /\ b # ESC
  <2>. DEFINE n == [p EXCEPT !.bytes = Kept(read, b), !.escape = FALSE]
  <2>1. Kept(read, b) \in Titles
    <3>1. b = BACKSLASH /\ read # << >> /\ read[Len(read)] = ESC => ~(Len(read) < MAX_OSC_BYTES)
      BY <1>2, <1>3, <1>7 DEF Closed
    <3>. QED  BY <1>3, <1>7, <3>1, KeptFacts
  <2>2. n \in Oscs /\ n.bytes = Kept(read, b)
    BY <2>1 DEF Oscs
  <2>3. Closed(n)
    <3>1. CASE Len(read) < MAX_OSC_BYTES
      <4>1. read \in Seq(Octets) /\ Kept(read, b) = Append(read, b)
        BY <1>3, <3>1 DEF Kept, Titles
      <4>2. Kept(read, b)[Len(Kept(read, b))] = b
        BY <4>1
      <4>. QED  BY <1>7, <2>2, <4>2 DEF Closed
    <3>2. CASE ~(Len(read) < MAX_OSC_BYTES)
      BY <2>2, <3>2 DEF Closed, Kept
    <3>. QED  BY <3>1, <3>2
  <2>4. r = To(n, << >>)
    BY <1>1, <1>7
  <2>. HIDE DEF n
  <2>. QED  BY <2>2, <2>3, <2>4, ToNothing DEF Fits, r
<1>. QED  BY <1>4, <1>5, <1>6, <1>7

(* What a broken character is printed as.                                  *)
LEMMA EachFacts ==
    ASSUME NEW s \in Seq(Octets)
    PROVE  /\ Each(s) \in Seq(Effects) /\ Len(Each(s)) = Len(s)
           /\ \A i \in 1 .. Len(s) : Each(s)[i] = << "put", << s[i] >> >>
<1>1. ASSUME NEW i \in 1 .. Len(s) PROVE << "put", << s[i] >> >> \in Effects
  <2>1. << s[i] >> \in Seq(Octets)
    OBVIOUS
  <2>. QED  BY <2>1 DEF Effects
<1>2. Each(s) = [i \in 1 .. Len(s) |-> << "put", << s[i] >> >>] /\ Len(s) \in Nat
  BY DEF Each, Put
<1>. QED  BY <1>1, <1>2

LEMMA Utf8Leads ==
    ASSUME NEW p \in Utf8s, NEW b \in Octets
    PROVE  Leads(InUtf8(p, b))
<1>. DEFINE bytes  == Append(p.bytes, b)
            length == SequenceLength(Head(p.bytes))
            ground == InGround(Ground, b)
            r      == InUtf8(p, b)
<1>1. r = CASE b \in 128 .. 191 /\ Len(bytes) = length -> To(Ground, << Put(bytes) >>)
            [] b \in 128 .. 191 /\ Len(bytes) < length -> To(Utf8(bytes), << >>)
            [] b \in 128 .. 191 /\ Len(bytes) > length -> To(ground.next, Each(bytes) \o ground.does)
            [] OTHER -> To(ground.next, Each(p.bytes) \o ground.does)
  BY DEF InUtf8
<1>2. /\ p.bytes \in Seq(128 .. 255) /\ p.bytes \in Seq(Octets)
      /\ bytes \in Seq(Octets) /\ Len(bytes) \in Nat /\ length \in 1 .. 4
      /\ b \in 128 .. 191 => Utf8(bytes) \in Utf8s
  <2>1. p.bytes \in Seq(128 .. 255) /\ p.bytes # << >>
    BY DEF Utf8s
  <2>2. 128 .. 255 \subseteq Octets
    BY DEF Octets
  <2>3. p.bytes \in Seq(Octets)
    BY <2>1, <2>2, SeqMonotonic
  <2>4. b \in 128 .. 191 => bytes \in Seq(128 .. 255) \ {<< >>}
    BY <2>1
  <2>. QED  BY <2>1, <2>3, <2>4 DEF Utf8s, Utf8, SequenceLength
<1>3. Leads(ground)
  BY GroundLeads DEF Ground, Grounds
<1>. HIDE DEF bytes, length, ground, r
<1>4. ASSUME NEW s \in Seq(Octets), r = To(ground.next, Each(s) \o ground.does)
      PROVE  Leads(r)
  <2>1. r.next = ground.next /\ r.does = Each(s) \o ground.does
    BY <1>4 DEF To
  <2>2. Each(s) \in Seq(Effects) /\ ground.does \in Seq(Effects)
    BY <1>3, EachFacts DEF Leads
  <2>. QED  BY <1>3, <2>1, <2>2 DEF Leads
<1>5. CASE b \in 128 .. 191 /\ Len(bytes) = length
  <2>1. r = To(Ground, << Put(bytes) >>)
    BY <1>1, <1>2, <1>5
  <2>2. Put(bytes) \in Effects
    BY <1>2 DEF Put, Effects
  <2>. QED  BY <2>1, <2>2, Fresher, ToOne DEF r
<1>6. CASE b \in 128 .. 191 /\ Len(bytes) < length
  <2>1. r = To(Utf8(bytes), << >>)
    BY <1>1, <1>2, <1>6
  <2>. QED  BY <1>2, <1>6, <2>1, ToNothing DEF Fits, r
<1>7. CASE b \in 128 .. 191 /\ Len(bytes) > length
  <2>1. r = To(ground.next, Each(bytes) \o ground.does)
    BY <1>1, <1>2, <1>7
  <2>. QED  BY <1>2, <1>4, <2>1 DEF r
<1>8. CASE b \notin 128 .. 191
  <2>1. r = To(ground.next, Each(p.bytes) \o ground.does)
    BY <1>1, <1>8
  <2>. QED  BY <1>2, <1>4, <2>1 DEF r
<1>9. b \in 128 .. 191 => Len(bytes) = length \/ Len(bytes) < length \/ Len(bytes) > length
  BY <1>2
<1>. QED  BY <1>5, <1>6, <1>7, <1>8, <1>9

LEMMA PlainLeads ==
    ASSUME NEW p, Fits(p), NEW b \in Octets
    PROVE  Leads(Plain(p, b))
<1>1. CASE p \in Grounds
  <2>1. p.at = "Ground"
    BY <1>1 DEF Grounds
  <2>. QED  BY <1>1, <2>1, GroundLeads DEF Plain
<1>2. CASE p = Escape
  <2>1. p.at = "Escape"
    BY <1>2 DEF Escape
  <2>. QED  BY <2>1, EscapeLeads DEF Plain
<1>3. CASE p \in Csis
  <2>1. p.at = "Csi"
    BY <1>3 DEF Csis
  <2>. QED  BY <1>3, <2>1, CsiLeads DEF Plain
<1>4. CASE p \in Oscs /\ Closed(p)
  <2>1. p.at = "Osc"
    BY <1>4 DEF Oscs
  <2>. QED  BY <1>4, <2>1, OscLeads DEF Plain
<1>5. CASE p \in Utf8s
  <2>1. p.at = "Utf8"
    BY <1>5 DEF Utf8s
  <2>. QED  BY <1>5, <2>1, Utf8Leads DEF Plain
<1>. QED  BY <1>1, <1>2, <1>3, <1>4, <1>5 DEF Fits

LEMMA TakenLeads ==
    ASSUME NEW p, Fits(p), NEW b \in Octets
    PROVE  Leads(Taken(p, b))
<1>1. CASE p.at # "Utf8" /\ b \in C1
  <2>. DEFINE first  == Plain(p, ESC)
              second == Plain(first.next, b - 64)
  <2>1. ESC \in Octets /\ b - 64 \in Octets
    BY <1>1 DEF ESC, Octets, C1
  <2>2. Leads(first)
    BY <2>1, PlainLeads
  <2>3. Leads(second)
    BY <2>1, <2>2, PlainLeads DEF Leads
  <2>4. Taken(p, b) = To(second.next, first.does \o second.does)
    BY <1>1 DEF Taken
  <2>. HIDE DEF first, second
  <2>5. /\ To(second.next, first.does \o second.does).next = second.next
        /\ To(second.next, first.does \o second.does).does = first.does \o second.does
    BY DEF To
  <2>6. first.does \o second.does \in Seq(Effects)
    BY <2>2, <2>3 DEF Leads
  <2>. QED  BY <2>3, <2>4, <2>5, <2>6 DEF Leads
<1>2. CASE ~(p.at # "Utf8" /\ b \in C1)
  BY <1>2, PlainLeads DEF Taken
<1>. QED  BY <1>1, <1>2

-----------------------------------------------------------------------------
(* The end of whatever was begun.                                          *)

LEMMA EndsPlainly ==
    ASSUME NEW p, Fits(p)
    PROVE  Plain(Plain(p, ESC).next, BACKSLASH).next = Ground
<1>. DEFINE q == Plain(p, ESC).next
            End(x) == Plain(x, BACKSLASH).next = Ground
<1>1. End(Escape)
  <2>1. Plain(Escape, BACKSLASH) = InEscape(BACKSLASH)
    BY DEF Plain, Escape
  <2>2. InEscape(BACKSLASH) = To(Ground, << << "escape", BACKSLASH >> >>)
    BY DEF InEscape, BACKSLASH
  <2>. QED  BY <2>1, <2>2 DEF To
<1>2. End(Ground)
  <2>1. Plain(Ground, BACKSLASH) = InGround(Ground, BACKSLASH)
    BY DEF Plain, Ground
  <2>2. InGround(Ground, BACKSLASH) = To(Ground, << Put(<< BACKSLASH >>) >>)
    BY DEF InGround, Ground, BACKSLASH, ESC, BEL, CR, BS, TAB
  <2>. QED  BY <2>1, <2>2 DEF To
<1>3. InGround(Ground, ESC).next = Escape
  <2>1. InGround(Ground, ESC) = To(Escape, << >>)
    BY DEF InGround, Ground, BACKSLASH, ESC, BEL, CR, BS, TAB
  <2>. QED  BY <2>1 DEF To
<1>4. CASE p \in Grounds
  <2>1. Plain(p, ESC) = InGround(p, ESC)
    BY <1>4 DEF Plain, Grounds
  <2>2. CASE p.pending = "none"
    <3>1. p = Ground
      BY <1>4, <2>2 DEF Grounds, Ground
    <3>. QED  BY <1>1, <1>3, <2>1, <3>1
  <2>3. CASE p.pending # "none"
    <3>1. InGround(p, ESC) = To(Ground, << << "charset", p.pending, ESC >> >>)
      BY <2>3 DEF InGround
    <3>2. q = Ground
      BY <2>1, <3>1 DEF To
    <3>. QED  BY <1>2, <3>2
  <2>. QED  BY <2>2, <2>3
<1>5. CASE p = Escape
  <2>1. Plain(p, ESC) = InEscape(ESC)
    BY <1>5 DEF Plain, Escape
  <2>2. InEscape(ESC) = To(Ground, << << "escape", ESC >> >>)
    BY DEF InEscape, ESC
  <2>3. q = Ground
    BY <2>1, <2>2 DEF To
  <2>. QED  BY <1>2, <2>3
<1>6. CASE p \in Csis
  <2>1. ASSUME NEW b PROVE Plain(p, b) = InCsi(p, b)
    BY <1>6 DEF Plain, Csis
  <2>2. InCsi(p, ESC) = To(p, << >>)
    BY DEF InCsi, ESC, ZERO, NINE, SEMICOLON, IsFinal
  <2>3. q = p
    BY <2>1, <2>2 DEF To
  <2>4. IsFinal(BACKSLASH) /\ BACKSLASH # 63 /\ BACKSLASH \notin ZERO .. NINE
        /\ BACKSLASH # SEMICOLON /\ BACKSLASH \notin 32 .. 47
    BY DEF IsFinal, BACKSLASH, ZERO, NINE, SEMICOLON
  <2>. DEFINE d == IF p.private THEN PrivateEffects(BACKSLASH, Append(p.params, p.current))
                   ELSE << << "csi", BACKSLASH, Append(p.params, p.current), p.intermediates >> >>
  <2>5. InCsi(p, BACKSLASH) = To(Ground, d)
    BY <2>4 DEF InCsi
  <2>. HIDE DEF d
  <2>6. To(Ground, d).next = Ground
    BY DEF To
  <2>. QED  BY <2>1, <2>3, <2>5, <2>6
<1>7. CASE p \in Oscs
  <2>. DEFINE read == IF p.escape THEN Kept(p.bytes, ESC) ELSE p.bytes
              n    == [p EXCEPT !.bytes = read, !.escape = TRUE]
  <2>1. Plain(p, ESC) = InOsc(p, ESC)
    BY <1>7 DEF Plain, Oscs
  <2>2. InOsc(p, ESC) = To(n, << >>)
    BY DEF InOsc, ESC, BEL, BACKSLASH
  <2>. HIDE DEF read
  <2>3. n.at = "Osc" /\ n.escape
    BY <1>7 DEF Oscs
  <2>. HIDE DEF n
  <2>4. q = n
    BY <2>1, <2>2 DEF To
  <2>5. Plain(n, BACKSLASH) = InOsc(n, BACKSLASH)
    BY <2>3 DEF Plain
  <2>6. InOsc(n, BACKSLASH) = To(Ground, << << "osc", n.bytes >> >>)
    BY <2>3 DEF InOsc, ESC, BEL, BACKSLASH
  <2>. QED  BY <2>4, <2>5, <2>6 DEF To
<1>8. CASE p \in Utf8s
  <2>. DEFINE ground == InGround(Ground, ESC)
  <2>1. Plain(p, ESC) = InUtf8(p, ESC)
    BY <1>8 DEF Plain, Utf8s
  <2>2. InUtf8(p, ESC) = To(ground.next, Each(p.bytes) \o ground.does)
    BY DEF InUtf8, ESC
  <2>. HIDE DEF ground
  <2>3. q = ground.next
    BY <2>1, <2>2 DEF To
  <2>. QED  BY <1>1, <1>3, <2>3 DEF ground
<1>. QED  BY <1>4, <1>5, <1>6, <1>7, <1>8 DEF Fits

LEMMA AlwaysEnds ==
    ASSUME NEW p, Fits(p)
    PROVE  Taken(Taken(p, ESC).next, BACKSLASH).next = Ground
<1>1. ESC \notin C1 /\ BACKSLASH \notin C1
  BY DEF ESC, BACKSLASH, C1
<1>. QED  BY <1>1, EndsPlainly DEF Taken

-----------------------------------------------------------------------------
(* The terminal.                                                           *)

(* All its parts are there, and its title is as it should be.              *)
Sound(t) == DOMAIN t = DOMAIN Fresh /\ t.title \in {<< >>} \union {<< s >> : s \in Titles}

LEMMA FreshIsSound == Sound(Fresh)
BY DEF Sound, Fresh

LEMMA CallsSound ==
    ASSUME NEW t, Sound(t), NEW call
    PROVE  Sound(Calls(t, call))
BY DEF Sound, Calls, Fresh

LEMMA RepliesSound ==
    ASSUME NEW t, Sound(t), NEW what
    PROVE  Sound(Replies(t, what))
BY DEF Sound, Replies, Fresh

LEMMA SavesSound ==
    ASSUME NEW t, Sound(t)
    PROVE  Sound(Saves(t)) /\ Sound(Restores(t))
BY DEF Sound, Saves, Restores, Calls, Fresh

LEMMA ReportSound ==
    ASSUME NEW t, Sound(t), NEW params
    PROVE  Sound(Report(t, params))
BY RepliesSound DEF Report

LEMMA CsiSound ==
    ASSUME NEW t, Sound(t), NEW final, NEW params, NEW intermediates
    PROVE  Sound(CsiCalls(t, final, params, intermediates))
<1>1. \A v : Sound([t EXCEPT !.style = v]) /\ Sound([t EXCEPT !.shape = v])
  BY DEF Sound, Fresh
<1>2. \A v : Sound(SetShape(t, v))
  BY <1>1 DEF SetShape
<1>. QED  BY <1>1, <1>2, CallsSound, RepliesSound, SavesSound, ReportSound DEF CsiCalls

LEMMA DecSound ==
    ASSUME NEW t, Sound(t), NEW mode, NEW on \in BOOLEAN
    PROVE  Sound(DecMode(t, mode, on))
<1>1. \A v : /\ Sound([t EXCEPT !.application = v]) /\ Sound([t EXCEPT !.mouse = v])
             /\ Sound([t EXCEPT !.show = v]) /\ Sound([t EXCEPT !.paste = v])
  BY DEF Sound, Fresh
<1>2. \A call : Sound(Calls(IF on THEN Saves(t) ELSE t, call))
  <2>1. Sound(IF on THEN Saves(t) ELSE t)
    BY SavesSound
  <2>. QED  BY <2>1, CallsSound
<1>3. Sound(t) /\ Sound(Saves(t)) /\ \A call : Sound(Calls(t, call))
  BY CallsSound, SavesSound
<1>. DEFINE a == [t EXCEPT !.application = on]
            m == [t EXCEPT !.mouse = IF on THEN MouseMode(mode) ELSE "Off"]
            s == [t EXCEPT !.show = on]
            p == [t EXCEPT !.paste = on]
            c == Calls(t, << "SetModes", {mode}, on >>)
            x == Calls(IF on THEN Saves(t) ELSE t, << "SetModes", {47}, on >>)
<1>4. DecMode(t, mode, on) =
        CASE mode = 1 -> a
          [] mode \in {6, 7, 47, 1047} -> c
          [] MouseMode(mode) # "none" -> m
          [] mode = 25 -> s
          [] mode = 1048 /\ on -> Saves(t)
          [] mode = 1049 -> x
          [] mode = 2004 -> p
          [] OTHER -> t
  BY DEF DecMode
<1>5. Sound(a) /\ Sound(c) /\ Sound(m) /\ Sound(s) /\ Sound(Saves(t)) /\ Sound(x) /\ Sound(p) /\ Sound(t)
  BY <1>1, <1>2, <1>3
<1>. HIDE DEF a, c, m, s, p, x
<1>6. DecMode(t, mode, on) \in {a, c, m, s, Saves(t), x, p, t}
  <2>1. MouseMode(mode) # "none" => mode \notin {1, 6, 7, 47, 1047, 25, 1048, 1049, 2004}
    BY DEF MouseMode
  <2>. QED  BY <1>4, <2>1
<1>. QED  BY <1>5, <1>6

LEMMA EscapeSound ==
    ASSUME NEW t, Sound(t), NEW b
    PROVE  Sound(EscapeCalls(t, b))
<1>1. \A v : Sound([Fresh EXCEPT !.calls = v])
  BY DEF Sound, Fresh
<1>. QED  BY <1>1, CallsSound, SavesSound DEF EscapeCalls

(* What is left of the octets behind the number is clean too.              *)
LEMMA TitleSound ==
    ASSUME NEW t, Sound(t), NEW bytes \in Titles
    PROVE  Sound(TitleOf(t, bytes))
<1>. DEFINE semi == SelectInSeq(bytes, LAMBDA b : b = SEMICOLON)
            rest == SubSeq(bytes, semi + 1, Len(bytes))
<1>1. bytes \in Seq(Octets) /\ Clean(bytes) /\ Len(bytes) \in Nat
  BY DEF Titles
<1>2. semi \in 0 .. Len(bytes)
  <2>. DEFINE I == {i \in 1 .. Len(bytes) : bytes[i] = SEMICOLON}
  <2>1. semi = IF I # {} THEN Min(I) ELSE 0
    BY DEF SelectInSeq
  <2>2. CASE I # {}
    <3>1. \E m \in I : \A n \in I : m <= n
      <4>1. I \in SUBSET Nat
        OBVIOUS
      <4>. HIDE DEF I
      <4>. QED  BY <2>2, <4>1, LeastNat
    <3>2. Min(I) \in I
      <4>. HIDE DEF I
      <4>. QED  BY <3>1 DEF Min
    <3>. QED  BY <2>1, <2>2, <3>2
  <2>3. CASE I = {}
    BY <1>1, <2>1, <2>3
  <2>. QED  BY <2>2, <2>3
<1>. HIDE DEF semi
<1>3. /\ rest \in Seq(Octets) /\ Len(rest) = Len(bytes) - semi
      /\ \A i \in 1 .. Len(bytes) - semi : rest[i] = bytes[semi + i]
  <2>1. /\ rest \in Seq(Octets)
        /\ Len(rest) = IF semi + 1 <= Len(bytes) THEN Len(bytes) - (semi + 1) + 1 ELSE 0
        /\ \A i \in 1 .. Len(bytes) - (semi + 1) + 1 : rest[i] = bytes[semi + 1 + i - 1]
    BY <1>1, <1>2, SubSeqProperties
  <2>2. Len(bytes) - (semi + 1) + 1 = Len(bytes) - semi
    BY <1>1, <1>2
  <2>. HIDE DEF rest
  <2>3. ASSUME NEW i \in 1 .. Len(bytes) - semi PROVE rest[i] = bytes[semi + i]
    <3>1. semi + 1 + i - 1 = semi + i
      BY <1>1, <1>2
    <3>. QED  BY <2>1, <2>2, <3>1
  <2>4. Len(rest) = Len(bytes) - semi
    <3>. DEFINE n == Len(bytes)
    <3>. HIDE DEF n
    <3>1. n \in Nat /\ semi \in 0 .. n /\ Len(rest) = IF semi + 1 <= n THEN n - (semi + 1) + 1 ELSE 0
      BY <1>1, <1>2, <2>1 DEF n
    <3>2. Len(rest) = n - semi
      BY <3>1
    <3>. QED  BY <3>2 DEF n
  <2>. QED  BY <2>1, <2>3, <2>4
<1>. HIDE DEF rest
<1>4. rest \in Titles
  <2>1. ASSUME NEW i \in DOMAIN rest
        PROVE  rest[i] # BEL /\ (rest[i] = ESC /\ i < Len(rest) => rest[i + 1] # BACKSLASH)
    <3>1. i \in 1 .. Len(bytes) - semi /\ semi + i \in DOMAIN bytes /\ rest[i] = bytes[semi + i]
      BY <1>1, <1>2, <1>3
    <3>2. i < Len(rest) => /\ rest[i + 1] = bytes[(semi + i) + 1] /\ semi + i < Len(bytes)
      <4>1. ASSUME i < Len(rest)
            PROVE  i + 1 \in 1 .. Len(bytes) - semi /\ semi + (i + 1) = (semi + i) + 1 /\ semi + i < Len(bytes)
        <5>. DEFINE n == Len(bytes)
        <5>. HIDE DEF n
        <5>1. n \in Nat /\ semi \in 0 .. n /\ i \in 1 .. n - semi /\ i < n - semi
          BY <1>1, <1>2, <1>3, <3>1, <4>1 DEF n
        <5>2. i + 1 \in 1 .. n - semi /\ semi + (i + 1) = (semi + i) + 1 /\ semi + i < n
          BY <5>1
        <5>. QED  BY <5>2 DEF n
      <4>. QED  BY <1>3, <4>1
    <3>. QED  BY <1>1, <3>1, <3>2 DEF Clean
  <2>. QED  BY <1>3, <2>1 DEF Titles, Clean
<1>5. Sound([t EXCEPT !.title = << rest >>])
  BY <1>4 DEF Sound, Fresh
<1>6. TitleOf(t, bytes) \in {t, [t EXCEPT !.title = << rest >>]}
  BY DEF TitleOf, rest, semi
<1>. QED  BY <1>5, <1>6

LEMMA EffectSound ==
    ASSUME NEW t, Sound(t), NEW e \in Effects
    PROVE  Sound(Effect(t, e))
<1>1. CASE e \in {"put"} \X Seq(Octets)
  BY <1>1, CallsSound DEF Effect
<1>2. CASE e \in {"charset"} \X {"g0", "g1"} \X Octets
  <2>1. \A v : Sound([t EXCEPT !.drawing = v])
    BY DEF Sound, Fresh
  <2>2. Effect(t, e) = IF e[2] = "g0" THEN [t EXCEPT !.drawing = e[3] = ZERO] ELSE t
    BY <1>2 DEF Effect
  <2>. QED  BY <2>1, <2>2
<1>3. CASE e = << "bell" >>
  <2>1. Sound([t EXCEPT !.bell = TRUE])
    BY DEF Sound, Fresh
  <2>. QED  BY <1>3, <2>1 DEF Effect
<1>4. CASE e \in {"move"} \X Octets
  BY <1>4, CallsSound DEF Effect, MoveCalls
<1>5. CASE e \in {"escape"} \X Octets
  BY <1>5, EscapeSound DEF Effect
<1>6. CASE e \in {"osc"} \X Titles
  BY <1>6, TitleSound DEF Effect
<1>7. CASE e \in {"csi"} \X Octets \X Seq(Int) \X Seq(Octets)
  BY <1>7, CsiSound DEF Effect
<1>8. CASE e \in {"private"} \X Octets \X Seq(Int)
  BY <1>8, CallsSound, ReportSound DEF Effect, PrivateCalls
<1>9. CASE e \in {"mode"} \X Int \X BOOLEAN
  BY <1>9, DecSound DEF Effect
<1>. QED  BY <1>1, <1>2, <1>3, <1>4, <1>5, <1>6, <1>7, <1>8, <1>9 DEF Effects

(* The effects are had one after the other.                                *)
Runs(h, t, d) == /\ After(t, d) = h[Len(d)]
                 /\ h[0] = [t EXCEPT !.calls = << >>]
                 /\ \A k \in 1 .. Len(d) : h[k] = Effect(h[k - 1], d[k])

LEMMA AfterRuns ==
    ASSUME NEW t, NEW d \in Seq(Effects)
    PROVE  \E h : Runs(h, t, d)
<1>. DEFINE s == [t EXCEPT !.calls = << >>]
            n == Len(d)
            Run(f, m) == f = [k \in 0 .. m |-> IF k = 0 THEN s ELSE Effect(f[k - 1], d[k])]
            S == {m \in Nat : \E f : Run(f, m)}
<1>. HIDE DEF s
<1>1. S \in SUBSET Nat /\ n \in Nat
  OBVIOUS
<1>2. 0 \in S
  <2>. DEFINE f == [k \in 0 .. 0 |-> s]
  <2>1. f = [k \in 0 .. 0 |-> IF k = 0 THEN s ELSE Effect(f[k - 1], d[k])]
    <3>1. \A k \in 0 .. 0 : k = 0
      OBVIOUS
    <3>. QED  BY <3>1
  <2>2. Run(f, 0)
    BY <2>1
  <2>. QED  BY <2>2
<1>3. ASSUME NEW m \in S PROVE m + 1 \in S
  <2>1. PICK f : Run(f, m)
    OBVIOUS
  <2>2. m \in Nat /\ m + 1 \in Nat
    OBVIOUS
  <2>. DEFINE g == [k \in 0 .. m + 1 |-> IF k = m + 1 THEN Effect(f[m], d[m + 1]) ELSE f[k]]
  <2>3. ASSUME NEW k \in 0 .. m + 1
        PROVE  g[k] = IF k = 0 THEN s ELSE Effect(g[k - 1], d[k])
    <3>1. CASE k = m + 1
      <4>1. g[m] = f[m] /\ k # 0 /\ k - 1 = m
        BY <2>2, <3>1
      <4>2. g[k] = Effect(f[m], d[m + 1])
        BY <3>1
      <4>. QED  BY <3>1, <4>1, <4>2
    <3>2. CASE k # m + 1
      <4>1. k \in 0 .. m /\ g[k] = f[k]
        BY <2>2, <3>2
      <4>2. f[k] = IF k = 0 THEN s ELSE Effect(f[k - 1], d[k])
        BY <2>1, <4>1
      <4>3. k # 0 => k - 1 \in 0 .. m + 1 /\ k - 1 # m + 1
        BY <2>2, <4>1
      <4>4. k # 0 => g[k - 1] = f[k - 1]
        BY <4>3
      <4>. HIDE DEF g
      <4>. QED  BY <4>1, <4>2, <4>4
    <3>. QED  BY <3>1, <3>2
  <2>4. g = [k \in 0 .. m + 1 |-> g[k]]
    OBVIOUS
  <2>5. Run(g, m + 1)
    <3>. HIDE DEF g
    <3>. QED  BY <2>3, <2>4
  <2>. QED  BY <2>2, <2>5
<1>4. n \in S
  <2>. HIDE DEF S, n
  <2>. QED  BY <1>1, <1>2, <1>3, InductiveSet
<1>. DEFINE h == CHOOSE f : Run(f, n)
<1>5. Run(h, n)
  BY <1>4
<1>6. h = [k \in 0 .. n |-> IF k = 0 THEN s ELSE Effect(h[k - 1], d[k])]
  BY <1>5
<1>7. After(t, d) = h[n]
  BY DEF After, s
<1>. HIDE DEF h
<1>8. h[0] = s
  BY <1>1, <1>6
<1>9. \A k \in 1 .. n : h[k] = Effect(h[k - 1], d[k])
  BY <1>1, <1>6
<1>. QED  BY <1>7, <1>8, <1>9 DEF s, Runs

LEMMA AfterSound ==
    ASSUME NEW t, Sound(t), NEW d \in Seq(Effects)
    PROVE  Sound(After(t, d))
<1>1. PICK h : /\ After(t, d) = h[Len(d)]
               /\ h[0] = [t EXCEPT !.calls = << >>]
               /\ \A k \in 1 .. Len(d) : h[k] = Effect(h[k - 1], d[k])
  BY AfterRuns DEF Runs
<1>. DEFINE S == {k \in Nat : k <= Len(d) => Sound(h[k])}
<1>2. S \in SUBSET Nat /\ 0 \in S
  <2>1. Sound(h[0])
    BY <1>1 DEF Sound, Fresh
  <2>. QED  BY <2>1
<1>3. ASSUME NEW k \in S PROVE k + 1 \in S
  <2>1. ASSUME k + 1 <= Len(d) PROVE Sound(h[k + 1])
    <3>1. Sound(h[k]) /\ k + 1 \in 1 .. Len(d) /\ (k + 1) - 1 = k /\ d[k + 1] \in Effects
      BY <2>1
    <3>2. h[k + 1] = Effect(h[k], d[k + 1])
      BY <1>1, <3>1
    <3>. QED  BY <3>1, <3>2, EffectSound
  <2>. QED  BY <2>1
<1>4. S = Nat
  <2>. HIDE DEF S
  <2>. QED  BY <1>2, <1>3, InductiveSet
<1>5. Len(d) \in S /\ Len(d) \in Nat
  BY <1>4
<1>. QED  BY <1>1, <1>5

-----------------------------------------------------------------------------
(* The octets of a character that is broken off.                           *)

(* The calls that a step out of such a character makes.                    *)
Told == ({"Put"} \X ({"line", "text"} \X Seq(Octets)))
          \union {<< "CarriageReturn" >>, << "Backspace" >>, << "Tab" >>, << "LineFeed" >>}

(* Calls that begin with these octets, printed one by one.                 *)
Prints(calls, s, k) ==
  /\ calls \in Seq(Told) /\ k <= Len(calls)
  /\ \A i \in 1 .. k : calls[i][1] = "Put" /\ calls[i][2][2] = << s[i] >>

(* Each octet adds to the calls.                                           *)
LEMMA PutTells ==
    ASSUME NEW t, Sound(t), t.calls \in Seq(Told), NEW bytes \in Seq(Octets)
    PROVE  \E call \in Told : /\ Effect(t, << "put", bytes >>).calls = Append(t.calls, call)
                              /\ call[1] = "Put" /\ call[2][2] = bytes
<1>. DEFINE call == << "Put", Glyph(t, bytes) >>
<1>1. /\ Glyph(t, bytes) \in {"line", "text"} \X Seq(Octets)
      /\ Glyph(t, bytes)[2] = bytes
  BY DEF Glyph
<1>2. call \in Told /\ call[1] = "Put" /\ call[2][2] = bytes
  BY <1>1 DEF Told
<1>3. Effect(t, << "put", bytes >>) = Calls(t, call)
  BY DEF Effect
<1>. HIDE DEF call
<1>4. Calls(t, call).calls = Append(t.calls, call)
  BY DEF Calls, Sound, Fresh
<1>. QED  BY <1>2, <1>3, <1>4

(* What the octet that breaks it off does.                                 *)
LEMMA GroundTells ==
    ASSUME NEW b \in Octets, NEW t, Sound(t), t.calls \in Seq(Told)
    PROVE  /\ InGround(Ground, b).does \in Seq(Effects) /\ Len(InGround(Ground, b).does) \in {0, 1}
           /\ Len(InGround(Ground, b).does) = 1 =>
                LET after == Effect(t, InGround(Ground, b).does[1]).calls
                IN  after = t.calls \/ \E call \in Told : after = Append(t.calls, call)
<1>. DEFINE d == InGround(Ground, b).does
<1>1. d \in Seq(Effects)
  BY GroundLeads DEF Leads, Ground, Grounds
<1>2. d \in {<< >>, << << "bell" >> >>, << << "move", b >> >>, << Put(<< b >>) >>}
  BY DEF InGround, Ground, To
<1>. HIDE DEF d
<1>3. CASE d = << >>
  BY <1>1, <1>3 DEF d
<1>4. CASE d = << << "bell" >> >>
  <2>1. Len(d) = 1 /\ d[1] = << "bell" >>
    BY <1>4
  <2>2. Effect(t, << "bell" >>) = [t EXCEPT !.bell = TRUE]
    BY DEF Effect
  <2>3. Effect(t, << "bell" >>).calls = t.calls
    BY <2>2 DEF Sound, Fresh
  <2>. QED  BY <1>1, <2>1, <2>3 DEF d
<1>5. CASE d = << << "move", b >> >>
  <2>1. Len(d) = 1 /\ d[1] = << "move", b >>
    BY <1>5
  <2>. DEFINE call == << CASE b = CR -> "CarriageReturn" [] b = BS -> "Backspace"
                           [] b = TAB -> "Tab" [] OTHER -> "LineFeed" >>
  <2>2. Effect(t, << "move", b >>) = Calls(t, call)
    BY DEF Effect, MoveCalls
  <2>3. call \in Told
    BY DEF Told
  <2>. HIDE DEF call
  <2>4. Calls(t, call).calls = Append(t.calls, call)
    BY DEF Calls, Sound, Fresh
  <2>. QED  BY <1>1, <2>1, <2>2, <2>3, <2>4 DEF d
<1>6. CASE d = << Put(<< b >>) >>
  <2>1. Len(d) = 1 /\ d[1] = << "put", << b >> >> /\ << b >> \in Seq(Octets)
    BY <1>6 DEF Put
  <2>2. \E call \in Told : Effect(t, << "put", << b >> >>).calls = Append(t.calls, call)
    BY <2>1, PutTells
  <2>. QED  BY <1>1, <2>1, <2>2 DEF d
<1>. QED  BY <1>2, <1>3, <1>4, <1>5, <1>6

LEMMA BrokenTells ==
    ASSUME NEW t, Sound(t), NEW s \in Seq(Octets), NEW b \in Octets
    PROVE  Prints(After(t, Each(s) \o InGround(Ground, b).does).calls, s, Len(s))
<1>. DEFINE g == InGround(Ground, b).does
            d == Each(s) \o g
            n == Len(s)
<1>1. g \in Seq(Effects) /\ Len(g) \in {0, 1}
  <2>1. Sound(Fresh) /\ Fresh.calls \in Seq(Told)
    BY FreshIsSound DEF Fresh
  <2>. QED  BY <2>1, GroundTells
<1>2. /\ Each(s) \in Seq(Effects) /\ Len(Each(s)) = n /\ n \in Nat
      /\ \A i \in 1 .. n : Each(s)[i] = << "put", << s[i] >> >>
  BY EachFacts
<1>. HIDE DEF g
<1>3. /\ d \in Seq(Effects) /\ Len(d) = n + Len(g)
      /\ \A i \in 1 .. n : d[i] = << "put", << s[i] >> >>
      /\ Len(g) = 1 => d[n + 1] = g[1]
  <2>1. /\ d \in Seq(Effects) /\ Len(d) = Len(Each(s)) + Len(g)
        /\ \A i \in 1 .. Len(Each(s)) + Len(g) :
             d[i] = IF i <= Len(Each(s)) THEN Each(s)[i] ELSE g[i - Len(Each(s))]
    BY <1>1, <1>2, ConcatProperties
  <2>. HIDE DEF d, n
  <2>2. ASSUME NEW i \in 1 .. n PROVE d[i] = << "put", << s[i] >> >>
    <3>1. i \in 1 .. Len(Each(s)) + Len(g) /\ i <= Len(Each(s))
      BY <1>1, <1>2
    <3>. QED  BY <1>2, <2>1, <3>1
  <2>3. ASSUME Len(g) = 1 PROVE d[n + 1] = g[1]
    <3>1. n + 1 \in 1 .. Len(Each(s)) + Len(g) /\ ~(n + 1 <= Len(Each(s))) /\ (n + 1) - Len(Each(s)) = 1
      BY <1>2, <2>3
    <3>. QED  BY <2>1, <3>1
  <2>. QED  BY <1>2, <2>1, <2>2, <2>3
<1>. HIDE DEF d
<1>4. PICK h : /\ After(t, d) = h[Len(d)]
               /\ h[0] = [t EXCEPT !.calls = << >>]
               /\ \A k \in 1 .. Len(d) : h[k] = Effect(h[k - 1], d[k])
  <2>1. d \in Seq(Effects)
    BY <1>3
  <2>2. \E h : Runs(h, t, d)
    BY <2>1, AfterRuns
  <2>. QED  BY <2>2 DEF Runs
<1>. DEFINE Stage(k) == Sound(h[k]) /\ Prints(h[k].calls, s, k) /\ Len(h[k].calls) = k
            S == {k \in Nat : k <= n => Stage(k)}
<1>5. S \in SUBSET Nat /\ 0 \in S
  <2>1. Sound(h[0]) /\ h[0].calls = << >>
    BY <1>4 DEF Sound, Fresh
  <2>2. Stage(0)
    BY <2>1 DEF Prints
  <2>. HIDE DEF Stage
  <2>. QED  BY <2>2
<1>6. ASSUME NEW k \in S PROVE k + 1 \in S
  <2>1. ASSUME k + 1 <= n PROVE Stage(k + 1)
    <3>1. Stage(k) /\ k \in Nat /\ k + 1 \in 1 .. n /\ k + 1 \in 1 .. Len(d) /\ (k + 1) - 1 = k
      <4>1. k <= n /\ k \in Nat /\ k + 1 \in 1 .. n
        BY <1>2, <2>1
      <4>2. k + 1 \in 1 .. Len(d)
        BY <1>1, <1>2, <1>3, <4>1
      <4>3. Stage(k)
        <5>. HIDE DEF Stage
        <5>. QED  BY <4>1
      <4>. QED  BY <4>1, <4>2, <4>3
    <3>2. h[k + 1] = Effect(h[k], << "put", << s[k + 1] >> >>)
      BY <1>3, <1>4, <3>1
    <3>3. << s[k + 1] >> \in Seq(Octets) /\ << "put", << s[k + 1] >> >> \in Effects
      <4>1. << s[k + 1] >> \in Seq(Octets)
        BY <3>1
      <4>. QED  BY <4>1 DEF Effects
    <3>4. Sound(h[k + 1])
      BY <3>1, <3>2, <3>3, EffectSound
    <3>. DEFINE c == h[k].calls
    <3>5. c \in Seq(Told) /\ Len(c) = k /\ \A i \in 1 .. k : c[i][1] = "Put" /\ c[i][2][2] = << s[i] >>
      BY <3>1 DEF Prints
    <3>6. PICK call \in Told : /\ h[k + 1].calls = Append(c, call)
                               /\ call[1] = "Put" /\ call[2][2] = << s[k + 1] >>
      <4>. DEFINE t1 == h[k]
                  b1 == << s[k + 1] >>
      <4>1. Sound(t1) /\ t1.calls \in Seq(Told) /\ b1 \in Seq(Octets)
        BY <3>1, <3>3, <3>5
      <4>. HIDE DEF t1, b1
      <4>2. PICK call \in Told : /\ Effect(t1, << "put", b1 >>).calls = Append(t1.calls, call)
                                 /\ call[1] = "Put" /\ call[2][2] = b1
        BY <4>1, PutTells
      <4>. QED  BY <3>2, <4>2 DEF t1, b1
    <3>. HIDE DEF c
    <3>7. /\ Append(c, call) \in Seq(Told) /\ Len(Append(c, call)) = k + 1
          /\ Append(c, call)[k + 1] = call /\ \A i \in 1 .. k : Append(c, call)[i] = c[i]
      BY <3>1, <3>5
    <3>8. \A i \in 1 .. k + 1 : Append(c, call)[i][1] = "Put" /\ Append(c, call)[i][2][2] = << s[i] >>
      <4>1. ASSUME NEW i \in 1 .. k + 1
            PROVE  Append(c, call)[i][1] = "Put" /\ Append(c, call)[i][2][2] = << s[i] >>
        <5>1. CASE i = k + 1
          BY <3>6, <3>7, <5>1
        <5>2. CASE i # k + 1
          <6>1. i \in 1 .. k
            BY <3>1, <5>2
          <6>. QED  BY <3>5, <3>7, <6>1
        <5>. QED  BY <5>1, <5>2
      <4>. QED  BY <4>1
    <3>. QED  BY <3>1, <3>4, <3>6, <3>7, <3>8 DEF Prints
  <2>. HIDE DEF Stage
  <2>. QED  BY <2>1
<1>7. Stage(n)
  <2>1. S = Nat
    <3>. HIDE DEF S
    <3>. QED  BY <1>5, <1>6, InductiveSet
  <2>2. n \in S
    <3>. HIDE DEF S
    <3>. QED  BY <1>2, <2>1
  <2>. HIDE DEF Stage
  <2>. QED  BY <1>2, <2>2
<1>8. CASE Len(g) = 0
  <2>1. After(t, d) = h[n]
    BY <1>2, <1>3, <1>4, <1>8
  <2>. QED  BY <1>7, <2>1 DEF d, g
<1>9. CASE Len(g) = 1
  <2>. DEFINE c == h[n].calls
              q == After(t, d).calls
  <2>1. n + 1 = Len(d) /\ n + 1 \in 1 .. Len(d) /\ (n + 1) - 1 = n
    BY <1>2, <1>3, <1>9
  <2>2. After(t, d) = Effect(h[n], g[1])
    BY <1>3, <1>4, <1>9, <2>1
  <2>3. c \in Seq(Told) /\ Len(c) = n /\ \A i \in 1 .. n : c[i][1] = "Put" /\ c[i][2][2] = << s[i] >>
    BY <1>7 DEF Prints
  <2>4. q = c \/ \E call \in Told : q = Append(c, call)
    <3>1. Sound(h[n]) /\ h[n].calls \in Seq(Told)
      BY <1>7, <2>3
    <3>2. LET after == Effect(h[n], InGround(Ground, b).does[1]).calls
          IN  after = h[n].calls \/ \E call \in Told : after = Append(h[n].calls, call)
      BY <1>9, <3>1, GroundTells DEF g
    <3>. QED  BY <2>2, <3>2 DEF g
  <2>. HIDE DEF c, q
  <2>5. CASE q = c
    BY <1>2, <2>3, <2>5 DEF Prints, q, d, g
  <2>6. ASSUME NEW call \in Told, q = Append(c, call) PROVE Prints(q, s, n)
    <3>1. /\ q \in Seq(Told) /\ Len(q) = n + 1 /\ \A i \in 1 .. n : q[i] = c[i]
      BY <1>2, <2>3, <2>6
    <3>2. n <= Len(q)
      BY <1>2, <3>1
    <3>. QED  BY <2>3, <3>1, <3>2 DEF Prints
  <2>. QED  BY <2>4, <2>5, <2>6 DEF q, d, g
<1>. QED  BY <1>1, <1>8, <1>9

(* Such calls show these octets first, whatever is still to come.          *)
LEMMA PrintsShow ==
    ASSUME NEW calls, NEW s \in Seq(Octets), Prints(calls, s, Len(s)), NEW u \in Seq(Octets)
    PROVE  IsPrefix(s, Text(calls) \o u)
<1>. DEFINE pieces == [i \in DOMAIN calls |-> IF calls[i][1] = "Put" THEN calls[i][2][2] ELSE << >>]
<1>1. calls \in Seq(Told) /\ Len(s) \in Nat /\ Len(calls) \in Nat /\ Len(s) <= Len(calls)
  BY DEF Prints
<1>2. ASSUME NEW i \in 1 .. Len(calls)
      PROVE  (IF calls[i][1] = "Put" THEN calls[i][2][2] ELSE << >>) \in Seq(Octets)
  <2>1. calls[i] \in Told
    BY <1>1
  <2>. QED  BY <2>1 DEF Told
<1>3. pieces \in Seq(Seq(Octets)) /\ Len(pieces) = Len(calls)
  <2>1. DOMAIN calls = 1 .. Len(calls)
    BY <1>1
  <2>. QED  BY <1>1, <1>2, <2>1
<1>4. ASSUME NEW i \in 1 .. Len(s) PROVE pieces[i] = << s[i] >>
  <2>1. i \in DOMAIN calls
    BY <1>1
  <2>. QED  BY <2>1 DEF Prints
<1>. HIDE DEF pieces
<1>5. /\ FlattenSeq(pieces) \in Seq(Octets) /\ Len(s) <= Len(FlattenSeq(pieces))
      /\ \A i \in 1 .. Len(s) : FlattenSeq(pieces)[i] = s[i]
  <2>1. FlattenSeq(pieces) \in Seq(Octets)
    BY <1>3, FlattenType
  <2>. QED  BY <1>1, <1>3, <1>4, <2>1, FlattenStarts
<1>6. Text(calls) = FlattenSeq(pieces)
  BY DEF Text, pieces
<1>. QED  BY <1>5, <1>6, PrefixByPlaces

LEMMA CharacterKept ==
    ASSUME NEW p, Fits(p), NEW t, Sound(t), NEW b \in Octets
    PROVE  IsPrefix(Owed(p), Text(After(t, Taken(p, b).does).calls) \o Owed(Taken(p, b).next))
<1>. DEFINE calls == After(t, Taken(p, b).does).calls
            next  == Taken(p, b).next
<1>. SUFFICES IsPrefix(Owed(p), Text(calls) \o Owed(next))
  OBVIOUS
<1>1. Leads(Taken(p, b))
  BY TakenLeads
<1>2. Owed(next) \in Seq(Octets)
  <2>1. Fits(next)
    BY <1>1 DEF Leads
  <2>. HIDE DEF next
  <2>2. 128 .. 255 \subseteq Octets
    BY DEF Octets
  <2>3. next.at = "Utf8" => next \in Utf8s
    BY <2>1 DEF Fits, Grounds, Escape, Csis, Oscs
  <2>4. next \in Utf8s => next.bytes \in Seq(Octets)
    BY <2>2, SeqMonotonic DEF Utf8s
  <2>. QED  BY <2>3, <2>4 DEF Owed
<1>3. CASE p \notin Utf8s
  <2>1. Owed(p) = << >>
    BY <1>3 DEF Fits, Grounds, Escape, Csis, Oscs, Owed
  <2>. DEFINE x == Text(calls) \o Owed(next)
  <2>2. Len(x) \in Nat /\ SubSeq(x, 1, 0) = << >>
    <3>. HIDE DEF x
    <3>. QED  OBVIOUS
  <2>. QED  BY <2>1, <2>2 DEF IsPrefix
<1>4. CASE p \in Utf8s
  <2>. DEFINE bytes  == Append(p.bytes, b)
              length == SequenceLength(Head(p.bytes))
              ground == InGround(Ground, b)
  <2>1. Taken(p, b) = InUtf8(p, b) /\ Owed(p) = p.bytes
    BY <1>4 DEF Taken, Plain, Utf8s, Owed
  <2>2. /\ p.bytes \in Seq(Octets) /\ bytes \in Seq(Octets)
        /\ Len(p.bytes) \in Nat /\ Len(bytes) = Len(p.bytes) + 1 /\ length \in 1 .. 4
        /\ \A i \in 1 .. Len(p.bytes) : bytes[i] = p.bytes[i]
    <3>1. p.bytes \in Seq(128 .. 255) /\ 128 .. 255 \subseteq Octets
      BY <1>4 DEF Utf8s, Octets
    <3>2. p.bytes \in Seq(Octets)
      BY <3>1, SeqMonotonic
    <3>. QED  BY <3>2 DEF SequenceLength
  <2>. HIDE DEF bytes, length
  <2>3. CASE b \in 128 .. 191 /\ Len(bytes) = length
    <3>1. InUtf8(p, b) = To(Ground, << Put(bytes) >>)
      BY <2>2, <2>3 DEF InUtf8, bytes, length
    <3>2. Taken(p, b).does = << Put(bytes) >> /\ next = Ground
      BY <2>1, <3>1 DEF To
    <3>3. << Put(bytes) >> \in Seq(Effects) /\ Len(<< Put(bytes) >>) = 1 /\ << Put(bytes) >>[1] = << "put", bytes >>
      <4>1. Put(bytes) \in Effects
        BY <2>2 DEF Put, Effects
      <4>. QED  BY <4>1 DEF Put
    <3>4. PICK h : Runs(h, t, << Put(bytes) >>)
      BY <3>3, AfterRuns
    <3>5. calls = Effect([t EXCEPT !.calls = << >>], << "put", bytes >>).calls
      <4>1. /\ After(t, << Put(bytes) >>) = h[1] /\ h[0] = [t EXCEPT !.calls = << >>]
            /\ h[1] = Effect(h[1 - 1], << "put", bytes >>)
        BY <3>3, <3>4 DEF Runs
      <4>. QED  BY <3>2, <4>1
    <3>6. Sound([t EXCEPT !.calls = << >>]) /\ [t EXCEPT !.calls = << >>].calls = << >>
      BY DEF Sound, Fresh
    <3>7. PICK call \in Told : calls = Append(<< >>, call) /\ call[1] = "Put" /\ call[2][2] = bytes
      <4>. DEFINE t1 == [t EXCEPT !.calls = << >>]
      <4>. HIDE DEF t1
      <4>1. \E call \in Told : /\ Effect(t1, << "put", bytes >>).calls = Append(t1.calls, call)
                              /\ call[1] = "Put" /\ call[2][2] = bytes
        <5>1. Sound(t1) /\ t1.calls \in Seq(Told) /\ bytes \in Seq(Octets)
          BY <2>2, <3>6 DEF t1
        <5>. QED  BY <5>1, PutTells
      <4>. QED  BY <3>5, <3>6, <4>1 DEF t1
    <3>. HIDE DEF calls, next
    <3>8. Text(calls) = bytes
      <4>1. calls = << call >>
        BY <3>7
      <4>. DEFINE pieces == [i \in DOMAIN calls |-> IF calls[i][1] = "Put" THEN calls[i][2][2] ELSE << >>]
      <4>2. DOMAIN calls = 1 .. 1 /\ calls[1] = call
        BY <4>1
      <4>3. pieces = [i \in 1 .. 1 |-> bytes]
        BY <3>7, <4>2
      <4>4. pieces \in Seq(Seq(Octets)) /\ Len(pieces) = 1 /\ pieces[1] = bytes /\ pieces # << >>
        <5>1. pieces = << bytes >>
          BY <4>3
        <5>2. << bytes >> \in Seq(Seq(Octets)) /\ Len(<< bytes >>) = 1 /\ << bytes >>[1] = bytes
          BY <2>2
        <5>. HIDE DEF pieces
        <5>3. pieces # << >>
          BY <5>1
        <5>. QED  BY <5>1, <5>2, <5>3
      <4>. HIDE DEF pieces
      <4>5. PICK f : /\ FlattenSeq(pieces) = f[Len(pieces)]
                     /\ f[1] = pieces[1]
                     /\ \A k \in 1 .. Len(pieces) - 1 : f[k + 1] = f[k] \o pieces[k + 1]
        BY <4>4, FlattenRuns
      <4>. QED  BY <4>4, <4>5 DEF Text, pieces
    <3>. QED  BY <1>2, <2>1, <2>2, <3>8, PrefixByPlaces
  <2>4. CASE b \in 128 .. 191 /\ Len(bytes) < length
    <3>1. InUtf8(p, b) = To(Utf8(bytes), << >>)
      BY <2>2, <2>4 DEF InUtf8, bytes, length
    <3>2. Taken(p, b).does = << >> /\ next = Utf8(bytes)
      BY <2>1, <3>1 DEF To
    <3>3. Owed(next) = bytes
      BY <3>2 DEF Owed, Utf8
    <3>4. << >> \in Seq(Effects) /\ Len(<< >>) = 0
      OBVIOUS
    <3>5. PICK h : Runs(h, t, << >>)
      BY <3>4, AfterRuns
    <3>6. calls = << >>
      <4>1. After(t, << >>) = [t EXCEPT !.calls = << >>]
        BY <3>4, <3>5 DEF Runs
      <4>. QED  BY <3>2, <4>1 DEF Sound, Fresh
    <3>. HIDE DEF calls, next
    <3>7. Text(calls) = << >>
      BY <3>6 DEF Text, FlattenSeq
    <3>8. IsPrefix(p.bytes, bytes \o << >>)
      <4>1. Len(p.bytes) <= Len(bytes) /\ << >> \in Seq(Octets)
        BY <2>2
      <4>. QED  BY <2>2, <4>1, PrefixByPlaces
    <3>9. bytes \o << >> = << >> \o bytes
      BY <2>2
    <3>. QED  BY <2>1, <3>3, <3>7, <3>8, <3>9
  <2>5. ASSUME NEW s \in Seq(Octets), InUtf8(p, b) = To(ground.next, Each(s) \o ground.does),
               Len(p.bytes) <= Len(s), \A i \in 1 .. Len(p.bytes) : s[i] = p.bytes[i]
        PROVE  IsPrefix(Owed(p), Text(calls) \o Owed(next))
    <3>1. Taken(p, b).does = Each(s) \o ground.does
      BY <2>1, <2>5 DEF To
    <3>2. Prints(calls, s, Len(s))
      BY <3>1, BrokenTells
    <3>3. Prints(calls, p.bytes, Len(p.bytes))
      <4>1. Len(s) \in Nat /\ calls \in Seq(Told) /\ Len(calls) \in Nat /\ Len(s) <= Len(calls)
        BY <3>2 DEF Prints
      <4>2. Len(p.bytes) <= Len(calls)
        BY <2>2, <2>5, <4>1
      <4>3. ASSUME NEW i \in 1 .. Len(p.bytes)
            PROVE  calls[i][1] = "Put" /\ calls[i][2][2] = << p.bytes[i] >>
        <5>1. i \in 1 .. Len(s)
          BY <2>2, <2>5, <4>1
        <5>. QED  BY <2>5, <3>2, <5>1 DEF Prints
      <4>. QED  BY <4>1, <4>2, <4>3 DEF Prints
    <3>. HIDE DEF calls, next
    <3>. QED  BY <1>2, <2>1, <2>2, <3>3, PrintsShow
  <2>6. CASE b \in 128 .. 191 /\ Len(bytes) > length
    <3>1. InUtf8(p, b) = To(ground.next, Each(bytes) \o ground.does)
      BY <2>2, <2>6 DEF InUtf8, bytes, length
    <3>2. Len(p.bytes) <= Len(bytes)
      BY <2>2
    <3>. HIDE DEF calls, next, ground
    <3>. QED  BY <2>2, <2>5, <3>1, <3>2
  <2>7. CASE b \notin 128 .. 191
    <3>1. InUtf8(p, b) = To(ground.next, Each(p.bytes) \o ground.does)
      BY <2>7 DEF InUtf8
    <3>2. Len(p.bytes) <= Len(p.bytes)
      BY <2>2
    <3>. HIDE DEF calls, next, ground
    <3>. QED  BY <2>2, <2>5, <3>1, <3>2
  <2>8. b \in 128 .. 191 => Len(bytes) = length \/ Len(bytes) < length \/ Len(bytes) > length
    BY <2>2
  <2>. QED  BY <2>3, <2>4, <2>6, <2>7, <2>8
<1>. QED  BY <1>3, <1>4

-----------------------------------------------------------------------------
(* The theorems.                                                           *)

IInv == Fits(parser) /\ Sound(terminal)

LEMMA InvInit == Init => IInv
BY Fresher, FreshIsSound DEF Init, IInv

LEMMA InvNext == IInv /\ [Next]_vars => IInv'
<1>. SUFFICES ASSUME IInv, [Next]_vars PROVE IInv'
  OBVIOUS
<1>. USE DEF IInv
<1>1. CASE \E b \in Bytes : Feed(b)
  <2>1. PICK b \in Octets : parser' = Taken(parser, b).next /\ terminal' = After(terminal, Taken(parser, b).does)
    BY <1>1, ParserAssumption DEF Feed, Octets
  <2>2. Leads(Taken(parser, b))
    BY TakenLeads
  <2>. QED  BY <2>1, <2>2, AfterSound DEF Leads
<1>2. CASE Answer
  <2>1. Sound([terminal EXCEPT !.replies = << >>, !.calls = << >>])
    BY DEF Sound, Fresh
  <2>. QED  BY <1>2, <2>1 DEF Answer
<1>3. CASE TakeBell
  <2>1. Sound([terminal EXCEPT !.bell = FALSE, !.calls = << >>])
    BY DEF Sound, Fresh
  <2>. QED  BY <1>3, <2>1 DEF TakeBell
<1>4. CASE \E on \in BOOLEAN : SetStandout(on)
  <2>1. PICK on \in BOOLEAN : SetStandout(on)
    BY <1>4
  <2>2. Sound([terminal EXCEPT !.standout = on, !.calls = << >>])
    BY DEF Sound, Fresh
  <2>. QED  BY <2>1, <2>2 DEF SetStandout
<1>5. CASE UNCHANGED vars
  BY <1>5 DEF vars
<1>. QED  BY <1>1, <1>2, <1>3, <1>4, <1>5 DEF Next

(* Whatever the parser is in the middle of, ESC \ brings it back to text   *)
(* (TerminatorEnds): apply_byte and the functions it calls.                *)
THEOREM TerminatorsAreFound == Spec => []TerminatorEnds
<1>1. IInv => TerminatorEnds
  BY AlwaysEnds DEF IInv, TerminatorEnds
<1>. QED  BY <1>1, InvInit, InvNext, PTL DEF Spec

(* No title of the terminal holds BEL, nor ESC followed by \, whatever the *)
(* limit on its length cuts off (TitleHasNoTerminator): apply_osc_byte,    *)
(* OscState::push and finish_osc.                                          *)
THEOREM TitlesAreClean == Spec => []TitleHasNoTerminator
<1>1. IInv => TitleHasNoTerminator
  <2>. SUFFICES ASSUME IInv, NEW i \in DOMAIN terminal.title PROVE Clean(terminal.title[i])
    BY DEF TitleHasNoTerminator, Clean
  <2>1. terminal.title # << >>
    OBVIOUS
  <2>2. PICK s \in Titles : terminal.title = << s >>
    BY <2>1 DEF IInv, Sound
  <2>. QED  BY <2>2 DEF Titles
<1>. QED  BY <1>1, InvInit, InvNext, PTL DEF Spec

(* A character that is broken off is printed octet by octet before         *)
(* anything that comes after it (BrokenTextKept): apply_utf8_byte.         *)
THEOREM BrokenTextIsKept == Spec => BrokenTextKept
<1>1. IInv /\ [Next]_vars => [IsPrefix(Owed(parser), Text(terminal'.calls) \o Owed(parser'))]_vars
  <2>. SUFFICES ASSUME IInv, [Next]_vars, vars' # vars
                PROVE  IsPrefix(Owed(parser), Text(terminal'.calls) \o Owed(parser'))
    BY Zenon
  <2>1. CASE \E b \in Bytes : Feed(b)
    <3>1. PICK b \in Octets : parser' = Taken(parser, b).next /\ terminal' = After(terminal, Taken(parser, b).does)
      BY <2>1, ParserAssumption DEF Feed, Octets
    <3>. QED  BY <3>1, CharacterKept DEF IInv
  <2>2. ASSUME UNCHANGED parser, terminal'.calls = << >>
        PROVE  IsPrefix(Owed(parser), Text(terminal'.calls) \o Owed(parser'))
    <3>1. Owed(parser) \in Seq(Octets)
      <4>1. 128 .. 255 \subseteq Octets
        BY DEF Octets
      <4>2. parser.at = "Utf8" => parser \in Utf8s
        BY DEF IInv, Fits, Grounds, Escape, Csis, Oscs
      <4>3. parser \in Utf8s => parser.bytes \in Seq(Octets)
        BY <4>1, SeqMonotonic DEF Utf8s
      <4>. QED  BY <4>2, <4>3 DEF Owed
    <3>2. Text(terminal'.calls) = << >>
      BY <2>2 DEF Text, FlattenSeq
    <3>3. << >> \o Owed(parser) = Owed(parser) \o << >> /\ Owed(parser)' = Owed(parser)
      BY <2>2, <3>1 DEF Owed
    <3>4. IsPrefix(Owed(parser), Owed(parser) \o << >>)
      <4>1. Len(Owed(parser)) <= Len(Owed(parser)) /\ << >> \in Seq(Octets)
        BY <3>1
      <4>. QED  BY <3>1, <4>1, PrefixByPlaces
    <3>. QED  BY <3>2, <3>3, <3>4
  <2>3. CASE Answer \/ TakeBell \/ \E on \in BOOLEAN : SetStandout(on)
    <3>1. UNCHANGED parser /\ terminal'.calls = << >>
      BY <2>3 DEF Answer, TakeBell, SetStandout, IInv, Sound, Fresh
    <3>. QED  BY <2>2, <3>1
  <2>. QED  BY <2>1, <2>3 DEF Next, vars
<1>. QED  BY <1>1, InvInit, InvNext, PTL DEF Spec, BrokenTextKept

-----------------------------------------------------------------------------
(* SGR sequences.                                                          *)

(* How far a sequence has been read: a style, and the next parameter.      *)
Readings == [style : Renditions, next : Int]

SgrStep(params, so_far, i) ==
  IF i < so_far.next THEN so_far ELSE SgrAt(params, i, so_far.style, FALSE)

LEMMA ColorFacts ==
    /\ DefaultColor \in Colors /\ DefaultStyle \in Renditions
    /\ \A c \in 0 .. 15 : Basic(c) \in Colors
    /\ \A c \in Int : Indexed(c) \in Colors
    /\ \A r, g, b \in Int : Rgb(r, g, b) \in Colors
<1>1. DefaultColor \in Colors
  BY DEF Colors
<1>2. DefaultStyle \in Renditions
  BY <1>1 DEF DefaultStyle, Renditions
<1>3. \A c \in 0 .. 15 : Basic(c) \in Colors
  BY DEF Colors, Basic
<1>4. \A c \in Int : c % 256 \in 0 .. 255
  OBVIOUS
<1>5. \A c \in Int : Indexed(c) \in Colors
  BY <1>4 DEF Colors, Indexed
<1>6. \A r, g, b \in Int : Rgb(r, g, b) \in Colors
  BY <1>4 DEF Colors, Rgb
<1>. QED  BY <1>1, <1>2, <1>3, <1>5, <1>6

LEMMA ExtendedFacts ==
    ASSUME NEW params \in Seq(Int), NEW i \in Int, NEW old \in Colors
    PROVE  Extended(params, i, old).color \in Colors /\ Extended(params, i, old).next \in Int
<1>. DEFINE at(k) == ParamOr(params, i + k, 0)
            has(k) == i + k <= Len(params)
            e == Extended(params, i, old)
<1>1. \A k : at(k) \in Int
  BY DEF ParamOr
<1>2. Len(params) \in Nat
  OBVIOUS
<1>3. e = CASE ~has(2) -> [color |-> old, next |-> i + 1]
        [] has(2) /\ at(1) = 5 -> [color |-> Indexed(at(2)), next |-> i + 3]
        [] has(4) /\ at(1) = 2 -> [color |-> Rgb(at(2), at(3), at(4)), next |-> i + 5]
        [] has(2) /\ ~has(4) /\ at(1) = 2 -> [color |-> old, next |-> i + 1]
        [] OTHER -> [color |-> old, next |-> i + 2]
  BY DEF Extended
<1>4. has(4) => has(2)
  BY <1>2
<1>5. Indexed(at(2)) \in Colors /\ Rgb(at(2), at(3), at(4)) \in Colors
  BY <1>1, ColorFacts
<1>. HIDE DEF at, has, e
<1>6. \/ e = [color |-> old, next |-> i + 1]
      \/ e = [color |-> Indexed(at(2)), next |-> i + 3]
      \/ e = [color |-> Rgb(at(2), at(3), at(4)), next |-> i + 5]
      \/ e = [color |-> old, next |-> i + 2]
  BY <1>3, <1>4
<1>7. e.color \in Colors /\ e.next \in Int
  BY <1>5, <1>6
<1>. QED  BY <1>7 DEF e

LEMMA SetsFacts ==
    ASSUME NEW v \in Int
    PROVE  /\ Sets(v) # "none" <=> v \in {1, 3, 4, 5, 7}
           /\ Clears(v) # "none" <=> v \in {2, 22, 23, 24, 25, 27}
           /\ Sets(v) # "none" => Sets(v) \in Attributes
<1>1. Sets(v) # "none" <=> v \in {1, 3, 4, 5, 7}
  BY DEF Sets
<1>2. Clears(v) # "none" <=> v \in {2, 22, 23, 24, 25, 27}
  BY DEF Clears
<1>3. Sets(v) # "none" => Sets(v) \in Attributes
  BY DEF Sets, Attributes
<1>. QED  BY <1>1, <1>2, <1>3

\* No two of the things that a parameter can stand for overlap.
LEMMA SgrValues ==
    ASSUME NEW v \in Int
    PROVE  /\ v = 0 =>
                /\ v \notin {1, 3, 4, 5, 7} /\ v \notin {2, 22, 23, 24, 25, 27}
                /\ v \notin 30 .. 37 /\ v # 38 /\ v # 39 /\ v \notin 40 .. 47 /\ v # 48
                /\ v # 49 /\ v \notin 90 .. 97 /\ v \notin 100 .. 107
           /\ v \in {1, 3, 4, 5, 7} =>
                /\ v \notin {2, 22, 23, 24, 25, 27} /\ v \notin 30 .. 37 /\ v # 38 /\ v # 39
                /\ v \notin 40 .. 47 /\ v # 48 /\ v # 49 /\ v \notin 90 .. 97
                /\ v \notin 100 .. 107
           /\ v \in {2, 22, 23, 24, 25, 27} =>
                /\ v \notin 30 .. 37 /\ v # 38 /\ v # 39 /\ v \notin 40 .. 47 /\ v # 48
                /\ v # 49 /\ v \notin 90 .. 97 /\ v \notin 100 .. 107
           /\ v \in 30 .. 37 =>
                /\ v # 38 /\ v # 39 /\ v \notin 40 .. 47 /\ v # 48 /\ v # 49
                /\ v \notin 90 .. 97 /\ v \notin 100 .. 107
           /\ v = 38 =>
                /\ v # 39 /\ v \notin 40 .. 47 /\ v # 48 /\ v # 49 /\ v \notin 90 .. 97
                /\ v \notin 100 .. 107
           /\ v = 39 =>
                /\ v \notin 40 .. 47 /\ v # 48 /\ v # 49 /\ v \notin 90 .. 97
                /\ v \notin 100 .. 107
           /\ v \in 40 .. 47 =>
                /\ v # 48 /\ v # 49 /\ v \notin 90 .. 97 /\ v \notin 100 .. 107
           /\ v = 48 =>
                /\ v # 49 /\ v \notin 90 .. 97 /\ v \notin 100 .. 107
           /\ v = 49 =>
                /\ v \notin 90 .. 97 /\ v \notin 100 .. 107
           /\ v \in 90 .. 97 =>
                /\ v \notin 100 .. 107
           /\ v \notin {0, 1, 2, 3, 4, 5, 7, 22, 23, 24, 25, 27} \union (30 .. 49)
                       \union (90 .. 97) \union (100 .. 107) =>
                v \notin {0, 38, 39, 48, 49} /\ v \notin {1, 3, 4, 5, 7} /\ v \notin {2, 22, 23, 24, 25, 27} /\ v \notin 30 .. 37 /\ v \notin 40 .. 47 /\ v \notin 90 .. 97 /\ v \notin 100 .. 107
OBVIOUS

(* What a parameter stands for.                                            *)
Stands(params, i, v) == ParamOr(params, i, 0) = v

SgrMeans(params, i, style, v) ==
  LET to(new) == [style |-> new, next |-> i + 1]
      ext(old) == Extended(params, i, old)
      e == SgrAt(params, i, style, FALSE)
  IN  /\ v = 0 => e = to(DefaultStyle)
      /\ v \in {1, 3, 4, 5, 7} => e = to([style EXCEPT !.on = style.on \union {Sets(v)}])
      /\ v \in {2, 22, 23, 24, 25, 27} => e = to([style EXCEPT !.on = style.on \ {Clears(v)}])
      /\ v \in 30 .. 37 => e = to([style EXCEPT !.fg = Basic(v - 30)])
      /\ v = 38 => e = [style |-> [style EXCEPT !.fg = ext(style.fg).color],
                        next  |-> ext(style.fg).next]
      /\ v = 39 => e = to([style EXCEPT !.fg = DefaultColor])
      /\ v \in 40 .. 47 => e = to([style EXCEPT !.bg = Basic(v - 40)])
      /\ v = 48 => e = [style |-> [style EXCEPT !.bg = ext(style.bg).color],
                        next  |-> ext(style.bg).next]
      /\ v = 49 => e = to([style EXCEPT !.bg = DefaultColor])
      /\ v \in 90 .. 97 => e = to([style EXCEPT !.fg = Basic(v - 90 + 8)])
      /\ v \in 100 .. 107 => e = to([style EXCEPT !.bg = Basic(v - 100 + 8)])
      /\ v \notin {0, 1, 2, 3, 4, 5, 7, 22, 23, 24, 25, 27} \union (30 .. 49)
                    \union (90 .. 97) \union (100 .. 107) => e = to(style)

\* What a parameter does, by its value: no two of the alternatives overlap.
LEMMA SgrAtCases ==
    ASSUME NEW params \in Seq(Int), NEW i \in Int, NEW style \in Renditions,
           NEW v \in Int, Stands(params, i, v)
    PROVE  SgrMeans(params, i, style, v)
<1>. DEFINE to(new) == [style |-> new, next |-> i + 1]
            ext(old) == Extended(params, i, old)
            e == SgrAt(params, i, style, FALSE)
            set == [style EXCEPT !.on = style.on \union {Sets(v)}]
            cleared == [style EXCEPT !.on = style.on \ {Clears(v)}]
            fg == [style |-> [style EXCEPT !.fg = ext(style.fg).color], next  |-> ext(style.fg).next]
            bg == [style |-> [style EXCEPT !.bg = ext(style.bg).color], next  |-> ext(style.bg).next]
            fg1 == [style EXCEPT !.fg = Basic(v - 30)]
            fg2 == [style EXCEPT !.fg = DefaultColor]
            fg3 == [style EXCEPT !.fg = Basic(v - 90 + 8)]
            bg1 == [style EXCEPT !.bg = Basic(v - 40)]
            bg2 == [style EXCEPT !.bg = DefaultColor]
            bg3 == [style EXCEPT !.bg = Basic(v - 100 + 8)]
            other == [style |-> [on |-> (style.on \union {"bold"}) \ {"reverse"}, fg |-> Basic(7), bg |-> Basic(4)],
                      next |-> i + 1]
<1>1. e = CASE v = 0 -> to(DefaultStyle)
            [] v = 7 /\ FALSE -> other
            [] Sets(v) # "none" /\ ~(v = 7 /\ FALSE) -> to(set)
            [] Clears(v) # "none" -> to(cleared)
            [] v \in 30 .. 37   -> to(fg1)
            [] v = 38           -> fg
            [] v = 39           -> to(fg2)
            [] v \in 40 .. 47   -> to(bg1)
            [] v = 48           -> bg
            [] v = 49           -> to(bg2)
            [] v \in 90 .. 97   -> to(fg3)
            [] v \in 100 .. 107 -> to(bg3)
            [] OTHER -> to(style)
  BY DEF SgrAt, Stands
<1>. HIDE DEF to, e, set, cleared, fg, bg, fg1, fg2, fg3, bg1, bg2, bg3, other
<1>. DEFINE g1 == v = 0
            g2 == v \in {1, 3, 4, 5, 7}
            g3 == v \in {2, 22, 23, 24, 25, 27}
            g4 == v \in 30 .. 37
            g5 == v = 38
            g6 == v = 39
            g7 == v \in 40 .. 47
            g8 == v = 48
            g9 == v = 49
            g10 == v \in 90 .. 97
            g11 == v \in 100 .. 107
<1>2. e = CASE g1 -> to(DefaultStyle)
            [] g2 -> to(set)
            [] g3 -> to(cleared)
            [] g4 -> to(fg1)
            [] g5 -> fg
            [] g6 -> to(fg2)
            [] g7 -> to(bg1)
            [] g8 -> bg
            [] g9 -> to(bg2)
            [] g10 -> to(fg3)
            [] g11 -> to(bg3)
            [] OTHER -> to(style)
  BY <1>1, SetsFacts
<1>3. /\ g1 => ~g2 /\ ~g3 /\ ~g4 /\ ~g5 /\ ~g6 /\ ~g7 /\ ~g8 /\ ~g9 /\ ~g10 /\ ~g11
      /\ g2 => ~g3 /\ ~g4 /\ ~g5 /\ ~g6 /\ ~g7 /\ ~g8 /\ ~g9 /\ ~g10 /\ ~g11
      /\ g3 => ~g4 /\ ~g5 /\ ~g6 /\ ~g7 /\ ~g8 /\ ~g9 /\ ~g10 /\ ~g11
      /\ g4 => ~g5 /\ ~g6 /\ ~g7 /\ ~g8 /\ ~g9 /\ ~g10 /\ ~g11
      /\ g5 => ~g6 /\ ~g7 /\ ~g8 /\ ~g9 /\ ~g10 /\ ~g11
      /\ g6 => ~g7 /\ ~g8 /\ ~g9 /\ ~g10 /\ ~g11
      /\ g7 => ~g8 /\ ~g9 /\ ~g10 /\ ~g11
      /\ g8 => ~g9 /\ ~g10 /\ ~g11
      /\ g9 => ~g10 /\ ~g11
      /\ g10 => ~g11
  BY SgrValues
<1>4. v \notin {0, 1, 2, 3, 4, 5, 7, 22, 23, 24, 25, 27} \union (30 .. 49)
                       \union (90 .. 97) \union (100 .. 107) => ~g1 /\ ~g2 /\ ~g3 /\ ~g4 /\ ~g5 /\ ~g6 /\ ~g7 /\ ~g8 /\ ~g9 /\ ~g10 /\ ~g11
  BY SgrValues
<1>. HIDE DEF g1, g2, g3, g4, g5, g6, g7, g8, g9, g10, g11
<1>5. g1 => e = to(DefaultStyle)
  BY <1>2, <1>3
<1>6. g2 => e = to(set)
  BY <1>2, <1>3
<1>7. g3 => e = to(cleared)
  BY <1>2, <1>3
<1>8. g4 => e = to(fg1)
  BY <1>2, <1>3
<1>9. g5 => e = fg
  BY <1>2, <1>3
<1>10. g6 => e = to(fg2)
  BY <1>2, <1>3
<1>11. g7 => e = to(bg1)
  BY <1>2, <1>3
<1>12. g8 => e = bg
  BY <1>2, <1>3
<1>13. g9 => e = to(bg2)
  BY <1>2, <1>3
<1>14. g10 => e = to(fg3)
  BY <1>2, <1>3
<1>15. g11 => e = to(bg3)
  BY <1>2, <1>3
<1>16. ~g1 /\ ~g2 /\ ~g3 /\ ~g4 /\ ~g5 /\ ~g6 /\ ~g7 /\ ~g8 /\ ~g9 /\ ~g10 /\ ~g11 => e = to(style)
  BY <1>2
<1>. USE DEF g1, g2, g3, g4, g5, g6, g7, g8, g9, g10, g11
<1>. QED  BY <1>4, <1>5, <1>6, <1>7, <1>8, <1>9, <1>10, <1>11, <1>12, <1>13, <1>14, <1>15, <1>16
        DEF SgrMeans, to, e, set, cleared, fg, bg, fg1, fg2, fg3, bg1, bg2, bg3

LEMMA SgrAtType ==
    ASSUME NEW params \in Seq(Int), NEW i \in Int, NEW style \in Renditions
    PROVE  SgrAt(params, i, style, FALSE) \in Readings
<1>. DEFINE to(new) == [style |-> new, next |-> i + 1]
            ext(old) == Extended(params, i, old)
            e == SgrAt(params, i, style, FALSE)
<1>1. PICK v \in Int : Stands(params, i, v)
  BY DEF Stands, ParamOr
<1>2. \A new \in Renditions : to(new) \in Readings
  BY DEF Readings
<1>3. style.on \in SUBSET Attributes /\ style.fg \in Colors /\ style.bg \in Colors
  BY DEF Renditions
<1>4. \A on \in SUBSET Attributes : [style EXCEPT !.on = on] \in Renditions
  BY DEF Renditions
<1>5. \A c \in Colors : [style EXCEPT !.fg = c] \in Renditions /\ [style EXCEPT !.bg = c] \in Renditions
  BY DEF Renditions
<1>6. /\ ext(style.fg).color \in Colors /\ ext(style.fg).next \in Int
      /\ ext(style.bg).color \in Colors /\ ext(style.bg).next \in Int
  BY <1>3, ExtendedFacts
<1>7. /\ v = 0 => e = to(DefaultStyle)
      /\ v \in {1, 3, 4, 5, 7} => e = to([style EXCEPT !.on = style.on \union {Sets(v)}])
      /\ v \in {2, 22, 23, 24, 25, 27} => e = to([style EXCEPT !.on = style.on \ {Clears(v)}])
      /\ v \in 30 .. 37 => e = to([style EXCEPT !.fg = Basic(v - 30)])
      /\ v = 38 => e = [style |-> [style EXCEPT !.fg = ext(style.fg).color],
                        next  |-> ext(style.fg).next]
      /\ v = 39 => e = to([style EXCEPT !.fg = DefaultColor])
      /\ v \in 40 .. 47 => e = to([style EXCEPT !.bg = Basic(v - 40)])
      /\ v = 48 => e = [style |-> [style EXCEPT !.bg = ext(style.bg).color],
                        next  |-> ext(style.bg).next]
      /\ v = 49 => e = to([style EXCEPT !.bg = DefaultColor])
      /\ v \in 90 .. 97 => e = to([style EXCEPT !.fg = Basic(v - 90 + 8)])
      /\ v \in 100 .. 107 => e = to([style EXCEPT !.bg = Basic(v - 100 + 8)])
      /\ v \notin {0, 1, 2, 3, 4, 5, 7, 22, 23, 24, 25, 27} \union (30 .. 49)
                    \union (90 .. 97) \union (100 .. 107) => e = to(style)
  <2>1. SgrMeans(params, i, style, v)
    BY <1>1, SgrAtCases
  <2>. QED  BY <2>1 DEF SgrMeans
<1>8. /\ v \in {1, 3, 4, 5, 7} => Sets(v) \in Attributes
      /\ v \in 30 .. 37 => Basic(v - 30) \in Colors
      /\ v \in 40 .. 47 => Basic(v - 40) \in Colors
      /\ v \in 90 .. 97 => Basic(v - 90 + 8) \in Colors
      /\ v \in 100 .. 107 => Basic(v - 100 + 8) \in Colors
  <2>1. /\ v \in 30 .. 37 => v - 30 \in 0 .. 15
        /\ v \in 40 .. 47 => v - 40 \in 0 .. 15
        /\ v \in 90 .. 97 => v - 90 + 8 \in 0 .. 15
        /\ v \in 100 .. 107 => v - 100 + 8 \in 0 .. 15
    OBVIOUS
  <2>. QED  BY <2>1, SetsFacts, ColorFacts
<1>. DEFINE Made == \E new \in Renditions, n \in Int : e = to(new) \/ e = [style |-> new, next |-> n]
<1>. HIDE DEF to, ext, e
<1>9. \A new \in Renditions : e = to(new) => Made
  <2>1. 0 \in Int
    OBVIOUS
  <2>. QED  BY <2>1, Zenon
<1>10. \A new \in Renditions, n \in Int : e = [style |-> new, next |-> n] => Made
  BY Zenon
<1>. HIDE DEF Made
<1>11. Made
  <2>1. CASE v = 0
    <3>1. e = to(DefaultStyle)
      BY <1>7, <2>1
    <3>. QED  BY <1>9, <3>1, ColorFacts, Zenon
  <2>2. CASE v \in {1, 3, 4, 5, 7}
    <3>1. style.on \union {Sets(v)} \in SUBSET Attributes
      BY <1>3, <1>8, <2>2
    <3>2. e = to([style EXCEPT !.on = style.on \union {Sets(v)}])
      BY <1>7, <2>2
    <3>. QED  BY <1>4, <1>9, <3>1, <3>2, Zenon
  <2>3. CASE v \in {2, 22, 23, 24, 25, 27}
    <3>1. style.on \ {Clears(v)} \in SUBSET Attributes
      BY <1>3
    <3>2. e = to([style EXCEPT !.on = style.on \ {Clears(v)}])
      BY <1>7, <2>3
    <3>. QED  BY <1>4, <1>9, <3>1, <3>2, Zenon
  <2>4. CASE v \in 30 .. 37
    <3>1. [style EXCEPT !.fg = Basic(v - 30)] \in Renditions
      BY <1>5, <1>8, <2>4
    <3>2. e = to([style EXCEPT !.fg = Basic(v - 30)])
      BY <1>7, <2>4
    <3>. QED  BY <1>9, <3>1, <3>2, Zenon
  <2>5. CASE v = 38
    <3>1. [style EXCEPT !.fg = ext(style.fg).color] \in Renditions
      BY <1>5, <1>6
    <3>2. e = [style |-> [style EXCEPT !.fg = ext(style.fg).color], next |-> ext(style.fg).next]
      BY <1>7, <2>5
    <3>. QED  BY <1>6, <1>10, <3>1, <3>2, Zenon
  <2>6. CASE v = 39
    <3>1. [style EXCEPT !.fg = DefaultColor] \in Renditions /\ e = to([style EXCEPT !.fg = DefaultColor])
      BY <1>5, <1>7, <2>6, ColorFacts
    <3>. QED  BY <1>9, <3>1, Zenon
  <2>7. CASE v \in 40 .. 47
    <3>1. [style EXCEPT !.bg = Basic(v - 40)] \in Renditions
      BY <1>5, <1>8, <2>7
    <3>2. e = to([style EXCEPT !.bg = Basic(v - 40)])
      BY <1>7, <2>7
    <3>. QED  BY <1>9, <3>1, <3>2, Zenon
  <2>8. CASE v = 48
    <3>1. [style EXCEPT !.bg = ext(style.bg).color] \in Renditions
      BY <1>5, <1>6
    <3>2. e = [style |-> [style EXCEPT !.bg = ext(style.bg).color], next |-> ext(style.bg).next]
      BY <1>7, <2>8
    <3>. QED  BY <1>6, <1>10, <3>1, <3>2, Zenon
  <2>9. CASE v = 49
    <3>1. [style EXCEPT !.bg = DefaultColor] \in Renditions /\ e = to([style EXCEPT !.bg = DefaultColor])
      BY <1>5, <1>7, <2>9, ColorFacts
    <3>. QED  BY <1>9, <3>1, Zenon
  <2>10. CASE v \in 90 .. 97
    <3>1. [style EXCEPT !.fg = Basic(v - 90 + 8)] \in Renditions
      BY <1>5, <1>8, <2>10
    <3>2. e = to([style EXCEPT !.fg = Basic(v - 90 + 8)])
      BY <1>7, <2>10
    <3>. QED  BY <1>9, <3>1, <3>2, Zenon
  <2>11. CASE v \in 100 .. 107
    <3>1. [style EXCEPT !.bg = Basic(v - 100 + 8)] \in Renditions
      BY <1>5, <1>8, <2>11
    <3>2. e = to([style EXCEPT !.bg = Basic(v - 100 + 8)])
      BY <1>7, <2>11
    <3>. QED  BY <1>9, <3>1, <3>2, Zenon
  <2>12. CASE v \notin {0, 1, 2, 3, 4, 5, 7, 22, 23, 24, 25, 27} \union (30 .. 49)
                    \union (90 .. 97) \union (100 .. 107)
    <3>1. e = to(style)
      BY <1>7, <2>12
    <3>. QED  BY <1>9, <3>1, Zenon
  <2>. QED  BY <2>1, <2>2, <2>3, <2>4, <2>5, <2>6, <2>7, <2>8, <2>9, <2>10, <2>11, <2>12
<1>12. e \in Readings
  BY <1>2, <1>11 DEF Made, Readings
<1>. QED  BY <1>12 DEF e

(* The reading of a sequence, parameter by parameter.                      *)
SgrReads(h, params, style) ==
  /\ h[0] = [style |-> style, next |-> 1]
  /\ \A k \in 1 .. Len(params) : h[k] = SgrStep(params, h[k - 1], k)

LEMMA SgrFold ==
    ASSUME NEW params \in Seq(Int), NEW style \in Renditions,
           \E i \in DOMAIN params : params[i] # None
    PROVE  \E h : /\ SgrReads(h, params, style)
                  /\ AppliedSgr(params, style, FALSE) = h[Len(params)].style
<1>. DEFINE n == Len(params)
            base == [style |-> style, next |-> 1]
            places == [i \in DOMAIN params |-> i]
            Iter(f) == f = [s \in SUBSET (1 .. n) |->
                              IF s = {} THEN base
                              ELSE SgrStep(params, f[s \ {Max(s)}], places[Max(s)])]
<1>1. n \in Nat /\ DOMAIN params = 1 .. n /\ DOMAIN places = 1 .. n
  OBVIOUS
<1>. HIDE DEF n
<1>2. \E f : Iter(f)
  <2>. DEFINE step == [z \in Readings \X (1 .. n) |-> SgrStep(params, z[1], z[2])]
  <2>1. base \in Readings
    BY DEF Readings
  <2>2. step \in [Readings \X (1 .. n) -> Readings]
    <3>1. ASSUME NEW r \in Readings, NEW k \in 1 .. n PROVE SgrStep(params, r, k) \in Readings
      <4>1. SgrAt(params, k, r.style, FALSE) \in Readings
        <5>1. r.style \in Renditions /\ k \in Int
          BY DEF Readings
        <5>. HIDE DEF step
        <5>. QED  BY <5>1, SgrAtType
      <4>. QED  BY <4>1 DEF SgrStep
    <3>. QED  BY <3>1
  <2>. HIDE DEF base
  <2>3. PICK f \in [SUBSET (1 .. n) -> Readings] :
          Folds(f, n, base, step)
    <3>. HIDE DEF step
    <3>. QED  BY <1>1, <2>1, <2>2, FoldExists
  <2>4. ASSUME NEW s \in SUBSET (1 .. n)
        PROVE  f[s] = IF s = {} THEN base
                      ELSE SgrStep(params, f[s \ {Max(s)}], places[Max(s)])
    <3>1. CASE s # {}
      <4>1. Max(s) \in 1 .. n
        BY <1>1, <3>1, MaxFacts
      <4>2. f[s \ {Max(s)}] \in Readings /\ places[Max(s)] = Max(s)
        BY <1>1, <2>3, <4>1
      <4>3. f[s] = step[<< f[s \ {Max(s)}], Max(s) >>]
        BY <2>3, <3>1 DEF Folds
      <4>. QED  BY <3>1, <4>1, <4>2, <4>3
    <3>2. CASE s = {}
      BY <2>3, <3>2 DEF Folds
    <3>. QED  BY <3>1, <3>2
  <2>. HIDE DEF step, places
  <2>5. f = [s \in SUBSET (1 .. n) |-> f[s]]
    BY <2>3
  <2>6. Iter(f)
    BY <2>4, <2>5
  <2>. QED  BY <2>6
<1>. DEFINE g == CHOOSE f : Iter(f)
<1>3. Iter(g)
  BY <1>2
<1>4. AppliedSgr(params, style, FALSE) = g[1 .. n].style
  BY <1>1 DEF AppliedSgr, FoldLeft, MapThenFoldSet, SgrStep
<1>. HIDE DEF g
<1>. DEFINE h == [k \in 0 .. n |-> g[1 .. k]]
<1>5. h[0] = base
  <2>1. 1 .. 0 = {} /\ {} \in SUBSET (1 .. n)
    OBVIOUS
  <2>. QED  BY <1>1, <1>3, <2>1
<1>6. ASSUME NEW k \in 1 .. n PROVE h[k] = SgrStep(params, h[k - 1], k)
  <2>1. /\ 1 .. k \in SUBSET (1 .. n) /\ 1 .. k # {} /\ Max(1 .. k) = k
        /\ (1 .. k) \ {k} = 1 .. k - 1
    BY <1>1, MaxOfFirst
  <2>2. k \in 0 .. n /\ k - 1 \in 0 .. n /\ places[k] = k
    BY <1>1
  <2>. HIDE DEF base, places
  <2>3. g[1 .. k] = SgrStep(params, g[1 .. k - 1], k)
    BY <1>3, <2>1, <2>2
  <2>. QED  BY <2>2, <2>3
<1>7. SgrReads(h, params, style)
  <2>. HIDE DEF h
  <2>. QED  BY <1>5, <1>6 DEF SgrReads, n
<1>8. h[n] = g[1 .. n]
  BY <1>1
<1>. HIDE DEF h
<1>. QED  BY <1>4, <1>7, <1>8 DEF n

(* The first i parameters have been read, and this is the style so far.    *)
At(h, i, style) == h[i] = [style |-> style, next |-> i + 1]

(* A sequence begins with another.                                         *)
Begins(p, q) == Len(q) <= Len(p) /\ \A k \in 1 .. Len(q) : p[k] = q[k]

LEMMA BeginsParts ==
    ASSUME NEW p \in Seq(Int), NEW q \in Seq(Int), NEW u \in Seq(Int), Begins(p, q \o u)
    PROVE  /\ Begins(p, q) /\ Len(q) + Len(u) <= Len(p)
           /\ \A k \in 1 .. Len(u) : p[Len(q) + k] = u[k]
<1>1. /\ Len(q \o u) = Len(q) + Len(u) /\ Len(q) \in Nat /\ Len(u) \in Nat /\ Len(p) \in Nat
      /\ \A k \in 1 .. Len(q) : (q \o u)[k] = q[k]
      /\ \A k \in 1 .. Len(u) : (q \o u)[Len(q) + k] = u[k]
  <2>1. Len(q \o u) = Len(q) + Len(u) /\ Len(q) \in Nat /\ Len(u) \in Nat /\ Len(p) \in Nat
    OBVIOUS
  <2>2. \A k \in 1 .. Len(q) : (q \o u)[k] = q[k]
    BY <2>1
  <2>3. \A k \in 1 .. Len(u) : (q \o u)[Len(q) + k] = u[k]
    BY <2>1
  <2>. QED  BY <2>1, <2>2, <2>3
<1>. DEFINE w == q \o u
<1>. HIDE DEF w
<1>2. /\ Len(w) = Len(q) + Len(u) /\ \A k \in 1 .. Len(q) : w[k] = q[k]
      /\ \A k \in 1 .. Len(u) : w[Len(q) + k] = u[k]
      /\ Len(w) <= Len(p) /\ \A k \in 1 .. Len(w) : p[k] = w[k]
  BY <1>1 DEF w, Begins
<1>3. Begins(p, q)
  BY <1>1, <1>2 DEF Begins
<1>4. ASSUME NEW k \in 1 .. Len(u) PROVE p[Len(q) + k] = u[k]
  <2>1. Len(q) + k \in 1 .. Len(w)
    BY <1>1, <1>2
  <2>. QED  BY <1>2, <2>1
<1>. QED  BY <1>1, <1>2, <1>3, <1>4

\* The next parameter is looked at.
LEMMA SgrNext ==
    ASSUME NEW params \in Seq(Int), NEW start, NEW h, SgrReads(h, params, start),
           NEW i \in Nat, i + 1 <= Len(params),
           NEW style \in Renditions, At(h, i, style), params[i + 1] >= 0
    PROVE  /\ h[i + 1] = SgrAt(params, i + 1, style, FALSE)
           /\ SgrMeans(params, i + 1, style, params[i + 1])
<1>1. i + 1 \in 1 .. Len(params) /\ (i + 1) - 1 = i /\ i + 1 \in Int /\ params[i + 1] \in Int
  OBVIOUS
<1>2. h[i + 1] = SgrStep(params, h[i], i + 1)
  BY <1>1 DEF SgrReads
<1>3. h[i].next = i + 1 /\ h[i].style = style
  BY DEF At
<1>4. h[i + 1] = SgrAt(params, i + 1, style, FALSE)
  <2>1. ~(i + 1 < h[i].next)
    BY <1>3
  <2>. QED  BY <1>2, <1>3, <2>1 DEF SgrStep
<1>5. Stands(params, i + 1, params[i + 1])
  BY <1>1 DEF Stands, ParamOr, None
<1>6. SgrMeans(params, i + 1, style, params[i + 1])
  <2>. DEFINE v == params[i + 1]
              j == i + 1
  <2>1. v \in Int /\ j \in Int /\ Stands(params, j, v)
    BY <1>1, <1>5
  <2>. HIDE DEF v, j
  <2>2. SgrMeans(params, j, style, v)
    BY <2>1, SgrAtCases
  <2>. QED  BY <2>2 DEF v, j
<1>. QED  BY <1>4, <1>6

\* A parameter that has been taken already is passed over.
LEMMA SgrSkips ==
    ASSUME NEW params \in Seq(Int), NEW start, NEW h, SgrReads(h, params, start),
           NEW k \in 1 .. Len(params), k < h[k - 1].next
    PROVE  h[k] = h[k - 1]
BY DEF SgrReads, SgrStep

(* The parameter of an attribute, where a style has it.                    *)
AttributeParam(on, name, v) == IF name \in on THEN << v >> ELSE << >>

\* The parameter of an attribute sets it.
LEMMA AttributeReads ==
    ASSUME NEW params \in Seq(Int), NEW start, NEW h, SgrReads(h, params, start),
           NEW q \in Seq(Int), NEW style \in Renditions, At(h, Len(q), style),
           NEW name, NEW v \in {1, 3, 4, 5, 7}, Sets(v) = name, NEW on,
           Begins(params, q \o AttributeParam(on, name, v))
    PROVE  At(h, Len(q \o AttributeParam(on, name, v)),
              [style EXCEPT !.on = style.on \union ({name} \cap on)])
<1>. DEFINE u == AttributeParam(on, name, v)
            i == Len(q)
<1>1. u \in Seq(Int) /\ i \in Nat /\ Len(u) \in Nat /\ Len(q \o u) = i + Len(u)
  BY DEF AttributeParam
<1>. HIDE DEF u
<1>2. i + Len(u) <= Len(params) /\ \A k \in 1 .. Len(u) : params[i + k] = u[k]
  BY <1>1, BeginsParts DEF u
<1>3. At(h, i, style)
  OBVIOUS
<1>. HIDE DEF i
<1>4. CASE name \in on
  <2>1. Len(u) = 1 /\ u[1] = v
    BY <1>4 DEF u, AttributeParam
  <2>2. i + 1 <= Len(params) /\ params[i + 1] = v /\ params[i + 1] >= 0
    BY <1>2, <2>1
  <2>3. /\ h[i + 1] = SgrAt(params, i + 1, style, FALSE)
        /\ SgrMeans(params, i + 1, style, params[i + 1])
    BY <1>1, <1>3, <2>2, SgrNext
  <2>4. {name} \cap on = {name}
    BY <1>4
  <2>5. h[i + 1] = [style |-> [style EXCEPT !.on = style.on \union {Sets(v)}],
                    next |-> (i + 1) + 1]
    BY <2>2, <2>3 DEF SgrMeans
  <2>. QED  BY <1>1, <2>1, <2>4, <2>5 DEF At, u
<1>5. CASE name \notin on
  <2>1. Len(u) = 0 /\ {name} \cap on = {}
    BY <1>5 DEF u, AttributeParam
  <2>2. [style EXCEPT !.on = style.on \union {}] = style
    BY DEF Renditions
  <2>3. Len(q \o u) = i
    BY <1>1, <2>1
  <2>. QED  BY <1>3, <2>1, <2>2, <2>3 DEF u
<1>. QED  BY <1>4, <1>5

\* An index and a true colour are taken with the parameters after them.
LEMMA ExtendedIndex ==
    ASSUME NEW params \in Seq(Int), NEW i \in Nat, i + 3 <= Len(params), NEW old,
           params[i + 2] = 5, params[i + 3] >= 0
    PROVE  Extended(params, i + 1, old) = [color |-> Indexed(params[i + 3]), next |-> i + 4]
<1>1. /\ i + 2 \in DOMAIN params /\ i + 3 \in DOMAIN params /\ Len(params) \in Nat
      /\ (i + 1) + 1 = i + 2 /\ (i + 1) + 2 = i + 3 /\ (i + 1) + 3 = i + 4
  OBVIOUS
<1>2. ParamOr(params, i + 2, 0) = 5 /\ ParamOr(params, i + 3, 0) = params[i + 3]
  BY <1>1 DEF ParamOr, None
<1>. QED  BY <1>1, <1>2, SMTT(30) DEF Extended

LEMMA ExtendedRgb ==
    ASSUME NEW params \in Seq(Int), NEW i \in Nat, i + 5 <= Len(params), NEW old,
           params[i + 2] = 2, params[i + 3] >= 0, params[i + 4] >= 0, params[i + 5] >= 0
    PROVE  Extended(params, i + 1, old)
             = [color |-> Rgb(params[i + 3], params[i + 4], params[i + 5]), next |-> i + 6]
<1>1. /\ i + 2 \in DOMAIN params /\ i + 3 \in DOMAIN params /\ i + 4 \in DOMAIN params
      /\ i + 5 \in DOMAIN params /\ Len(params) \in Nat
      /\ (i + 1) + 1 = i + 2 /\ (i + 1) + 2 = i + 3 /\ (i + 1) + 3 = i + 4
      /\ (i + 1) + 4 = i + 5 /\ (i + 1) + 5 = i + 6
  OBVIOUS
<1>2. /\ ParamOr(params, i + 2, 0) = 2 /\ ParamOr(params, i + 3, 0) = params[i + 3]
      /\ ParamOr(params, i + 4, 0) = params[i + 4] /\ ParamOr(params, i + 5, 0) = params[i + 5]
  BY <1>1 DEF ParamOr, None
<1>. QED  BY <1>1, <1>2 DEF Extended

(* The colour in front or behind.                                          *)
Colored(style, v, color) ==
  IF v = 38 THEN [style EXCEPT !.fg = color] ELSE [style EXCEPT !.bg = color]

\* The parameters of an extended colour are read together.
LEMMA ExtendedReads ==
    ASSUME NEW params \in Seq(Int), NEW start, NEW h, SgrReads(h, params, start),
           NEW i \in Nat, NEW style \in Renditions, At(h, i, style),
           NEW v \in {38, 48}, NEW n \in {3, 5}, i + n <= Len(params), params[i + 1] = v,
           NEW color, \A old : Extended(params, i + 1, old) = [color |-> color, next |-> i + n + 1]
    PROVE  At(h, i + n, Colored(style, v, color))
<1>. DEFINE r == [style |-> Colored(style, v, color), next |-> i + n + 1]
<1>1. i + 1 <= Len(params) /\ params[i + 1] >= 0 /\ Len(params) \in Nat
  OBVIOUS
<1>2. h[i + 1] = SgrAt(params, i + 1, style, FALSE) /\ SgrMeans(params, i + 1, style, params[i + 1])
  BY <1>1, SgrNext
<1>3. h[i + 1] = r
  <2>1. CASE v = 38
    <3>1. SgrMeans(params, i + 1, style, 38)
      BY <1>2, <2>1
    <3>2. SgrAt(params, i + 1, style, FALSE)
            = [style |-> [style EXCEPT !.fg = Extended(params, i + 1, style.fg).color],
               next |-> Extended(params, i + 1, style.fg).next]
      BY <3>1 DEF SgrMeans
    <3>3. /\ Extended(params, i + 1, style.fg).color = color
          /\ Extended(params, i + 1, style.fg).next = i + n + 1
      <4>1. Extended(params, i + 1, style.fg) = [color |-> color, next |-> i + n + 1]
        OBVIOUS
      <4>. QED  BY <4>1
    <3>4. Colored(style, v, color) = [style EXCEPT !.fg = color]
      BY <2>1 DEF Colored
    <3>. QED  BY <1>2, <3>2, <3>3, <3>4
  <2>2. CASE v = 48
    <3>1. SgrMeans(params, i + 1, style, 48)
      BY <1>2, <2>2
    <3>2. SgrAt(params, i + 1, style, FALSE)
            = [style |-> [style EXCEPT !.bg = Extended(params, i + 1, style.bg).color],
               next |-> Extended(params, i + 1, style.bg).next]
      BY <3>1 DEF SgrMeans
    <3>3. /\ Extended(params, i + 1, style.bg).color = color
          /\ Extended(params, i + 1, style.bg).next = i + n + 1
      <4>1. Extended(params, i + 1, style.bg) = [color |-> color, next |-> i + n + 1]
        OBVIOUS
      <4>. QED  BY <4>1
    <3>4. Colored(style, v, color) = [style EXCEPT !.bg = color]
      BY <2>2 DEF Colored
    <3>. QED  BY <1>2, <3>2, <3>3, <3>4
  <2>. QED  BY <2>1, <2>2
<1>4. r.next = i + n + 1
  OBVIOUS
<1>. HIDE DEF r
<1>5. ASSUME NEW j \in i + 2 .. i + n, h[j - 1] = r PROVE h[j] = r
  <2>1. j \in 1 .. Len(params) /\ j < i + n + 1
    BY <1>1
  <2>. QED  BY <1>4, <1>5, <2>1, SgrSkips, ZenonT(30)
<1>6. h[i + 2] = r
  <2>1. i + 2 \in i + 2 .. i + n /\ (i + 2) - 1 = i + 1
    OBVIOUS
  <2>. QED  BY <1>3, <1>5, <2>1
<1>7. h[i + 3] = r
  <2>1. i + 3 \in i + 2 .. i + n /\ (i + 3) - 1 = i + 2
    OBVIOUS
  <2>. QED  BY <1>5, <1>6, <2>1
<1>8. n = 5 => h[i + 5] = r
  <2>1. ASSUME n = 5 PROVE h[i + 5] = r
    <3>1. i + 4 \in i + 2 .. i + n /\ (i + 4) - 1 = i + 3
      BY <2>1
    <3>2. i + 5 \in i + 2 .. i + n /\ (i + 5) - 1 = i + 4
      BY <2>1
    <3>3. h[i + 4] = r
      BY <1>5, <1>7, <3>1
    <3>. QED  BY <1>5, <3>2, <3>3
  <2>. QED  BY <2>1
<1>9. h[i + n] = r
  BY <1>7, <1>8
<1>. QED  BY <1>9 DEF At, r

\* The colours and their parameters.
LEMMA ColorCases ==
    ASSUME NEW color \in Colors, ~IsBright(color), NEW base \in Int
    PROVE  \/ color = DefaultColor /\ ColorParams(color, base) = << >>
           \/ \E c \in 0 .. 7 : color = Basic(c) /\ ColorParams(color, base) = << base + c >>
           \/ \E c \in 0 .. 255 : color = Indexed(c) /\ ColorParams(color, base) = << base + 8, 5, c >>
           \/ \E r, g, b \in 0 .. 255 :
                color = Rgb(r, g, b) /\ ColorParams(color, base) = << base + 8, 2, r, g, b >>
<1>. DEFINE p == ColorParams(color, base)
<1>1. p = IF color = DefaultColor THEN << >>
          ELSE CASE color[1] = "basic"   -> << base + color[2] >>
                 [] color[1] = "indexed" -> << base + 8, 5, color[2] >>
                 [] color[1] = "rgb"     -> << base + 8, 2, color[2], color[3], color[4] >>
  BY DEF ColorParams
<1>. HIDE DEF p
<1>2. \A c \in 0 .. 255 : c % 256 = c
  OBVIOUS
<1>3. CASE color = DefaultColor
  BY <1>1, <1>3 DEF p
<1>4. CASE color \in {"basic"} \X (0 .. 15)
  <2>1. PICK c \in 0 .. 15 : color = << "basic", c >>
    BY <1>4
  <2>2. color # DefaultColor /\ color[1] = "basic" /\ color[2] = c
    BY <2>1 DEF DefaultColor
  <2>3. c \in 0 .. 7
    BY <2>2 DEF IsBright
  <2>4. p = << base + c >>
    BY <1>1, <2>2
  <2>. QED  BY <2>1, <2>3, <2>4 DEF p, Basic
<1>5. CASE color \in {"indexed"} \X (0 .. 255)
  <2>1. PICK c \in 0 .. 255 : color = << "indexed", c >>
    BY <1>5
  <2>2. color # DefaultColor /\ color[1] = "indexed" /\ color[2] = c
    BY <2>1 DEF DefaultColor
  <2>3. color = Indexed(c)
    BY <1>2, <2>1 DEF Indexed
  <2>4. p = << base + 8, 5, c >>
    BY <1>1, <2>2
  <2>. QED  BY <2>3, <2>4 DEF p
<1>6. CASE color \in {"rgb"} \X (0 .. 255) \X (0 .. 255) \X (0 .. 255)
  <2>1. /\ color = << color[1], color[2], color[3], color[4] >> /\ color[1] = "rgb"
        /\ color[2] \in 0 .. 255 /\ color[3] \in 0 .. 255 /\ color[4] \in 0 .. 255
    BY <1>6
  <2>2. color # DefaultColor
    BY <2>1 DEF DefaultColor
  <2>3. color = Rgb(color[2], color[3], color[4])
    BY <1>2, <2>1 DEF Rgb
  <2>4. p = << base + 8, 2, color[2], color[3], color[4] >>
    BY <1>1, <2>1, <2>2
  <2>. QED  BY <2>1, <2>3, <2>4 DEF p
<1>. QED  BY <1>3, <1>4, <1>5, <1>6 DEF Colors

LEMMA ColorParamsType ==
    ASSUME NEW color \in Colors, NEW base \in Nat
    PROVE  ColorParams(color, base) \in Seq(Nat)
<1>1. CASE color = DefaultColor
  BY <1>1 DEF ColorParams
<1>2. CASE color \in {"basic"} \X (0 .. 15)
  <2>1. /\ color = << color[1], color[2] >> /\ color[1] = "basic"
        /\ color[2] \in Nat
    BY <1>2
  <2>2. color # DefaultColor
    <3>1. << color[1], color[2] >> # DefaultColor
      BY DEF DefaultColor
    <3>. QED  BY <2>1, <3>1, Zenon
  <2>3. ColorParams(color, base) = << base + color[2] >>
    BY <2>1, <2>2 DEF ColorParams
  <2>4. base + color[2] \in Nat
    BY <2>1
  <2>. QED  BY <2>3, <2>4
<1>3. CASE color \in {"indexed"} \X (0 .. 255)
  <2>1. /\ color = << color[1], color[2] >> /\ color[1] = "indexed"
        /\ color[2] \in Nat
    BY <1>3
  <2>2. color # DefaultColor
    <3>1. << color[1], color[2] >> # DefaultColor
      BY DEF DefaultColor
    <3>. QED  BY <2>1, <3>1, Zenon
  <2>3. ColorParams(color, base) = << base + 8, 5, color[2] >>
    BY <2>1, <2>2 DEF ColorParams
  <2>4. base + 8 \in Nat /\ color[2] \in Nat
    BY <2>1
  <2>. QED  BY <2>3, <2>4
<1>4. CASE color \in {"rgb"} \X (0 .. 255) \X (0 .. 255) \X (0 .. 255)
  <2>1. /\ color = << color[1], color[2], color[3], color[4] >> /\ color[1] = "rgb"
        /\ color[2] \in Nat /\ color[3] \in Nat /\ color[4] \in Nat
    BY <1>4
  <2>2. color # DefaultColor
    <3>1. << color[1], color[2], color[3], color[4] >> # DefaultColor
      BY DEF DefaultColor
    <3>. QED  BY <2>1, <3>1, Zenon
  <2>3. ColorParams(color, base) = << base + 8, 2, color[2], color[3], color[4] >>
    BY <2>1, <2>2 DEF ColorParams
  <2>4. base + 8 \in Nat /\ color[2] \in Nat /\ color[3] \in Nat /\ color[4] \in Nat
    BY <2>1
  <2>. QED  BY <2>3, <2>4
<1>. QED  BY <1>1, <1>2, <1>3, <1>4 DEF Colors

\* The parameters of a colour set it.
LEMMA ForegroundReads ==
    ASSUME NEW params \in Seq(Int), NEW start, NEW h, SgrReads(h, params, start),
           NEW q \in Seq(Int), NEW style \in Renditions, At(h, Len(q), style),
           style.fg = DefaultColor, NEW color \in Colors, ~IsBright(color),
           Begins(params, q \o ColorParams(color, 30))
    PROVE  At(h, Len(q \o ColorParams(color, 30)), [style EXCEPT !.fg = color])
<1>. DEFINE u == ColorParams(color, 30)
            i == Len(q)
            set == [style EXCEPT !.fg = color]
<1>1. \/ color = DefaultColor /\ u = << >>
      \/ \E c \in 0 .. 7 : color = Basic(c) /\ u = << 30 + c >>
      \/ \E c \in 0 .. 255 : color = Indexed(c) /\ u = << 30 + 8, 5, c >>
      \/ \E r, g, b \in 0 .. 255 : color = Rgb(r, g, b) /\ u = << 30 + 8, 2, r, g, b >>
  <2>. HIDE DEF u
  <2>1. 30 \in Int
    OBVIOUS
  <2>. QED  BY <2>1, ColorCases DEF u
<1>2. Colored(style, 38, color) = set
  BY DEF Colored
<1>. HIDE DEF u, set
<1>3. u \in Seq(Int)
  <2>1. u \in Seq(Nat)
    BY ColorParamsType DEF u
  <2>. QED  BY <2>1
<1>4. i \in Nat /\ Len(u) \in Nat /\ Len(q \o u) = i + Len(u) /\ Len(params) \in Nat
  BY <1>3
<1>5. i + Len(u) <= Len(params) /\ \A k \in 1 .. Len(u) : params[i + k] = u[k]
  BY <1>3, BeginsParts DEF u
<1>6. At(h, i, style)
  OBVIOUS
<1>. HIDE DEF i
<1>7. SUFFICES At(h, i + Len(u), set)
  BY <1>4 DEF u, set
<1>8. CASE color = DefaultColor /\ u = << >>
  <2>1. set = style
    BY <1>8 DEF Renditions, set
  <2>2. i + Len(u) = i
    BY <1>4, <1>8
  <2>. QED  BY <1>6, <2>1, <2>2
<1>9. ASSUME NEW c \in 0 .. 7, color = Basic(c), u = << 30 + c >>
      PROVE  At(h, i + Len(u), set)
  <2>. DEFINE v == 30 + c
  <2>1. Len(u) = 1 /\ u[1] = v
    BY <1>9
  <2>2. v \in 30 .. 37 /\ v - 30 = c
    OBVIOUS
  <2>. HIDE DEF v
  <2>3. i + 1 <= Len(params) /\ params[i + 1] = v /\ v >= 0
    BY <1>5, <2>1, <2>2
  <2>4. h[i + 1] = SgrAt(params, i + 1, style, FALSE) /\ SgrMeans(params, i + 1, style, v)
    BY <1>4, <1>6, <2>3, SgrNext
  <2>5. h[i + 1] = [style |-> [style EXCEPT !.fg = Basic(v - 30)], next |-> (i + 1) + 1]
    BY <2>2, <2>4 DEF SgrMeans
  <2>. QED  BY <1>9, <2>1, <2>2, <2>5 DEF At, set
<1>10. ASSUME NEW c \in 0 .. 255, color = Indexed(c), u = << 30 + 8, 5, c >>
       PROVE  At(h, i + Len(u), set)
  <2>1. Len(u) = 3 /\ u[1] = 38 /\ u[2] = 5 /\ u[3] = c
    BY <1>10
  <2>2. i + 3 <= Len(params) /\ params[i + 1] = 38 /\ params[i + 2] = 5 /\ params[i + 3] = c
    BY <1>5, <2>1
  <2>3. params[i + 3] >= 0
    BY <2>2
  <2>4. \A old : Extended(params, i + 1, old) = [color |-> color, next |-> i + 3 + 1]
    <3>1. \A old : Extended(params, i + 1, old) = [color |-> Indexed(params[i + 3]), next |-> i + 4]
      BY <1>4, <2>2, <2>3, ExtendedIndex, Zenon
    <3>2. Indexed(params[i + 3]) = color
      BY <1>10, <2>2, Zenon
    <3>3. i + 4 = i + 3 + 1
      BY <1>4
    <3>. QED  BY <3>1, <3>2, <3>3, Zenon
  <2>5. At(h, i + 3, Colored(style, 38, color))
    BY <1>4, <1>6, <2>2, <2>4, ExtendedReads, ZenonT(30)
  <2>. QED  BY <1>2, <2>1, <2>5
<1>11. ASSUME NEW r \in 0 .. 255, NEW g \in 0 .. 255, NEW b \in 0 .. 255,
              color = Rgb(r, g, b), u = << 30 + 8, 2, r, g, b >>
       PROVE  At(h, i + Len(u), set)
  <2>1. Len(u) = 5 /\ u[1] = 38 /\ u[2] = 2 /\ u[3] = r /\ u[4] = g /\ u[5] = b
    BY <1>11
  <2>2. /\ i + 5 <= Len(params) /\ params[i + 1] = 38 /\ params[i + 2] = 2 /\ params[i + 3] = r
        /\ params[i + 4] = g /\ params[i + 5] = b
    BY <1>5, <2>1
  <2>3. params[i + 3] >= 0 /\ params[i + 4] >= 0 /\ params[i + 5] >= 0
    <3>1. r >= 0 /\ g >= 0 /\ b >= 0
      OBVIOUS
    <3>. QED  BY <2>2, <3>1, Zenon
  <2>4. \A old : Extended(params, i + 1, old) = [color |-> color, next |-> i + 5 + 1]
    <3>1. \A old : Extended(params, i + 1, old)
                     = [color |-> Rgb(params[i + 3], params[i + 4], params[i + 5]), next |-> i + 6]
      BY <1>4, <2>2, <2>3, ExtendedRgb, Zenon
    <3>2. Rgb(params[i + 3], params[i + 4], params[i + 5]) = color
      BY <1>11, <2>2, Zenon
    <3>3. i + 6 = i + 5 + 1
      BY <1>4
    <3>. QED  BY <3>1, <3>2, <3>3, Zenon
  <2>5. At(h, i + 5, Colored(style, 38, color))
    BY <1>4, <1>6, <2>2, <2>4, ExtendedReads, ZenonT(30)
  <2>. QED  BY <1>2, <2>1, <2>5
<1>. QED  BY <1>1, <1>8, <1>9, <1>10, <1>11

\* The parameters of a colour set it.
LEMMA BackgroundReads ==
    ASSUME NEW params \in Seq(Int), NEW start, NEW h, SgrReads(h, params, start),
           NEW q \in Seq(Int), NEW style \in Renditions, At(h, Len(q), style),
           style.bg = DefaultColor, NEW color \in Colors, ~IsBright(color),
           Begins(params, q \o ColorParams(color, 40))
    PROVE  At(h, Len(q \o ColorParams(color, 40)), [style EXCEPT !.bg = color])
<1>. DEFINE u == ColorParams(color, 40)
            i == Len(q)
            set == [style EXCEPT !.bg = color]
<1>1. \/ color = DefaultColor /\ u = << >>
      \/ \E c \in 0 .. 7 : color = Basic(c) /\ u = << 40 + c >>
      \/ \E c \in 0 .. 255 : color = Indexed(c) /\ u = << 40 + 8, 5, c >>
      \/ \E r, g, b \in 0 .. 255 : color = Rgb(r, g, b) /\ u = << 40 + 8, 2, r, g, b >>
  <2>. HIDE DEF u
  <2>1. 40 \in Int
    OBVIOUS
  <2>. QED  BY <2>1, ColorCases DEF u
<1>2. Colored(style, 48, color) = set
  BY DEF Colored
<1>. HIDE DEF u, set
<1>3. u \in Seq(Int)
  <2>1. u \in Seq(Nat)
    BY ColorParamsType DEF u
  <2>. QED  BY <2>1
<1>4. i \in Nat /\ Len(u) \in Nat /\ Len(q \o u) = i + Len(u) /\ Len(params) \in Nat
  BY <1>3
<1>5. i + Len(u) <= Len(params) /\ \A k \in 1 .. Len(u) : params[i + k] = u[k]
  BY <1>3, BeginsParts DEF u
<1>6. At(h, i, style)
  OBVIOUS
<1>. HIDE DEF i
<1>7. SUFFICES At(h, i + Len(u), set)
  BY <1>4 DEF u, set
<1>8. CASE color = DefaultColor /\ u = << >>
  <2>1. set = style
    BY <1>8 DEF Renditions, set
  <2>2. i + Len(u) = i
    BY <1>4, <1>8
  <2>. QED  BY <1>6, <2>1, <2>2
<1>9. ASSUME NEW c \in 0 .. 7, color = Basic(c), u = << 40 + c >>
      PROVE  At(h, i + Len(u), set)
  <2>. DEFINE v == 40 + c
  <2>1. Len(u) = 1 /\ u[1] = v
    BY <1>9
  <2>2. v \in 40 .. 47 /\ v - 40 = c
    OBVIOUS
  <2>. HIDE DEF v
  <2>3. i + 1 <= Len(params) /\ params[i + 1] = v /\ v >= 0
    BY <1>5, <2>1, <2>2
  <2>4. h[i + 1] = SgrAt(params, i + 1, style, FALSE) /\ SgrMeans(params, i + 1, style, v)
    BY <1>4, <1>6, <2>3, SgrNext
  <2>5. h[i + 1] = [style |-> [style EXCEPT !.bg = Basic(v - 40)], next |-> (i + 1) + 1]
    BY <2>2, <2>4 DEF SgrMeans
  <2>. QED  BY <1>9, <2>1, <2>2, <2>5 DEF At, set
<1>10. ASSUME NEW c \in 0 .. 255, color = Indexed(c), u = << 40 + 8, 5, c >>
       PROVE  At(h, i + Len(u), set)
  <2>1. Len(u) = 3 /\ u[1] = 48 /\ u[2] = 5 /\ u[3] = c
    BY <1>10
  <2>2. i + 3 <= Len(params) /\ params[i + 1] = 48 /\ params[i + 2] = 5 /\ params[i + 3] = c
    BY <1>5, <2>1
  <2>3. params[i + 3] >= 0
    BY <2>2
  <2>4. \A old : Extended(params, i + 1, old) = [color |-> color, next |-> i + 3 + 1]
    <3>1. \A old : Extended(params, i + 1, old) = [color |-> Indexed(params[i + 3]), next |-> i + 4]
      BY <1>4, <2>2, <2>3, ExtendedIndex, Zenon
    <3>2. Indexed(params[i + 3]) = color
      BY <1>10, <2>2, Zenon
    <3>3. i + 4 = i + 3 + 1
      BY <1>4
    <3>. QED  BY <3>1, <3>2, <3>3, Zenon
  <2>5. At(h, i + 3, Colored(style, 48, color))
    BY <1>4, <1>6, <2>2, <2>4, ExtendedReads, ZenonT(30)
  <2>. QED  BY <1>2, <2>1, <2>5
<1>11. ASSUME NEW r \in 0 .. 255, NEW g \in 0 .. 255, NEW b \in 0 .. 255,
              color = Rgb(r, g, b), u = << 40 + 8, 2, r, g, b >>
       PROVE  At(h, i + Len(u), set)
  <2>1. Len(u) = 5 /\ u[1] = 48 /\ u[2] = 2 /\ u[3] = r /\ u[4] = g /\ u[5] = b
    BY <1>11
  <2>2. /\ i + 5 <= Len(params) /\ params[i + 1] = 48 /\ params[i + 2] = 2 /\ params[i + 3] = r
        /\ params[i + 4] = g /\ params[i + 5] = b
    BY <1>5, <2>1
  <2>3. params[i + 3] >= 0 /\ params[i + 4] >= 0 /\ params[i + 5] >= 0
    <3>1. r >= 0 /\ g >= 0 /\ b >= 0
      OBVIOUS
    <3>. QED  BY <2>2, <3>1, Zenon
  <2>4. \A old : Extended(params, i + 1, old) = [color |-> color, next |-> i + 5 + 1]
    <3>1. \A old : Extended(params, i + 1, old)
                     = [color |-> Rgb(params[i + 3], params[i + 4], params[i + 5]), next |-> i + 6]
      BY <1>4, <2>2, <2>3, ExtendedRgb, Zenon
    <3>2. Rgb(params[i + 3], params[i + 4], params[i + 5]) = color
      BY <1>11, <2>2, Zenon
    <3>3. i + 6 = i + 5 + 1
      BY <1>4
    <3>. QED  BY <3>1, <3>2, <3>3, Zenon
  <2>5. At(h, i + 5, Colored(style, 48, color))
    BY <1>4, <1>6, <2>2, <2>4, ExtendedReads, ZenonT(30)
  <2>. QED  BY <1>2, <2>1, <2>5
<1>. QED  BY <1>1, <1>8, <1>9, <1>10, <1>11

LEMMA StyleParamsType ==
    ASSUME NEW to \in Renditions, NEW q0 \in Seq(Nat)
    PROVE  StyleParams(q0, to) \in Seq(Nat) /\ Begins(StyleParams(q0, to), q0)
<1>. DEFINE u1 == AttributeParam(to.on, "bold", 1)
            u2 == AttributeParam(to.on, "italic", 3)
            u3 == AttributeParam(to.on, "underline", 4)
            u4 == AttributeParam(to.on, "blink", 5)
            u5 == AttributeParam(to.on, "reverse", 7)
            u6 == ColorParams(to.fg, 30)
            u7 == ColorParams(to.bg, 40)
<1>1. StyleParams(q0, to) = q0 \o u1 \o u2 \o u3 \o u4 \o u5 \o u6 \o u7
  BY DEF StyleParams, AttributeParam
<1>2. /\ u1 \in Seq(Nat) /\ u2 \in Seq(Nat) /\ u3 \in Seq(Nat) /\ u4 \in Seq(Nat)
      /\ u5 \in Seq(Nat)
  BY DEF AttributeParam
<1>3. u6 \in Seq(Nat) /\ u7 \in Seq(Nat)
  <2>1. to.fg \in Colors /\ to.bg \in Colors /\ 30 \in Nat /\ 40 \in Nat
    BY DEF Renditions
  <2>. HIDE DEF u6, u7
  <2>. QED  BY <2>1, ColorParamsType DEF u6, u7
<1>. HIDE DEF u1, u2, u3, u4, u5, u6, u7
<1>4. \A a, b \in Seq(Nat) : /\ a \o b \in Seq(Nat) /\ (Begins(a, q0) => Begins(a \o b, q0))
  <2>1. ASSUME NEW a \in Seq(Nat), NEW b \in Seq(Nat), Begins(a, q0)
        PROVE  Begins(a \o b, q0)
    <3>1. /\ Len(a \o b) = Len(a) + Len(b) /\ Len(a) \in Nat /\ Len(b) \in Nat
          /\ \A k \in 1 .. Len(a) : (a \o b)[k] = a[k]
      OBVIOUS
    <3>2. Len(q0) <= Len(a) /\ Len(q0) \in Nat /\ \A k \in 1 .. Len(q0) : a[k] = q0[k]
      BY <2>1 DEF Begins
    <3>. DEFINE w == a \o b
    <3>. HIDE DEF w
    <3>3. Len(q0) <= Len(w) /\ \A k \in 1 .. Len(q0) : w[k] = q0[k]
      BY <3>1, <3>2 DEF w
    <3>. QED  BY <3>3 DEF Begins, w
  <2>. QED  BY <2>1
<1>. DEFINE Fine(w) == w \in Seq(Nat) /\ Begins(w, q0)
<1>5. Fine(q0)
  BY DEF Begins
<1>6. ASSUME NEW a, Fine(a), NEW b \in Seq(Nat) PROVE Fine(a \o b)
  BY <1>4, <1>6
<1>. HIDE DEF Fine
<1>7. Fine(q0 \o u1 \o u2 \o u3)
  BY <1>2, <1>5, <1>6
<1>8. Fine(q0 \o u1 \o u2 \o u3 \o u4 \o u5 \o u6 \o u7)
  BY <1>2, <1>3, <1>6, <1>7
<1>. QED  BY <1>1, <1>8 DEF Fine

\* The parameters of a style, read in the default style, are the style.
LEMMA StyleReads ==
    ASSUME NEW to \in Renditions, ~IsBright(to.fg), ~IsBright(to.bg), NEW q0 \in Seq(Int),
           NEW start, NEW h, SgrReads(h, StyleParams(q0, to), start), At(h, Len(q0), DefaultStyle)
    PROVE  At(h, Len(StyleParams(q0, to)), to)
<1>. DEFINE p  == StyleParams(q0, to)
            u1 == AttributeParam(to.on, "bold", 1)
            u2 == AttributeParam(to.on, "italic", 3)
            u3 == AttributeParam(to.on, "underline", 4)
            u4 == AttributeParam(to.on, "blink", 5)
            u5 == AttributeParam(to.on, "reverse", 7)
            u6 == ColorParams(to.fg, 30)
            u7 == ColorParams(to.bg, 40)
            q1 == q0 \o u1
            q2 == q1 \o u2
            q3 == q2 \o u3
            q4 == q3 \o u4
            q5 == q4 \o u5
            q6 == q5 \o u6
            q7 == q6 \o u7
            with(on) == [on |-> on, fg |-> DefaultColor, bg |-> DefaultColor]
            on1 == {"bold"} \cap to.on
            on2 == on1 \union ({"italic"} \cap to.on)
            on3 == on2 \union ({"underline"} \cap to.on)
            on4 == on3 \union ({"blink"} \cap to.on)
            on5 == on4 \union ({"reverse"} \cap to.on)
<1>1. to.on \in SUBSET Attributes /\ to.fg \in Colors /\ to.bg \in Colors
      /\ to = [on |-> to.on, fg |-> to.fg, bg |-> to.bg]
  BY DEF Renditions
<1>2. p = q7
  BY DEF StyleParams, AttributeParam
<1>3. /\ u1 \in Seq(Int) /\ u2 \in Seq(Int) /\ u3 \in Seq(Int) /\ u4 \in Seq(Int)
      /\ u5 \in Seq(Int)
  BY DEF AttributeParam
<1>4. u6 \in Seq(Int) /\ u7 \in Seq(Int)
  <2>1. u6 \in Seq(Nat) /\ u7 \in Seq(Nat)
    <3>. HIDE DEF u6, u7
    <3>1. 30 \in Nat /\ 40 \in Nat
      OBVIOUS
    <3>. QED  BY <1>1, <3>1, ColorParamsType DEF u6, u7
  <2>. HIDE DEF u6, u7
  <2>. QED  BY <2>1
<1>5. on5 = to.on
  BY <1>1 DEF Attributes
<1>6. \A on \in SUBSET Attributes : with(on) \in Renditions
  BY ColorFacts DEF Renditions
<1>7. /\ on1 \in SUBSET Attributes /\ on2 \in SUBSET Attributes /\ on3 \in SUBSET Attributes
      /\ on4 \in SUBSET Attributes /\ on5 \in SUBSET Attributes
  BY <1>1
<1>8. /\ Sets(1) = "bold" /\ Sets(3) = "italic" /\ Sets(4) = "underline" /\ Sets(5) = "blink"
      /\ Sets(7) = "reverse"
  BY DEF Sets
<1>9. DefaultStyle = with({})
  BY DEF DefaultStyle
<1>10. ASSUME NEW on, NEW more
       PROVE  [with(on) EXCEPT !.on = with(on).on \union more] = with(on \union more)
  <2>. DEFINE both == with(on).on \union more
  <2>1. with(on).on = on
    OBVIOUS
  <2>2. [with(on) EXCEPT !.on = both] = with(both)
    <3>. HIDE DEF both
    <3>. QED  OBVIOUS
  <2>. HIDE DEF with
  <2>. QED  BY <2>1, <2>2
<1>11. \A on : with(on).fg = DefaultColor
  OBVIOUS
<1>. DEFINE front == [with(on5) EXCEPT !.fg = to.fg]
            whole == [front EXCEPT !.bg = to.bg]
<1>12. front \in Renditions /\ front.bg = DefaultColor
  BY <1>1, <1>6, <1>7 DEF Renditions
<1>13. whole = to
  <2>. HIDE DEF on5
  <2>1. whole = [on |-> on5, fg |-> to.fg, bg |-> to.bg]
    <3>. HIDE DEF front
    <3>1. front = [on |-> on5, fg |-> to.fg, bg |-> DefaultColor]
      <4>1. ASSUME NEW a PROVE [with(on5) EXCEPT !.fg = a] = [on |-> on5, fg |-> a, bg |-> DefaultColor]
        OBVIOUS
      <4>. HIDE DEF with
      <4>. QED  BY <4>1 DEF front
    <3>2. ASSUME NEW a, NEW b
          PROVE  [[on |-> on5, fg |-> a, bg |-> DefaultColor] EXCEPT !.bg = b] = [on |-> on5, fg |-> a, bg |-> b]
      OBVIOUS
    <3>. QED  BY <3>1, <3>2
  <2>. QED  BY <1>1, <1>5, <2>1
<1>. HIDE DEF with, front, whole, u1, u2, u3, u4, u5, u6, u7, p
<1>14. q1 \in Seq(Int) /\ q2 \in Seq(Int) /\ q3 \in Seq(Int)
  BY <1>3
<1>. HIDE DEF q1, q2, q3
<1>15. q4 \in Seq(Int) /\ q5 \in Seq(Int) /\ q6 \in Seq(Int)
  BY <1>3, <1>4, <1>14
<1>. HIDE DEF q4, q5, q6
<1>16. q7 \in Seq(Int)
  BY <1>4, <1>15
<1>. HIDE DEF q7
<1>17. p \in Seq(Int) /\ Begins(p, q7) /\ SgrReads(h, p, start)
  BY <1>2, <1>16 DEF Begins, p
<1>18. Begins(p, q6)
  BY <1>4, <1>15, <1>17, BeginsParts DEF q7
<1>19. Begins(p, q5)
  BY <1>4, <1>15, <1>17, <1>18, BeginsParts DEF q6
<1>20. Begins(p, q4)
  BY <1>3, <1>15, <1>17, <1>19, BeginsParts DEF q5
<1>21. Begins(p, q3)
  BY <1>3, <1>14, <1>17, <1>20, BeginsParts DEF q4
<1>22. Begins(p, q2)
  BY <1>3, <1>14, <1>17, <1>21, BeginsParts DEF q3
<1>23. Begins(p, q1)
  BY <1>3, <1>14, <1>17, <1>22, BeginsParts DEF q2
<1>. HIDE DEF on1, on2, on3, on4, on5
<1>24. At(h, Len(q1), with(on1))
  <2>1. [with({}) EXCEPT !.on = with({}).on \union ({"bold"} \cap to.on)] = with(on1)
    <3>1. {} \union ({"bold"} \cap to.on) = on1
      BY DEF on1
    <3>. QED  BY <1>10, <3>1
  <2>2. with({}) \in Renditions /\ At(h, Len(q0), with({}))
    BY <1>6, <1>9
  <2>3. 1 \in {1, 3, 4, 5, 7} /\ Begins(p, q0 \o AttributeParam(to.on, "bold", 1))
    BY <1>23 DEF q1, u1
  <2>4. At(h, Len(q0 \o AttributeParam(to.on, "bold", 1)),
           [with({}) EXCEPT !.on = with({}).on \union ({"bold"} \cap to.on)])
    BY <1>8, <1>17, <2>2, <2>3, AttributeReads
  <2>. QED  BY <2>1, <2>4 DEF q1, u1
<1>25. At(h, Len(q2), with(on2))
  <2>1. [with(on1) EXCEPT !.on = with(on1).on \union ({"italic"} \cap to.on)] = with(on2)
    BY <1>10 DEF on2
  <2>2. with(on1) \in Renditions
    BY <1>6, <1>7
  <2>3. 3 \in {1, 3, 4, 5, 7} /\ Begins(p, q1 \o AttributeParam(to.on, "italic", 3))
    BY <1>22 DEF q2, u2
  <2>4. At(h, Len(q1 \o AttributeParam(to.on, "italic", 3)),
           [with(on1) EXCEPT !.on = with(on1).on \union ({"italic"} \cap to.on)])
    BY <1>8, <1>14, <1>17, <1>24, <2>2, <2>3, AttributeReads
  <2>. QED  BY <2>1, <2>4 DEF q2, u2
<1>26. At(h, Len(q3), with(on3))
  <2>1. [with(on2) EXCEPT !.on = with(on2).on \union ({"underline"} \cap to.on)] = with(on3)
    BY <1>10 DEF on3
  <2>2. with(on2) \in Renditions
    BY <1>6, <1>7
  <2>3. 4 \in {1, 3, 4, 5, 7} /\ Begins(p, q2 \o AttributeParam(to.on, "underline", 4))
    BY <1>21 DEF q3, u3
  <2>4. At(h, Len(q2 \o AttributeParam(to.on, "underline", 4)),
           [with(on2) EXCEPT !.on = with(on2).on \union ({"underline"} \cap to.on)])
    BY <1>8, <1>14, <1>17, <1>25, <2>2, <2>3, AttributeReads
  <2>. QED  BY <2>1, <2>4 DEF q3, u3
<1>27. At(h, Len(q4), with(on4))
  <2>1. [with(on3) EXCEPT !.on = with(on3).on \union ({"blink"} \cap to.on)] = with(on4)
    BY <1>10 DEF on4
  <2>2. with(on3) \in Renditions
    BY <1>6, <1>7
  <2>3. 5 \in {1, 3, 4, 5, 7} /\ Begins(p, q3 \o AttributeParam(to.on, "blink", 5))
    BY <1>20 DEF q4, u4
  <2>4. At(h, Len(q3 \o AttributeParam(to.on, "blink", 5)),
           [with(on3) EXCEPT !.on = with(on3).on \union ({"blink"} \cap to.on)])
    BY <1>8, <1>14, <1>17, <1>26, <2>2, <2>3, AttributeReads
  <2>. QED  BY <2>1, <2>4 DEF q4, u4
<1>28. At(h, Len(q5), with(on5))
  <2>1. [with(on4) EXCEPT !.on = with(on4).on \union ({"reverse"} \cap to.on)] = with(on5)
    BY <1>10 DEF on5
  <2>2. with(on4) \in Renditions
    BY <1>6, <1>7
  <2>3. 7 \in {1, 3, 4, 5, 7} /\ Begins(p, q4 \o AttributeParam(to.on, "reverse", 7))
    BY <1>19 DEF q5, u5
  <2>4. At(h, Len(q4 \o AttributeParam(to.on, "reverse", 7)),
           [with(on4) EXCEPT !.on = with(on4).on \union ({"reverse"} \cap to.on)])
    BY <1>8, <1>15, <1>17, <1>27, <2>2, <2>3, AttributeReads
  <2>. QED  BY <2>1, <2>4 DEF q5, u5
<1>29. At(h, Len(q6), front)
  <2>1. with(on5) \in Renditions /\ with(on5).fg = DefaultColor
    BY <1>6, <1>7, <1>11
  <2>2. Begins(p, q5 \o ColorParams(to.fg, 30))
    BY <1>18 DEF q6, u6
  <2>3. At(h, Len(q5 \o ColorParams(to.fg, 30)), [with(on5) EXCEPT !.fg = to.fg])
    BY <1>1, <1>15, <1>17, <1>28, <2>1, <2>2, ForegroundReads
  <2>. QED  BY <2>3 DEF q6, u6, front
<1>30. At(h, Len(q7), whole)
  <2>1. Begins(p, q6 \o ColorParams(to.bg, 40))
    BY <1>17 DEF q7, u7
  <2>2. At(h, Len(q6 \o ColorParams(to.bg, 40)), [front EXCEPT !.bg = to.bg])
    BY <1>1, <1>12, <1>15, <1>17, <1>29, <2>1, BackgroundReads
  <2>. QED  BY <2>2 DEF q7, u7, whole
<1>. QED  BY <1>2, <1>13, <1>30 DEF p

\* What the daemon writes between two cells of different styles makes the terminal of the
\* client go from the one to the other, whatever the two are.
THEOREM SgrDiffReads ==
    ASSUME NEW from \in Renditions, NEW to \in Renditions, ~IsBright(to.fg), ~IsBright(to.bg)
    PROVE  AppliedSgr(SgrDiff(from, to), from, FALSE) = to
<1>1. << 0 >> \in Seq(Int) /\ << >> \in Seq(Int) /\ Len(<< 0 >>) = 1 /\ << 0 >>[1] = 0 /\ Len(<< >>) = 0
  OBVIOUS
<1>2. ASSUME NEW p \in Seq(Int), NEW h, SgrReads(h, p, from), Begins(p, << 0 >>)
      PROVE  At(h, 1, DefaultStyle)
  <2>. DEFINE i == 0
  <2>1. /\ i \in Nat /\ i + 1 = 1 /\ At(h, i, from) /\ p[1] = 0
        /\ i + 1 <= Len(p) /\ p[i + 1] >= 0
    BY <1>1, <1>2 DEF At, SgrReads, Begins
  <2>. HIDE DEF i
  <2>2. h[i + 1] = SgrAt(p, i + 1, from, FALSE) /\ SgrMeans(p, i + 1, from, p[i + 1])
    BY <1>2, <2>1, SgrNext
  <2>3. h[1] = SgrAt(p, 1, from, FALSE) /\ SgrMeans(p, 1, from, 0)
    BY <2>1, <2>2
  <2>4. h[1] = [style |-> DefaultStyle, next |-> 1 + 1]
    BY <2>3 DEF SgrMeans
  <2>. QED  BY <2>4 DEF At
<1>3. ASSUME NEW q0 \in {<< >>, << 0 >>}, q0 = << >> => from = DefaultStyle, to # DefaultStyle
      PROVE  AppliedSgr(StyleParams(q0, to), from, FALSE) = to
  <2>. DEFINE p == StyleParams(q0, to)
  <2>. HIDE DEF p
  <2>1. p \in Seq(Nat) /\ Begins(p, q0)
    <3>1. << >> \in Seq(Nat) /\ << 0 >> \in Seq(Nat)
      OBVIOUS
    <3>2. q0 \in Seq(Nat)
      BY <3>1, Zenon
    <3>. QED  BY <3>2, StyleParamsType DEF p
  <2>2. p \in Seq(Int) /\ q0 \in Seq(Int) /\ Len(p) \in Nat
    <3>1. q0 \in Seq(Int)
      BY <1>1, Zenon
    <3>2. p \in Seq(Int) /\ Len(p) \in Nat
      BY <2>1
    <3>. QED  BY <3>1, <3>2
  <2>3. ASSUME NEW h, SgrReads(h, p, from) PROVE At(h, Len(p), to)
    <3>1. At(h, Len(q0), DefaultStyle)
      <4>1. CASE q0 = << >>
        BY <1>1, <1>3, <2>3, <4>1 DEF At, SgrReads
      <4>2. CASE q0 = << 0 >>
        BY <1>1, <1>2, <2>1, <2>2, <2>3, <4>2
      <4>. QED  BY <4>1, <4>2
    <3>. QED  BY <2>2, <2>3, <3>1, StyleReads DEF p
  <2>4. p # << >>
    <3>1. SUFFICES ASSUME p = << >> PROVE FALSE
      OBVIOUS
    <3>2. q0 = << >> /\ Len(p) = 0
      BY <2>1, <3>1 DEF Begins
    <3>. DEFINE h == [k \in {0} |-> [style |-> from, next |-> 1]]
    <3>3. SgrReads(h, p, from)
      BY <3>2 DEF SgrReads
    <3>4. h[0] = [style |-> from, next |-> 1]
      OBVIOUS
    <3>. HIDE DEF h
    <3>5. At(h, 0, to)
      BY <2>3, <3>2, <3>3
    <3>6. to = from
      BY <3>4, <3>5 DEF At
    <3>. QED  BY <1>3, <3>2, <3>6
  <2>5. \E i \in DOMAIN p : p[i] # None
    <3>1. 1 \in DOMAIN p /\ p[1] \in Nat
      BY <2>1, <2>4
    <3>. QED  BY <3>1 DEF None
  <2>6. PICK h : SgrReads(h, p, from) /\ AppliedSgr(p, from, FALSE) = h[Len(p)].style
    BY <2>2, <2>5, SgrFold
  <2>7. At(h, Len(p), to)
    BY <2>3, <2>6
  <2>8. h[Len(p)].style = to
    BY <2>7 DEF At
  <2>. QED  BY <2>6, <2>8 DEF p
<1>4. CASE to = DefaultStyle
  <2>. DEFINE p == << 0 >>
  <2>1. p \in Seq(Int) /\ Len(p) = 1 /\ (\E i \in DOMAIN p : p[i] # None) /\ Begins(p, << 0 >>)
    BY DEF Begins, None
  <2>. HIDE DEF p
  <2>2. PICK h : SgrReads(h, p, from) /\ AppliedSgr(p, from, FALSE) = h[Len(p)].style
    BY <2>1, SgrFold
  <2>3. At(h, 1, DefaultStyle)
    BY <1>2, <2>1, <2>2
  <2>4. h[1].style = DefaultStyle
    BY <2>3 DEF At
  <2>5. AppliedSgr(p, from, FALSE) = DefaultStyle
    BY <2>1, <2>2, <2>4
  <2>. QED  BY <1>4, <2>5 DEF SgrDiff, p
<1>5. CASE to # DefaultStyle /\ from = DefaultStyle
  <2>1. SgrDiff(from, to) = StyleParams(<< >>, to)
    BY <1>5 DEF SgrDiff
  <2>. QED  BY <1>3, <1>5, <2>1
<1>6. CASE to # DefaultStyle /\ from # DefaultStyle
  <2>1. SgrDiff(from, to) = StyleParams(<< 0 >>, to)
    BY <1>6 DEF SgrDiff
  <2>2. << 0 >> # << >>
    OBVIOUS
  <2>. QED  BY <1>3, <1>6, <2>1, <2>2
<1>. QED  BY <1>4, <1>5, <1>6

\* What a sequence leads to is a style.
LEMMA AppliedSgrType ==
    ASSUME NEW params \in Seq(Int), NEW style \in Renditions
    PROVE  AppliedSgr(params, style, FALSE) \in Renditions
<1>1. CASE \A i \in DOMAIN params : params[i] = None
  BY <1>1, ColorFacts DEF AppliedSgr
<1>2. CASE ~ \A i \in DOMAIN params : params[i] = None
  <2>1. PICK h : SgrReads(h, params, style) /\ AppliedSgr(params, style, FALSE) = h[Len(params)].style
    BY <1>2, SgrFold
  <2>. DEFINE S == {k \in Nat : k <= Len(params) => h[k] \in Readings}
  <2>2. S \in SUBSET Nat /\ Len(params) \in Nat
    OBVIOUS
  <2>3. 0 \in S
    BY <2>1 DEF SgrReads, Readings
  <2>4. ASSUME NEW k \in S PROVE k + 1 \in S
    <3>1. SUFFICES ASSUME k + 1 <= Len(params) PROVE h[k + 1] \in Readings
      OBVIOUS
    <3>2. h[k] \in Readings /\ k + 1 \in 1 .. Len(params) /\ (k + 1) - 1 = k /\ k + 1 \in Int
      BY <2>2, <3>1
    <3>3. h[k + 1] = SgrStep(params, h[k], k + 1)
      BY <2>1, <3>2 DEF SgrReads
    <3>4. h[k].style \in Renditions
      BY <3>2 DEF Readings
    <3>5. SgrAt(params, k + 1, h[k].style, FALSE) \in Readings
      <4>. DEFINE j == k + 1
                  s == h[k].style
      <4>. HIDE DEF j, s
      <4>1. SgrAt(params, j, s, FALSE) \in Readings
        BY <3>2, <3>4, SgrAtType DEF j, s
      <4>. QED  BY <4>1 DEF j, s
    <3>. QED  BY <3>2, <3>3, <3>5 DEF SgrStep
  <2>5. Len(params) \in S
    <3>. HIDE DEF S
    <3>. QED  BY <2>2, <2>3, <2>4, InductiveSet
  <2>6. h[Len(params)] \in Readings
    BY <2>2, <2>5
  <2>. QED  BY <2>1, <2>6 DEF Readings
<1>. QED  BY <1>1, <1>2

-----------------------------------------------------------------------------
(* What is written of a row.                                               *)

Cells  == [text : {"", "W"} \union Texts, style : Renditions, width : {0, 1, 2}]
Tokens == [sgr : {FALSE}, text : {"W"} \union Texts, width : {1, 2}] \union [sgr : {TRUE}, params : Seq(Nat)]
Lines  == [tokens : Seq(Tokens), active : Renditions]

\* Two sequences, one after the other.
LEMMA Joins ==
    ASSUME NEW T, NEW a \in Seq(T), NEW b \in Seq(T)
    PROVE  /\ a \o b \in Seq(T) /\ Len(a \o b) = Len(a) + Len(b)
           /\ \A k \in 1 .. Len(a) : (a \o b)[k] = a[k]
           /\ \A k \in 1 .. Len(b) : (a \o b)[Len(a) + k] = b[k]
<1>1. a \o b \in Seq(T) /\ Len(a \o b) = Len(a) + Len(b) /\ Len(a) \in Nat /\ Len(b) \in Nat
  OBVIOUS
<1>2. \A k \in 1 .. Len(a) : (a \o b)[k] = a[k]
  BY <1>1
<1>3. \A k \in 1 .. Len(b) : (a \o b)[Len(a) + k] = b[k]
  BY <1>1
<1>. QED  BY <1>1, <1>2, <1>3

LEMMA TokenTypes ==
    /\ \A cell \in Cells : TextToken(cell) \in Tokens
    /\ \A from, to \in Renditions : SgrToken(SgrDiff(from, to)) \in Tokens
    /\ SgrToken(<< 0 >>) \in Tokens
<1>1. ASSUME NEW cell \in Cells PROVE TextToken(cell) \in Tokens
  BY DEF Cells, Tokens, TextToken, Texts
<1>2. \A p \in Seq(Nat) : SgrToken(p) \in Tokens
  BY DEF SgrToken, Tokens
<1>3. << 0 >> \in Seq(Nat) /\ << >> \in Seq(Nat)
  OBVIOUS
<1>4. ASSUME NEW from \in Renditions, NEW to \in Renditions
      PROVE  SgrDiff(from, to) \in Seq(Nat)
  <2>1. StyleParams(<< >>, to) \in Seq(Nat) /\ StyleParams(<< 0 >>, to) \in Seq(Nat)
    BY <1>3, StyleParamsType
  <2>. QED  BY <1>3, <2>1 DEF SgrDiff
<1>. QED  BY <1>1, <1>2, <1>3, <1>4

\* What one cell adds.
LEMMA DrawCellFacts ==
    ASSUME NEW line \in Lines, NEW cell \in Cells
    PROVE  LET new == DrawCell(line, cell)
               l   == Len(line.tokens)
           IN  /\ new \in Lines /\ Begins(new.tokens, line.tokens)
               /\ cell.width = 0 => new = line
               /\ cell.width # 0 => new.active = cell.style
               /\ cell.width # 0 /\ cell.style = line.active =>
                    Len(new.tokens) = l + 1 /\ new.tokens[l + 1] = TextToken(cell)
               /\ cell.width # 0 /\ cell.style # line.active =>
                    /\ Len(new.tokens) = l + 2 /\ new.tokens[l + 2] = TextToken(cell)
                    /\ new.tokens[l + 1] = SgrToken(SgrDiff(line.active, cell.style))
<1>. DEFINE new == DrawCell(line, cell)
            l   == Len(line.tokens)
            old == line.tokens
            sgr == SgrToken(SgrDiff(line.active, cell.style))
            txt == TextToken(cell)
<1>1. /\ old \in Seq(Tokens) /\ line.active \in Renditions /\ cell.style \in Renditions
      /\ line = [tokens |-> old, active |-> line.active]
  BY DEF Lines, Cells
<1>2. sgr \in Tokens /\ txt \in Tokens
  BY <1>1, TokenTypes
<1>3. /\ cell.width = 0 => new = line
      /\ cell.width # 0 /\ cell.style = line.active =>
            new = [tokens |-> Append(old, txt), active |-> line.active]
      /\ cell.width # 0 /\ cell.style # line.active =>
            new = [tokens |-> old \o << sgr, txt >>, active |-> cell.style]
  BY <1>1 DEF DrawCell
<1>. HIDE DEF sgr, txt, new, old
<1>4. /\ Append(old, txt) \in Seq(Tokens) /\ Len(Append(old, txt)) = Len(old) + 1 /\ Len(old) \in Nat
      /\ Append(old, txt)[Len(old) + 1] = txt
      /\ \A k \in 1 .. Len(old) : Append(old, txt)[k] = old[k]
  BY <1>1, <1>2
<1>5. /\ old \o << sgr, txt >> \in Seq(Tokens) /\ Len(old \o << sgr, txt >>) = Len(old) + 2
      /\ (old \o << sgr, txt >>)[Len(old) + 1] = sgr
      /\ (old \o << sgr, txt >>)[Len(old) + 2] = txt
      /\ \A k \in 1 .. Len(old) : (old \o << sgr, txt >>)[k] = old[k]
  <2>. DEFINE two == << sgr, txt >>
  <2>1. two \in Seq(Tokens) /\ Len(two) = 2 /\ two[1] = sgr /\ two[2] = txt
    BY <1>2
  <2>. HIDE DEF two
  <2>2. /\ old \o two \in Seq(Tokens) /\ Len(old \o two) = Len(old) + Len(two)
        /\ \A k \in 1 .. Len(old) : (old \o two)[k] = old[k]
        /\ \A k \in 1 .. Len(two) : (old \o two)[Len(old) + k] = two[k]
    <3>1. old \in Seq(Tokens) /\ two \in Seq(Tokens)
      BY <1>1, <2>1
    <3>. QED  BY <3>1, Joins
  <2>3. (old \o two)[Len(old) + 1] = two[1] /\ (old \o two)[Len(old) + 2] = two[2]
    <3>1. 1 \in 1 .. Len(two) /\ 2 \in 1 .. Len(two)
      BY <2>1
    <3>. QED  BY <2>2, <3>1
  <2>. QED  BY <2>1, <2>2, <2>3 DEF two
<1>6. new \in Lines /\ Begins(new.tokens, old)
  <2>1. CASE cell.width = 0
    BY <1>1, <1>3, <1>4, <2>1 DEF Begins, old
  <2>2. CASE cell.width # 0 /\ cell.style = line.active
    BY <1>1, <1>3, <1>4, <2>2 DEF Begins, Lines
  <2>3. CASE cell.width # 0 /\ cell.style # line.active
    <3>. DEFINE more == old \o << sgr, txt >>
    <3>. HIDE DEF more
    <3>1. new = [tokens |-> more, active |-> cell.style]
      BY <1>3, <2>3 DEF more
    <3>2. more \in Seq(Tokens) /\ Len(more) = Len(old) + 2 /\ \A k \in 1 .. Len(old) : more[k] = old[k]
      BY <1>5 DEF more
    <3>. QED  BY <1>1, <1>4, <3>1, <3>2 DEF Begins, Lines
  <2>. QED  BY <2>1, <2>2, <2>3
<1>. QED  BY <1>1, <1>3, <1>4, <1>5, <1>6 DEF new, old, sgr, txt

(* The drawing of a row, cell by cell.                                     *)
Drawn(d, cells) ==
  /\ d[0] = [tokens |-> << >>, active |-> DefaultStyle]
  /\ \A k \in 1 .. Len(cells) : d[k] = DrawCell(d[k - 1], cells[k])

LEMMA DrawFold ==
    ASSUME NEW cells \in Seq(Cells)
    PROVE  \E d : Drawn(d, cells) /\ DrawLine(cells) = Trimmed(d[Len(cells)].tokens)
<1>. DEFINE n == Len(cells)
            base == [tokens |-> << >>, active |-> DefaultStyle]
            Iter(f) == f = [s \in SUBSET (1 .. n) |->
                              IF s = {} THEN base ELSE DrawCell(f[s \ {Max(s)}], cells[Max(s)])]
<1>1. n \in Nat /\ DOMAIN cells = 1 .. n
  OBVIOUS
<1>. HIDE DEF n
<1>2. \E f : Iter(f)
  <2>. DEFINE step == [z \in Lines \X (1 .. n) |-> DrawCell(z[1], cells[z[2]])]
  <2>1. base \in Lines
    BY ColorFacts DEF Lines
  <2>2. step \in [Lines \X (1 .. n) -> Lines]
    <3>1. ASSUME NEW r \in Lines, NEW k \in 1 .. n PROVE DrawCell(r, cells[k]) \in Lines
      <4>1. cells[k] \in Cells
        BY <1>1
      <4>. HIDE DEF step
      <4>. QED  BY <4>1, DrawCellFacts
    <3>. QED  BY <3>1
  <2>. HIDE DEF base
  <2>3. PICK f \in [SUBSET (1 .. n) -> Lines] :
          Folds(f, n, base, step)
    <3>. HIDE DEF step
    <3>. QED  BY <1>1, <2>1, <2>2, FoldExists
  <2>4. ASSUME NEW s \in SUBSET (1 .. n)
        PROVE  f[s] = IF s = {} THEN base ELSE DrawCell(f[s \ {Max(s)}], cells[Max(s)])
    <3>1. CASE s # {}
      <4>1. Max(s) \in 1 .. n
        BY <1>1, <3>1, MaxFacts
      <4>2. f[s \ {Max(s)}] \in Lines
        BY <1>1, <2>3, <4>1
      <4>3. f[s] = step[<< f[s \ {Max(s)}], Max(s) >>]
        BY <2>3, <3>1 DEF Folds
      <4>. QED  BY <3>1, <4>1, <4>2, <4>3
    <3>2. CASE s = {}
      BY <2>3, <3>2 DEF Folds
    <3>. QED  BY <3>1, <3>2
  <2>. HIDE DEF step
  <2>5. f = [s \in SUBSET (1 .. n) |-> f[s]]
    BY <2>3
  <2>6. Iter(f)
    BY <2>4, <2>5
  <2>. QED  BY <2>6
<1>. DEFINE g == CHOOSE f : Iter(f)
<1>3. Iter(g)
  BY <1>2
<1>4. DrawLine(cells) = Trimmed(g[1 .. n].tokens)
  BY <1>1 DEF DrawLine, FoldLeft, MapThenFoldSet
<1>. HIDE DEF g
<1>. DEFINE d == [k \in 0 .. n |-> g[1 .. k]]
<1>5. d[0] = base
  <2>1. 1 .. 0 = {} /\ {} \in SUBSET (1 .. n)
    OBVIOUS
  <2>. QED  BY <1>1, <1>3, <2>1
<1>6. ASSUME NEW k \in 1 .. n PROVE d[k] = DrawCell(d[k - 1], cells[k])
  <2>1. /\ 1 .. k \in SUBSET (1 .. n) /\ 1 .. k # {} /\ Max(1 .. k) = k
        /\ (1 .. k) \ {k} = 1 .. k - 1
    BY <1>1, MaxOfFirst
  <2>2. k \in 0 .. n /\ k - 1 \in 0 .. n
    BY <1>1
  <2>. HIDE DEF base
  <2>3. g[1 .. k] = DrawCell(g[1 .. k - 1], cells[k])
    BY <1>3, <2>1, <2>2
  <2>. QED  BY <2>2, <2>3
<1>7. Drawn(d, cells)
  <2>. HIDE DEF d
  <2>. QED  BY <1>5, <1>6 DEF Drawn, n
<1>8. d[n] = g[1 .. n]
  BY <1>1
<1>. HIDE DEF d
<1>. QED  BY <1>4, <1>7, <1>8 DEF n

\* How a row has been written so far, for each of its cells.
LEMMA DrawnType ==
    ASSUME NEW cells \in Seq(Cells), NEW d, Drawn(d, cells)
    PROVE  \A k \in 0 .. Len(cells) : d[k] \in Lines
<1>. DEFINE S == {k \in Nat : k <= Len(cells) => d[k] \in Lines}
<1>1. S \in SUBSET Nat
  OBVIOUS
<1>2. 0 \in S
  <2>1. [tokens |-> << >>, active |-> DefaultStyle] \in Lines
    BY ColorFacts DEF Lines
  <2>. QED  BY <2>1 DEF Drawn
<1>3. ASSUME NEW k \in S PROVE k + 1 \in S
  <2>1. SUFFICES ASSUME k + 1 <= Len(cells) PROVE d[k + 1] \in Lines
    OBVIOUS
  <2>2. k + 1 \in 1 .. Len(cells) /\ (k + 1) - 1 = k /\ d[k] \in Lines /\ cells[k + 1] \in Cells
    BY <2>1
  <2>3. d[k + 1] = DrawCell(d[k], cells[k + 1])
    BY <2>2 DEF Drawn
  <2>. QED  BY <2>2, <2>3, DrawCellFacts
<1>4. S = Nat
  <2>. HIDE DEF S
  <2>. QED  BY <1>1, <1>2, <1>3, InductiveSet
<1>. QED  BY <1>4

\* Only spaces are trimmed.
LEMMA TrimmedFacts ==
    ASSUME NEW tokens \in Seq(Tokens)
    PROVE  \E m \in 0 .. Len(tokens) :
             /\ Trimmed(tokens) = SubSeq(tokens, 1, m)
             /\ \A i \in m + 1 .. Len(tokens) : IsSpace(tokens[i])
<1>. DEFINE kept == {i \in DOMAIN tokens : ~IsSpace(tokens[i])}
<1>1. Len(tokens) \in Nat /\ kept \in SUBSET (1 .. Len(tokens)) /\ DOMAIN tokens = 1 .. Len(tokens)
  OBVIOUS
<1>2. CASE kept = {}
  <2>1. Trimmed(tokens) = SubSeq(tokens, 1, 0)
    BY <1>2 DEF Trimmed
  <2>2. \A i \in 0 + 1 .. Len(tokens) : IsSpace(tokens[i])
    BY <1>1, <1>2
  <2>. QED  BY <1>1, <2>1, <2>2
<1>3. CASE kept # {}
  <2>. DEFINE m == CHOOSE i \in kept : \A k \in kept : k <= i
  <2>1. \E i \in kept : \A k \in kept : k <= i
    <3>. HIDE DEF kept
    <3>. QED  BY <1>1, <1>3, MaxFacts
  <2>2. m \in kept /\ \A k \in kept : k <= m
    <3>. HIDE DEF kept
    <3>. QED  BY <2>1
  <2>3. Trimmed(tokens) = SubSeq(tokens, 1, m)
    BY <1>3 DEF Trimmed
  <2>. HIDE DEF m
  <2>4. \A i \in m + 1 .. Len(tokens) : IsSpace(tokens[i])
    BY <1>1, <2>2
  <2>. QED  BY <1>1, <2>2, <2>3, <2>4
<1>. QED  BY <1>2, <1>3

-----------------------------------------------------------------------------
(* What is read of it.                                                     *)

Seen == [cells : Seq(Cells), style : Renditions]

\* What one token does at the terminal of the client.
LEMMA ReadFacts ==
    ASSUME NEW line \in Seen, NEW token \in Tokens
    PROVE  LET new == Read(line, token)
               l   == Len(line.cells)
           IN  /\ new \in Seen
               /\ token.sgr => /\ new.cells = line.cells
                               /\ new.style = AppliedSgr(token.params, line.style, FALSE)
               /\ ~token.sgr =>
                    /\ new.style = line.style
                    /\ Begins(new.cells, line.cells)
                    /\ Len(new.cells) = l + token.width
                    /\ new.cells[l + 1] = Cell(token.text, line.style, token.width)
                    /\ token.width = 2 => new.cells[l + 2] = Cell("", line.style, 0)
<1>. DEFINE new == Read(line, token)
            old == line.cells
            st  == line.style
            first == Cell(token.text, st, token.width)
            cont  == Cell("", st, 0)
<1>1. old \in Seq(Cells) /\ st \in Renditions /\ line = [cells |-> old, style |-> st]
  BY DEF Seen
<1>. HIDE DEF old, st
<1>2. CASE token.sgr
  <2>1. token.params \in Seq(Int)
    <3>1. token.params \in Seq(Nat)
      BY <1>2 DEF Tokens
    <3>. QED  BY <3>1
  <2>. DEFINE style == AppliedSgr(token.params, st, FALSE)
  <2>2. style \in Renditions
    BY <1>1, <2>1, AppliedSgrType
  <2>3. new = [cells |-> old, style |-> style]
    BY <1>1, <1>2 DEF Read
  <2>. HIDE DEF style, new
  <2>4. new.cells = old /\ new.style = style /\ new \in Seen
    BY <1>1, <2>2, <2>3 DEF Seen
  <2>. QED  BY <1>2, <2>4 DEF style, old, st, new
<1>3. CASE ~token.sgr
  <2>1. token.text \in {"W"} \union Texts /\ token.width \in {1, 2}
    BY <1>3 DEF Tokens
  <2>2. first \in Cells /\ cont \in Cells
    BY <1>1, <2>1 DEF Cell, Cells
  <2>3. token.width = 2 => new = [cells |-> old \o << first, cont >>, style |-> st]
    BY <1>1, <1>3 DEF Read
  <2>4. token.width = 1 => new = [cells |-> old \o << first >>, style |-> st]
    BY <1>1, <1>3, SMTT(30) DEF Read
  <2>. HIDE DEF first, cont, new
  <2>5. PICK more \in Seq(Cells) :
          /\ Len(more) = token.width /\ more[1] = first /\ (token.width = 2 => more[2] = cont)
          /\ new = [cells |-> old \o more, style |-> st]
    <3>1. << first, cont >> \in Seq(Cells) /\ << first >> \in Seq(Cells)
      BY <2>2
    <3>2. /\ Len(<< first, cont >>) = 2 /\ << first, cont >>[1] = first /\ << first, cont >>[2] = cont
          /\ Len(<< first >>) = 1 /\ << first >>[1] = first
      OBVIOUS
    <3>3. CASE token.width = 2
      BY <2>3, <3>1, <3>2, <3>3
    <3>4. CASE token.width = 1
      BY <2>4, <3>1, <3>2, <3>4
    <3>. QED  BY <2>1, <3>3, <3>4
  <2>. DEFINE all == old \o more
  <2>6. /\ all \in Seq(Cells) /\ Len(all) = Len(old) + Len(more)
        /\ \A k \in 1 .. Len(old) : all[k] = old[k]
        /\ \A k \in 1 .. Len(more) : all[Len(old) + k] = more[k]
    <3>1. old \in Seq(Cells) /\ more \in Seq(Cells)
      BY <1>1, <2>5
    <3>. QED  BY <3>1, Joins
  <2>7. new = [cells |-> all, style |-> st]
    BY <2>5
  <2>. HIDE DEF all
  <2>8. Len(old) \in Nat /\ Len(all) = Len(old) + token.width
    BY <1>1, <2>5, <2>6
  <2>9. Begins(all, old)
    BY <2>1, <2>6, <2>8 DEF Begins
  <2>10. all[Len(old) + 1] = first
    <3>1. 1 \in 1 .. Len(more)
      BY <2>1, <2>5
    <3>. QED  BY <2>5, <2>6, <3>1
  <2>11. token.width = 2 => all[Len(old) + 2] = cont
    <3>1. SUFFICES ASSUME token.width = 2 PROVE all[Len(old) + 2] = cont
      OBVIOUS
    <3>2. 2 \in 1 .. Len(more)
      BY <2>5, <3>1
    <3>. QED  BY <2>5, <2>6, <3>1, <3>2
  <2>12. new.cells = all /\ new.style = st /\ new \in Seen
    BY <1>1, <2>6, <2>7 DEF Seen
  <2>. QED  BY <1>3, <2>8, <2>9, <2>10, <2>11, <2>12 DEF old, st, new, first, cont
<1>. QED  BY <1>2, <1>3

(* The reading of what is written, token by token.                         *)
ReadSoFar(r, tokens) ==
  /\ r[0] = [cells |-> << >>, style |-> DefaultStyle]
  /\ \A k \in 1 .. Len(tokens) : r[k] = Read(r[k - 1], tokens[k])

LEMMA ReadFold ==
    ASSUME NEW tokens \in Seq(Tokens)
    PROVE  \E r : ReadSoFar(r, tokens) /\ Shown(tokens) = r[Len(tokens)].cells
<1>. DEFINE n == Len(tokens)
            base == [cells |-> << >>, style |-> DefaultStyle]
            Iter(f) == f = [s \in SUBSET (1 .. n) |->
                              IF s = {} THEN base ELSE Read(f[s \ {Max(s)}], tokens[Max(s)])]
<1>1. n \in Nat /\ DOMAIN tokens = 1 .. n
  OBVIOUS
<1>. HIDE DEF n
<1>2. \E f : Iter(f)
  <2>. DEFINE step == [z \in Seen \X (1 .. n) |-> Read(z[1], tokens[z[2]])]
  <2>1. base \in Seen
    BY ColorFacts DEF Seen
  <2>2. step \in [Seen \X (1 .. n) -> Seen]
    <3>1. ASSUME NEW r \in Seen, NEW k \in 1 .. n PROVE Read(r, tokens[k]) \in Seen
      <4>1. tokens[k] \in Tokens
        BY <1>1
      <4>. HIDE DEF step
      <4>. QED  BY <4>1, ReadFacts
    <3>. QED  BY <3>1
  <2>. HIDE DEF base
  <2>3. PICK f \in [SUBSET (1 .. n) -> Seen] :
          Folds(f, n, base, step)
    <3>. HIDE DEF step
    <3>. QED  BY <1>1, <2>1, <2>2, FoldExists
  <2>4. ASSUME NEW s \in SUBSET (1 .. n)
        PROVE  f[s] = IF s = {} THEN base ELSE Read(f[s \ {Max(s)}], tokens[Max(s)])
    <3>1. CASE s # {}
      <4>1. Max(s) \in 1 .. n
        BY <1>1, <3>1, MaxFacts
      <4>2. f[s \ {Max(s)}] \in Seen
        BY <1>1, <2>3, <4>1
      <4>3. f[s] = step[<< f[s \ {Max(s)}], Max(s) >>]
        BY <2>3, <3>1 DEF Folds
      <4>. QED  BY <3>1, <4>1, <4>2, <4>3
    <3>2. CASE s = {}
      BY <2>3, <3>2 DEF Folds
    <3>. QED  BY <3>1, <3>2
  <2>. HIDE DEF step
  <2>5. f = [s \in SUBSET (1 .. n) |-> f[s]]
    BY <2>3
  <2>6. Iter(f)
    BY <2>4, <2>5
  <2>. QED  BY <2>6
<1>. DEFINE g == CHOOSE f : Iter(f)
<1>3. Iter(g)
  BY <1>2
<1>4. Shown(tokens) = g[1 .. n].cells
  BY <1>1 DEF Shown, FoldLeft, MapThenFoldSet
<1>. HIDE DEF g
<1>. DEFINE r == [k \in 0 .. n |-> g[1 .. k]]
<1>5. r[0] = base
  <2>1. 1 .. 0 = {} /\ {} \in SUBSET (1 .. n)
    OBVIOUS
  <2>. QED  BY <1>1, <1>3, <2>1
<1>6. ASSUME NEW k \in 1 .. n PROVE r[k] = Read(r[k - 1], tokens[k])
  <2>1. /\ 1 .. k \in SUBSET (1 .. n) /\ 1 .. k # {} /\ Max(1 .. k) = k
        /\ (1 .. k) \ {k} = 1 .. k - 1
    BY <1>1, MaxOfFirst
  <2>2. k \in 0 .. n /\ k - 1 \in 0 .. n
    BY <1>1
  <2>. HIDE DEF base
  <2>3. g[1 .. k] = Read(g[1 .. k - 1], tokens[k])
    BY <1>3, <2>1, <2>2
  <2>. QED  BY <2>2, <2>3
<1>7. ReadSoFar(r, tokens)
  <2>. HIDE DEF r
  <2>. QED  BY <1>5, <1>6 DEF ReadSoFar, n
<1>8. r[n] = g[1 .. n]
  BY <1>1
<1>. HIDE DEF r
<1>. QED  BY <1>4, <1>7, <1>8 DEF n

LEMMA ReadType ==
    ASSUME NEW tokens \in Seq(Tokens), NEW r, ReadSoFar(r, tokens)
    PROVE  \A k \in 0 .. Len(tokens) : r[k] \in Seen
<1>. DEFINE S == {k \in Nat : k <= Len(tokens) => r[k] \in Seen}
<1>1. S \in SUBSET Nat
  OBVIOUS
<1>2. 0 \in S
  <2>1. [cells |-> << >>, style |-> DefaultStyle] \in Seen
    BY ColorFacts DEF Seen
  <2>. QED  BY <2>1 DEF ReadSoFar
<1>3. ASSUME NEW k \in S PROVE k + 1 \in S
  <2>1. SUFFICES ASSUME k + 1 <= Len(tokens) PROVE r[k + 1] \in Seen
    OBVIOUS
  <2>2. k + 1 \in 1 .. Len(tokens) /\ (k + 1) - 1 = k /\ r[k] \in Seen /\ tokens[k + 1] \in Tokens
    BY <2>1
  <2>3. r[k + 1] = Read(r[k], tokens[k + 1])
    BY <2>2 DEF ReadSoFar
  <2>. QED  BY <2>2, <2>3, ReadFacts
<1>4. S = Nat
  <2>. HIDE DEF S
  <2>. QED  BY <1>1, <1>2, <1>3, InductiveSet
<1>. QED  BY <1>4

-----------------------------------------------------------------------------
(* A row that is drawn and read.                                           *)

(* The cells of a row as they should be for it to be drawn as it is.       *)
Regular(cells) ==
  \A c \in 1 .. Len(cells) :
    /\ ~IsBright(cells[c].style.fg) /\ ~IsBright(cells[c].style.bg)
    /\ cells[c].width = 2 => /\ cells[c].text = "W" /\ c < Len(cells)
                             /\ cells[c + 1].width = 0 /\ cells[c + 1].style = cells[c].style
    /\ cells[c].width = 0 => cells[c].text = "" /\ c > 1 /\ cells[c - 1].width = 2

LEMMA BeginsTransitive ==
    ASSUME NEW T, NEW p \in Seq(T), NEW q \in Seq(T), NEW u \in Seq(T), Begins(p, q), Begins(q, u)
    PROVE  Begins(p, u)
<1>1. Len(p) \in Nat /\ Len(q) \in Nat /\ Len(u) \in Nat
  OBVIOUS
<1>. QED  BY <1>1 DEF Begins

\* What has been written stays.
LEMMA DrawnBegins ==
    ASSUME NEW cells \in Seq(Cells), NEW d, Drawn(d, cells)
    PROVE  \A k \in 0 .. Len(cells) : Begins(d[Len(cells)].tokens, d[k].tokens)
<1>. DEFINE n == Len(cells)
            S == {j \in Nat : j <= n => Begins(d[n].tokens, d[n - j].tokens)}
<1>1. n \in Nat /\ \A k \in 0 .. n : d[k] \in Lines
  BY DrawnType
<1>2. \A k \in 0 .. n : d[k].tokens \in Seq(Tokens) /\ Len(d[k].tokens) \in Nat
  BY <1>1 DEF Lines
<1>3. 0 \in S
  <2>1. n \in 0 .. n /\ n - 0 = n
    BY <1>1
  <2>2. Begins(d[n].tokens, d[n].tokens)
    BY <1>2, <2>1 DEF Begins
  <2>. QED  BY <2>1, <2>2
<1>4. ASSUME NEW j \in S PROVE j + 1 \in S
  <2>1. SUFFICES ASSUME j + 1 <= n PROVE Begins(d[n].tokens, d[n - (j + 1)].tokens)
    OBVIOUS
  <2>. DEFINE k == n - j
  <2>2. k \in 1 .. n /\ k - 1 = n - (j + 1) /\ k - 1 \in 0 .. n /\ k \in 0 .. n /\ n \in 0 .. n
    BY <1>1, <2>1
  <2>3. Begins(d[n].tokens, d[k].tokens)
    BY <2>1
  <2>. HIDE DEF k, n
  <2>4. d[k - 1] \in Lines /\ cells[k] \in Cells /\ d[k] = DrawCell(d[k - 1], cells[k])
    BY <1>1, <2>2 DEF Drawn, n
  <2>5. Begins(d[k].tokens, d[k - 1].tokens)
    BY <2>4, DrawCellFacts
  <2>6. d[n].tokens \in Seq(Tokens) /\ d[k].tokens \in Seq(Tokens) /\ d[k - 1].tokens \in Seq(Tokens)
    BY <1>2, <2>2
  <2>7. Begins(d[n].tokens, d[k - 1].tokens)
    BY <2>3, <2>5, <2>6, BeginsTransitive
  <2>. QED  BY <2>2, <2>7
<1>5. S = Nat
  <2>1. S \in SUBSET Nat
    OBVIOUS
  <2>. HIDE DEF S
  <2>. QED  BY <1>3, <1>4, <2>1, InductiveSet
<1>. QED  
  <2>1. SUFFICES ASSUME NEW k \in 0 .. n PROVE Begins(d[n].tokens, d[k].tokens)
    OBVIOUS
  <2>2. n - k \in Nat /\ n - k <= n /\ n - (n - k) = k
    BY <1>1
  <2>. QED  BY <1>5, <2>2

(* How a row is written (d), how much of it is kept (m) and how that is    *)
(* read (r, from the reset on).                                            *)
Traced(cells, d, m, r) ==
  LET all == d[Len(cells)].tokens
  IN  /\ Drawn(d, cells)
      /\ m \in 0 .. Len(all) /\ \A i \in m + 1 .. Len(all) : IsSpace(all[i])
      /\ r[1] = [cells |-> << >>, style |-> DefaultStyle]
      /\ \A i \in 1 .. m + 1 : r[i] \in Seen
      /\ \A i \in 1 .. m : r[i + 1] = Read(r[i], all[i])
      /\ Shown(Drawing(cells)) = r[m + 1].cells

LEMMA TraceExists ==
    ASSUME NEW cells \in Seq(Cells)
    PROVE  \E d, m, r : Traced(cells, d, m, r)
<1>1. PICK d : Drawn(d, cells) /\ DrawLine(cells) = Trimmed(d[Len(cells)].tokens)
  BY DrawFold
<1>. DEFINE n == Len(cells)
            all == d[n].tokens
<1>2. n \in Nat /\ d[n] \in Lines
  BY <1>1, DrawnType
<1>3. all \in Seq(Tokens) /\ Len(all) \in Nat
  BY <1>2 DEF Lines
<1>. HIDE DEF all
<1>4. PICK m \in 0 .. Len(all) :
        Trimmed(all) = SubSeq(all, 1, m) /\ \A i \in m + 1 .. Len(all) : IsSpace(all[i])
  BY <1>3, TrimmedFacts
<1>. DEFINE reset == << SgrToken(<< 0 >>) >>
            kept  == SubSeq(all, 1, m)
            whole == reset \o kept
<1>5. reset \in Seq(Tokens) /\ Len(reset) = 1 /\ reset[1] = SgrToken(<< 0 >>)
  BY TokenTypes
<1>6. m \in Nat /\ kept \in Seq(Tokens) /\ Len(kept) = m /\ \A i \in 1 .. m : kept[i] = all[i]
  BY <1>3, <1>4
<1>7. Drawing(cells) = whole
  BY <1>1, <1>4 DEF Drawing, all
<1>. HIDE DEF reset, kept
<1>8. /\ whole \in Seq(Tokens) /\ Len(whole) = Len(reset) + Len(kept)
      /\ \A k \in 1 .. Len(reset) : whole[k] = reset[k]
      /\ \A k \in 1 .. Len(kept) : whole[Len(reset) + k] = kept[k]
  <2>1. reset \in Seq(Tokens) /\ kept \in Seq(Tokens)
    BY <1>5, <1>6
  <2>. QED  BY <2>1, Joins
<1>. HIDE DEF whole
<1>9. PICK r : ReadSoFar(r, whole) /\ Shown(whole) = r[Len(whole)].cells
  BY <1>8, ReadFold
<1>10. Len(whole) = m + 1 /\ whole[1] = SgrToken(<< 0 >>) /\ \A i \in 1 .. m : whole[i + 1] = all[i]
  <2>1. 1 \in 1 .. Len(reset)
    BY <1>5
  <2>2. whole[1] = SgrToken(<< 0 >>) /\ Len(whole) = m + 1
    BY <1>5, <1>6, <1>8, <2>1
  <2>3. ASSUME NEW i \in 1 .. m PROVE whole[i + 1] = all[i]
    <3>1. 1 + i = i + 1
      OBVIOUS
    <3>. QED  BY <1>5, <1>6, <1>8, <3>1
  <2>. QED  BY <2>2, <2>3
<1>11. r[1] = [cells |-> << >>, style |-> DefaultStyle]
  <2>1. AppliedSgr(<< 0 >>, DefaultStyle, FALSE) = DefaultStyle
    <3>1. DefaultStyle \in Renditions /\ ~IsBright(DefaultStyle.fg) /\ ~IsBright(DefaultStyle.bg)
      BY ColorFacts DEF DefaultStyle, IsBright
    <3>2. SgrDiff(DefaultStyle, DefaultStyle) = << 0 >>
      BY DEF SgrDiff
    <3>3. AppliedSgr(SgrDiff(DefaultStyle, DefaultStyle), DefaultStyle, FALSE) = DefaultStyle
      BY <3>1, SgrDiffReads
    <3>. QED  BY <3>2, <3>3
  <2>2. 1 \in 1 .. Len(whole) /\ 1 - 1 = 0
    BY <1>6, <1>10
  <2>3. r[1] = Read(r[0], whole[1]) /\ r[0] = [cells |-> << >>, style |-> DefaultStyle]
    BY <1>9, <2>2 DEF ReadSoFar
  <2>4. Read([cells |-> << >>, style |-> DefaultStyle], SgrToken(<< 0 >>))
          = [cells |-> << >>, style |-> AppliedSgr(<< 0 >>, DefaultStyle, FALSE)]
    BY DEF Read, SgrToken
  <2>. QED  BY <1>10, <2>1, <2>3, <2>4
<1>12. \A i \in 1 .. m + 1 : r[i] \in Seen
  <2>1. \A i \in 0 .. Len(whole) : r[i] \in Seen
    BY <1>8, <1>9, ReadType
  <2>. QED  BY <1>6, <1>10, <2>1
<1>13. ASSUME NEW i \in 1 .. m PROVE r[i + 1] = Read(r[i], all[i])
  <2>. DEFINE j == i + 1
  <2>1. j \in 1 .. Len(whole) /\ j - 1 = i
    BY <1>6, <1>10
  <2>2. whole[j] = all[i]
    BY <1>10
  <2>. HIDE DEF j
  <2>3. r[j] = Read(r[j - 1], whole[j])
    BY <1>9, <2>1 DEF ReadSoFar
  <2>4. r[j] = Read(r[i], all[i])
    BY <2>1, <2>2, <2>3
  <2>. QED  BY <2>4 DEF j
<1>14. Shown(Drawing(cells)) = r[m + 1].cells
  BY <1>7, <1>9, <1>10
<1>15. Traced(cells, d, m, r)
  BY <1>1, <1>4, <1>11, <1>12, <1>13, <1>14 DEF Traced, all, n
<1>. QED  BY <1>15

(* The first m cells are seen as they are.                                 *)
Shows(seen, cells, m) == Len(seen) = m /\ \A c \in 1 .. m : seen[c] = Space(cells[c])

(* Where the cell after the first k is to be, or the one after a wide one. *)
Past(cells, k) == IF k > 0 /\ cells[k].width = 2 THEN k + 1 ELSE k

(* The cell after the first k is to be seen next, in the style it has.     *)
Meets(seen, cells, k) ==
  /\ Shows(seen.cells, cells, k) /\ k + 1 <= Len(cells)
  /\ cells[k + 1].width # 0 /\ seen.style = cells[k + 1].style

(* The next cell, and the other half of it if it is wide, have been seen.  *)
Follows(new, cells, k) ==
  new.style = cells[k + 1].style /\ Shows(new.cells, cells, Past(cells, k + 1))

\* The text of a cell puts the cell on the screen, and the second half of it if it is wide.
LEMMA TextShown ==
    ASSUME NEW cells \in Seq(Cells), Regular(cells), NEW k \in Nat, NEW seen \in Seen, Meets(seen, cells, k)
    PROVE  Follows(Read(seen, TextToken(cells[k + 1])), cells, k)
<1>. DEFINE n == Len(cells)
            j == k + 1
            h == k + 2
            cell == cells[j]
            rest == cells[h]
            token == TextToken(cell)
            new == Read(seen, token)
<1>1. n \in Nat /\ j \in 1 .. n /\ j > 0
  BY DEF Meets
<1>2. j \in Nat /\ h \in Nat /\ j + 1 = h /\ (j < n => h \in 1 .. n) /\ j = k + 1 /\ h = k + 2
  BY <1>1
<1>3. /\ Len(seen.cells) = k /\ \A c \in 1 .. k : seen.cells[c] = Space(cells[c])
      /\ cell.width # 0 /\ seen.style = cell.style
  BY DEF Meets, Shows
<1>4. \A c \in 1 .. n : cells[c] \in Cells
  OBVIOUS
<1>. HIDE DEF n, j, h, cell, rest, token, new
<1>5. cell \in Cells
  BY <1>1, <1>4 DEF cell
<1>6. /\ cell = [text |-> cell.text, style |-> cell.style, width |-> cell.width]
      /\ cell.width \in {1, 2}
  BY <1>3, <1>5 DEF Cells
<1>7. token \in Tokens
  BY <1>5, TokenTypes DEF token
<1>8. /\ ~token.sgr /\ token.width = cell.width
      /\ token.text = IF cell.text = "" THEN " " ELSE cell.text
  BY <1>6 DEF TextToken, token
<1>9. /\ new \in Seen /\ new.style = seen.style /\ Begins(new.cells, seen.cells)
      /\ Len(new.cells) = Len(seen.cells) + token.width
      /\ new.cells[Len(seen.cells) + 1] = Cell(token.text, seen.style, token.width)
      /\ (token.width = 2 => new.cells[Len(seen.cells) + 2] = Cell("", seen.style, 0))
  BY <1>7, <1>8, ReadFacts DEF new
<1>10. /\ new.style = cell.style /\ Len(new.cells) = k + cell.width
       /\ new.cells[j] = Cell(token.text, cell.style, cell.width)
       /\ (cell.width = 2 => new.cells[h] = Cell("", cell.style, 0))
  BY <1>2, <1>3, <1>8, <1>9
<1>11. \A c \in 1 .. k : new.cells[c] = Space(cells[c])
  BY <1>3, <1>9 DEF Begins
<1>12. ASSUME cell.width = 2
       PROVE  cell.text = "W" /\ h \in 1 .. n /\ rest = Cell("", cell.style, 0) /\ Space(rest) = rest
  <2>1. /\ cell.text = "W" /\ j < n
        /\ cells[j + 1].width = 0 /\ cells[j + 1].style = cell.style
    BY <1>1, <1>12 DEF Regular, n, cell
  <2>2. h \in 1 .. n
    BY <1>2, <2>1
  <2>3. rest.width = 0 /\ rest.style = cell.style /\ rest \in Cells
    BY <1>2, <1>4, <2>1, <2>2 DEF rest
  <2>4. rest.text = ""
    BY <2>2, <2>3 DEF Regular, n, rest
  <2>5. rest = [text |-> rest.text, style |-> rest.style, width |-> rest.width]
    BY <2>3 DEF Cells
  <2>6. rest = Cell("", cell.style, 0)
    BY <2>3, <2>4, <2>5 DEF Cell
  <2>7. Space(rest) = rest
    BY <2>3 DEF Space
  <2>. QED  BY <2>1, <2>2, <2>6, <2>7
<1>13. Cell(token.text, cell.style, cell.width) = Space(cell)
  <2>1. CASE cell.width = 1
    BY <1>6, <1>8, <2>1 DEF Space, Cell
  <2>2. CASE cell.width = 2
    <3>1. token.text = "W" /\ cell.text = "W"
      BY <1>8, <1>12, <2>2
    <3>2. Space(cell) = cell
      BY <3>1 DEF Space
    <3>. QED  BY <1>6, <2>2, <3>1, <3>2 DEF Cell
  <2>. QED  BY <1>6, <2>1, <2>2
<1>14. Shows(new.cells, cells, Past(cells, j))
  <2>1. CASE cell.width = 1
    <3>1. Past(cells, j) = j
      BY <2>1 DEF Past, cell
    <3>2. ASSUME NEW c \in 1 .. j PROVE new.cells[c] = Space(cells[c])
      <4>1. c \in 1 .. k \/ c = j
        BY <1>2
      <4>. QED  BY <1>10, <1>11, <1>13, <4>1 DEF cell
    <3>3. Len(new.cells) = j
      BY <1>2, <1>10, <2>1
    <3>. QED  BY <3>1, <3>2, <3>3 DEF Shows
  <2>2. CASE cell.width = 2
    <3>1. Past(cells, j) = h
      BY <1>1, <1>2, <2>2 DEF Past, cell
    <3>2. ASSUME NEW c \in 1 .. h PROVE new.cells[c] = Space(cells[c])
      <4>1. c \in 1 .. k \/ c = j \/ c = h
        BY <1>2
      <4>2. new.cells[j] = Space(cells[j])
        BY <1>10, <1>13 DEF cell
      <4>3. new.cells[h] = Space(cells[h])
        BY <1>10, <1>12, <2>2 DEF rest
      <4>. QED  BY <1>11, <4>1, <4>2, <4>3
    <3>3. Len(new.cells) = h
      BY <1>2, <1>10, <2>2
    <3>. QED  BY <3>1, <3>2, <3>3 DEF Shows
  <2>. QED  BY <1>6, <2>1, <2>2
<1>. QED  BY <1>10, <1>14 DEF Follows, new, token, cell, j

(* What cell k adds to what is written.                                    *)
Adds(cells, d, k) ==
  LET all == d[Len(cells)].tokens
      l   == Len(d[k - 1].tokens)
  IN  /\ l \in Nat /\ Len(d[k].tokens) \in Nat /\ Len(d[k].tokens) <= Len(all)
      /\ cells[k].width = 0 => d[k] = d[k - 1]
      /\ cells[k].width # 0 => d[k].active = cells[k].style
      /\ cells[k].width # 0 /\ cells[k].style = d[k - 1].active =>
           Len(d[k].tokens) = l + 1 /\ all[l + 1] = TextToken(cells[k])
      /\ cells[k].width # 0 /\ cells[k].style # d[k - 1].active =>
           /\ Len(d[k].tokens) = l + 2 /\ all[l + 2] = TextToken(cells[k])
           /\ all[l + 1] = SgrToken(SgrDiff(d[k - 1].active, cells[k].style))

LEMMA AddsOne ==
    ASSUME NEW cells \in Seq(Cells), NEW d, Drawn(d, cells), NEW k \in 1 .. Len(cells)
    PROVE  Adds(cells, d, k)
<1>. DEFINE n == Len(cells)
            all == d[n].tokens
            old == d[k - 1]
            now == d[k]
            l   == Len(old.tokens)
            cell == cells[k]
<1>1. k - 1 \in 0 .. n /\ k \in 0 .. n /\ n \in 0 .. n /\ cell \in Cells
  OBVIOUS
<1>2. old \in Lines /\ now \in Lines /\ d[n] \in Lines
  BY <1>1, DrawnType
<1>3. now = DrawCell(old, cell) /\ Begins(all, now.tokens)
  BY <1>1, DrawnBegins DEF Drawn
<1>4. now.tokens \in Seq(Tokens) /\ old.tokens \in Seq(Tokens) /\ all \in Seq(Tokens)
  BY <1>2 DEF Lines
<1>5. l \in Nat /\ Len(now.tokens) \in Nat /\ Len(all) \in Nat
  BY <1>4
<1>. HIDE DEF all, old, now, cell, n
<1>6. /\ cell.width = 0 => now = old
      /\ cell.width # 0 => now.active = cell.style
      /\ cell.width # 0 /\ cell.style = old.active =>
           Len(now.tokens) = l + 1 /\ now.tokens[l + 1] = TextToken(cell)
      /\ cell.width # 0 /\ cell.style # old.active =>
           /\ Len(now.tokens) = l + 2 /\ now.tokens[l + 2] = TextToken(cell)
           /\ now.tokens[l + 1] = SgrToken(SgrDiff(old.active, cell.style))
  BY <1>1, <1>2, <1>3, DrawCellFacts
<1>. HIDE DEF l
<1>7. Len(now.tokens) <= Len(all) /\ \A i \in 1 .. Len(now.tokens) : all[i] = now.tokens[i]
  BY <1>3 DEF Begins
<1>8. /\ Len(now.tokens) = l + 1 => all[l + 1] = now.tokens[l + 1]
      /\ Len(now.tokens) = l + 2 => all[l + 1] = now.tokens[l + 1] /\ all[l + 2] = now.tokens[l + 2]
  BY <1>5, <1>7
<1>9. /\ l \in Nat /\ Len(now.tokens) \in Nat /\ Len(now.tokens) <= Len(all)
      /\ cell.width = 0 => now = old
      /\ cell.width # 0 => now.active = cell.style
      /\ cell.width # 0 /\ cell.style = old.active =>
           Len(now.tokens) = l + 1 /\ all[l + 1] = TextToken(cell)
      /\ cell.width # 0 /\ cell.style # old.active =>
           /\ Len(now.tokens) = l + 2 /\ all[l + 2] = TextToken(cell)
           /\ all[l + 1] = SgrToken(SgrDiff(old.active, cell.style))
  BY <1>5, <1>6, <1>7, <1>8
<1>. QED  BY <1>9 DEF Adds, all, old, now, l, cell, n

(* What has been written for the first k cells has been read.              *)
Reached(cells, d, r, k) ==
  LET seen == r[Len(d[k].tokens) + 1]
  IN  seen.style = d[k].active /\ Shows(seen.cells, cells, Past(cells, k))

LEMMA ReachedFirst ==
    ASSUME NEW cells \in Seq(Cells), NEW d, NEW m, NEW r, Traced(cells, d, m, r)
    PROVE  Len(d[0].tokens) = 0 /\ Reached(cells, d, r, 0)
<1>1. d[0] = [tokens |-> << >>, active |-> DefaultStyle]
  BY DEF Traced, Drawn
<1>2. r[1] = [cells |-> << >>, style |-> DefaultStyle]
  BY DEF Traced
<1>3. Len(d[0].tokens) = 0 /\ d[0].active = DefaultStyle
  BY <1>1
<1>4. Shows(r[1].cells, cells, 0) /\ r[1].style = DefaultStyle
  BY <1>2 DEF Shows
<1>5. Len(d[0].tokens) + 1 = 1 /\ Past(cells, 0) = 0
  BY <1>3 DEF Past
<1>. QED  BY <1>3, <1>4, <1>5 DEF Reached

(* So has what is written for the first k, and the next is not trimmed.    *)
Keeps(cells, d, m, r, k) ==
  k + 1 <= Len(cells) /\ Len(d[k + 1].tokens) <= m /\ Reached(cells, d, r, k)

\* What is next to a cell of a row that is regular.
LEMMA RegularNext ==
    ASSUME NEW cells \in Seq(Cells), Regular(cells), NEW j \in 1 .. Len(cells)
    PROVE  /\ cells[j].width = 0 => j > 1 /\ cells[j - 1].width = 2
           /\ j > 1 /\ cells[j - 1].width = 2 => cells[j].width = 0
           /\ cells[j].width = 2 => cells[j].text = "W"
           /\ ~IsBright(cells[j].style.fg) /\ ~IsBright(cells[j].style.bg)
<1>. DEFINE n == Len(cells)
            k == j - 1
<1>1. n \in Nat /\ j \in 1 .. n /\ (j > 1 => k \in 1 .. n /\ k + 1 = j)
  OBVIOUS
<1>2. \A c \in 1 .. n :
        /\ ~IsBright(cells[c].style.fg) /\ ~IsBright(cells[c].style.bg)
        /\ cells[c].width = 2 => cells[c].text = "W" /\ c < n /\ cells[c + 1].width = 0
        /\ cells[c].width = 0 => cells[c].text = "" /\ c > 1 /\ cells[c - 1].width = 2
  BY DEF Regular
<1>. HIDE DEF n
<1>3. /\ cells[j].width = 0 => j > 1 /\ cells[j - 1].width = 2
      /\ cells[j].width = 2 => cells[j].text = "W"
      /\ ~IsBright(cells[j].style.fg) /\ ~IsBright(cells[j].style.bg)
  BY <1>1, <1>2
<1>. HIDE DEF k
<1>4. ASSUME j > 1, cells[k].width = 2 PROVE cells[j].width = 0
  <2>1. cells[k + 1].width = 0
    BY <1>1, <1>2, <1>4
  <2>. QED  BY <1>1, <1>4, <2>1
<1>. QED  BY <1>3, <1>4 DEF k

LEMMA ReachedNext ==
    ASSUME NEW cells \in Seq(Cells), Regular(cells), NEW d, NEW m, NEW r, Traced(cells, d, m, r),
           NEW k \in Nat, Keeps(cells, d, m, r, k)
    PROVE  Reached(cells, d, r, k + 1)
<1>. DEFINE n == Len(cells)
            j == k + 1
            all == d[n].tokens
            cell == cells[j]
            old == d[k]
            now == d[j]
            l == Len(old.tokens)
            e == Len(now.tokens)
<1>1. n \in Nat /\ j \in 1 .. n /\ j - 1 = k /\ j > 0 /\ k \in 0 .. n /\ j \in 0 .. n /\ j = k + 1
  BY DEF Keeps
<1>2. /\ Drawn(d, cells) /\ m \in 0 .. Len(all) /\ \A i \in 1 .. m + 1 : r[i] \in Seen
      /\ \A i \in 1 .. m : r[i + 1] = Read(r[i], all[i])
  BY DEF Traced
<1>3. e <= m /\ r[l + 1].style = old.active /\ Shows(r[l + 1].cells, cells, Past(cells, k))
  BY DEF Keeps, Reached
<1>4. old \in Lines /\ now \in Lines
  BY <1>1, <1>2, DrawnType
<1>5. cell \in Cells
  BY <1>1
<1>6. Adds(cells, d, j)
  BY <1>1, <1>2, AddsOne
<1>7. /\ cell.width = 0 => k > 0 /\ cells[k].width = 2
      /\ k > 0 /\ cells[k].width = 2 => cell.width = 0
      /\ cell.width = 2 => cell.text = "W"
      /\ ~IsBright(cell.style.fg) /\ ~IsBright(cell.style.bg)
  <2>1. /\ cell.width = 0 => j > 1 /\ cells[j - 1].width = 2
        /\ j > 1 /\ cells[j - 1].width = 2 => cell.width = 0
        /\ cell.width = 2 => cell.text = "W"
        /\ ~IsBright(cell.style.fg) /\ ~IsBright(cell.style.bg)
    BY <1>1, RegularNext
  <2>2. j > 1 <=> k > 0
    BY <1>1
  <2>. HIDE DEF j, cell
  <2>. QED  BY <1>1, <2>1, <2>2
<1>. HIDE DEF all, cell, old, now, j, n, l, e
<1>8. cell.style \in Renditions /\ old.active \in Renditions
  BY <1>4, <1>5 DEF Cells, Lines
<1>9. /\ l \in Nat /\ e \in Nat
      /\ cell.width = 0 => now = old
      /\ cell.width # 0 => now.active = cell.style
      /\ cell.width # 0 /\ cell.style = old.active => e = l + 1 /\ all[l + 1] = TextToken(cell)
      /\ cell.width # 0 /\ cell.style # old.active =>
           /\ e = l + 2 /\ all[l + 2] = TextToken(cell)
           /\ all[l + 1] = SgrToken(SgrDiff(old.active, cell.style))
  BY <1>1, <1>6 DEF Adds, all, cell, old, now, j, n, l, e
<1>10. m \in Nat
  BY <1>2
<1>11. ASSUME r[e + 1].style = now.active, Shows(r[e + 1].cells, cells, Past(cells, j))
       PROVE  Reached(cells, d, r, j)
  BY <1>11 DEF Reached, now, e
<1>12. CASE cell.width = 0
  <2>1. Past(cells, k) = j /\ Past(cells, j) = j
    BY <1>1, <1>7, <1>12 DEF Past, cell
  <2>2. now = old /\ e = l
    BY <1>9, <1>12 DEF l, e
  <2>. QED  BY <1>3, <1>11, <2>1, <2>2 DEF j
<1>13. ASSUME cell.width # 0, NEW seen \in Seen, Shows(seen.cells, cells, k), seen.style = cell.style
       PROVE  /\ Read(seen, TextToken(cell)).style = cell.style
              /\ Shows(Read(seen, TextToken(cell)).cells, cells, Past(cells, j))
  <2>1. Meets(seen, cells, k)
    BY <1>1, <1>13 DEF Meets, cell, j, n
  <2>2. Follows(Read(seen, TextToken(cells[k + 1])), cells, k)
    BY <2>1, TextShown
  <2>. QED  BY <2>2 DEF Follows, cell, j
<1>14. ASSUME cell.width # 0 PROVE Past(cells, k) = k
  BY <1>7, <1>14 DEF Past
<1>15. CASE cell.width # 0 /\ cell.style = old.active
  <2>. DEFINE i == l + 1
  <2>1. e = i /\ all[i] = TextToken(cell) /\ now.active = cell.style
    BY <1>9, <1>15
  <2>2. i \in 1 .. m /\ i \in 1 .. m + 1
    BY <1>3, <1>9, <1>10, <2>1
  <2>3. r[i].style = old.active /\ Shows(r[i].cells, cells, k)
    BY <1>3, <1>14, <1>15
  <2>. HIDE DEF i
  <2>4. r[i] \in Seen /\ r[i + 1] = Read(r[i], TextToken(cell))
    BY <1>2, <2>1, <2>2
  <2>5. /\ Read(r[i], TextToken(cell)).style = cell.style
        /\ Shows(Read(r[i], TextToken(cell)).cells, cells, Past(cells, j))
    BY <1>13, <1>15, <2>3, <2>4
  <2>. QED  BY <1>11, <2>1, <2>4, <2>5 DEF j
<1>16. CASE cell.width # 0 /\ cell.style # old.active
  <2>. DEFINE sgr == SgrDiff(old.active, cell.style)
              i == l + 1
              h == l + 2
              before == r[i]
              mid == r[h]
  <2>1. e = h /\ all[h] = TextToken(cell) /\ now.active = cell.style /\ all[i] = SgrToken(sgr)
    BY <1>9, <1>16
  <2>2. i \in 1 .. m /\ h \in 1 .. m /\ i \in 1 .. m + 1 /\ h \in 1 .. m + 1 /\ i + 1 = h
    <3>1. l + 2 <= m /\ l \in Nat /\ m \in Nat
      BY <1>3, <1>9, <1>10, <2>1
    <3>. QED  BY <3>1
  <2>3. before.style = old.active /\ Shows(before.cells, cells, k)
    BY <1>3, <1>14, <1>16
  <2>. HIDE DEF h, i, sgr
  <2>4. /\ before \in Seen /\ mid \in Seen
        /\ mid = Read(before, SgrToken(sgr)) /\ r[h + 1] = Read(mid, TextToken(cell))
    BY <1>2, <2>1, <2>2
  <2>. HIDE DEF mid, before
  <2>5. Read(before, SgrToken(sgr)) = [before EXCEPT !.style = AppliedSgr(sgr, before.style, FALSE)]
    BY DEF Read, SgrToken
  <2>6. AppliedSgr(sgr, before.style, FALSE) = cell.style
    BY <1>7, <1>8, <2>3, SgrDiffReads DEF sgr
  <2>7. mid.style = cell.style /\ mid.cells = before.cells
    BY <2>4, <2>5, <2>6 DEF Seen
  <2>8. mid.style = cell.style /\ Shows(mid.cells, cells, k)
    BY <2>3, <2>7
  <2>9. /\ Read(mid, TextToken(cell)).style = cell.style
        /\ Shows(Read(mid, TextToken(cell)).cells, cells, Past(cells, j))
    BY <1>13, <1>16, <2>4, <2>8
  <2>. QED  BY <1>11, <2>1, <2>4, <2>9 DEF j
<1>. QED  BY <1>12, <1>15, <1>16 DEF j

\* Everything that is kept is read.
LEMMA ReachedAll ==
    ASSUME NEW cells \in Seq(Cells), Regular(cells), NEW d, NEW m, NEW r, Traced(cells, d, m, r)
    PROVE  \A k \in 0 .. Len(cells) : Len(d[k].tokens) <= m => Reached(cells, d, r, k)
<1>. DEFINE n == Len(cells)
            S == {k \in Nat : k <= n /\ Len(d[k].tokens) <= m => Reached(cells, d, r, k)}
<1>1. 0 \in S
  BY ReachedFirst
<1>2. ASSUME NEW k \in S PROVE k + 1 \in S
  <2>1. SUFFICES ASSUME k + 1 <= n, Len(d[k + 1].tokens) <= m PROVE Reached(cells, d, r, k + 1)
    OBVIOUS
  <2>2. k \in Nat /\ k + 1 \in 1 .. n /\ (k + 1) - 1 = k /\ k <= n
    BY <2>1
  <2>3. Len(d[k].tokens) <= Len(d[k + 1].tokens) /\ Len(d[k].tokens) \in Nat
        /\ Len(d[k + 1].tokens) \in Nat /\ m \in Nat
    <3>1. Adds(cells, d, k + 1)
      BY <2>2, AddsOne DEF Traced
    <3>2. m \in Nat
      BY DEF Traced
    <3>. QED  BY <2>2, <3>1, <3>2 DEF Adds
  <2>4. Reached(cells, d, r, k)
    BY <2>1, <2>2, <2>3
  <2>5. Keeps(cells, d, m, r, k)
    BY <2>1, <2>4 DEF Keeps
  <2>. QED  BY <2>2, <2>5, ReachedNext
<1>3. S = Nat
  <2>1. S \in SUBSET Nat
    OBVIOUS
  <2>. HIDE DEF S
  <2>. QED  BY <1>1, <1>2, <2>1, InductiveSet
<1>. QED  BY <1>3

(* What is shown are the cells, up to spaces of one style at the end.      *)
Matches(shown, cells) ==
  \E e \in 0 .. Len(cells) :
    /\ shown \in Seq(Cells) /\ Shows(shown, cells, e)
    /\ \A c \in e + 1 .. Len(cells) : /\ cells[c].text \in {"", " "} /\ cells[c].width = 1
                                      /\ cells[c].style = cells[e + 1].style

(* Cell k is a space, and is trimmed, in the style that was set last.      *)
Blanks(cells, d, m, style, k) ==
  /\ cells[k].text \in {"", " "} /\ cells[k].width = 1
  /\ cells[k].style = style /\ d[k].active = style /\ Len(d[k].tokens) > m

\* Past a cell that is trimmed come spaces of the same style.
LEMMA TrimmedCell ==
    ASSUME NEW cells \in Seq(Cells), Regular(cells), NEW d, NEW m, NEW r, Traced(cells, d, m, r),
           NEW j \in 2 .. Len(cells), NEW style, Blanks(cells, d, m, style, j - 1)
    PROVE  Blanks(cells, d, m, style, j)
<1>. DEFINE n == Len(cells)
            all == d[n].tokens
            cell == cells[j]
            k == j - 1
            old == d[k]
            now == d[j]
            l == Len(old.tokens)
            e == Len(now.tokens)
            s == Len(all)
<1>0. j \in 1 .. Len(cells) /\ j > 1
  OBVIOUS
<1>1. Drawn(d, cells) /\ m \in 0 .. s /\ \A i \in m + 1 .. s : IsSpace(all[i])
  BY DEF Traced
<1>2. Adds(cells, d, j)
  BY <1>0, <1>1, AddsOne
<1>3. cell \in Cells
  BY <1>0
<1>4. /\ cell.width = 0 => cells[k].width = 2
      /\ cell.width = 2 => cell.text = "W"
  BY <1>0, RegularNext
<1>5. cells[k].width = 1 /\ old.active = style /\ l > m
  BY DEF Blanks
<1>. HIDE DEF all, cell, old, now, n, l, e, s, k
<1>6. cell.width # 0 /\ cell.width \in {0, 1, 2}
  <2>1. cell.width \in {0, 1, 2}
    BY <1>3 DEF Cells
  <2>. QED  BY <1>4, <1>5, <2>1
<1>7. /\ l \in Nat /\ e \in Nat /\ e <= s /\ now.active = cell.style
      /\ cell.style = old.active => e = l + 1 /\ all[l + 1] = TextToken(cell)
      /\ cell.style # old.active =>
           e = l + 2 /\ all[l + 1] = SgrToken(SgrDiff(old.active, cell.style))
  BY <1>2, <1>6 DEF Adds, all, cell, old, now, n, l, e, s, k
<1>8. (e = l + 1 \/ e = l + 2) /\ m \in Nat /\ s \in Nat
  BY <1>1, <1>7 DEF s
<1>9. l + 1 \in m + 1 .. s /\ e > m
  BY <1>5, <1>7, <1>8
<1>10. IsSpace(all[l + 1])
  BY <1>1, <1>9
<1>11. cell.style = old.active
  <2>1. ASSUME NEW p PROVE ~IsSpace(SgrToken(p))
    BY DEF IsSpace, SgrToken
  <2>. QED  BY <1>7, <1>10, <2>1
<1>12. IsSpace(TextToken(cell))
  BY <1>7, <1>10, <1>11
<1>13. cell.text \in {"", " "}
  BY <1>12 DEF IsSpace, TextToken
<1>14. cell.width = 1
  BY <1>4, <1>6, <1>13
<1>15. cell.style = style /\ now.active = style
  BY <1>5, <1>7, <1>11
<1>. QED  BY <1>9, <1>13, <1>14, <1>15 DEF Blanks, cell, now, e

\* A row is seen as it is.
LEMMA RowIsSeen ==
    ASSUME NEW cells \in Seq(Cells), Regular(cells)
    PROVE  Matches(Shown(Drawing(cells)), cells)
<1>1. PICK d, m, r : Traced(cells, d, m, r)
  BY TraceExists
<1>. DEFINE n == Len(cells)
            all == d[n].tokens
            L(k) == Len(d[k].tokens)
            shown == Shown(Drawing(cells))
<1>2. /\ Drawn(d, cells) /\ m \in 0 .. Len(all) /\ \A i \in m + 1 .. Len(all) : IsSpace(all[i])
      /\ \A i \in 1 .. m + 1 : r[i] \in Seen
      /\ \A i \in 1 .. m : r[i + 1] = Read(r[i], all[i])
      /\ shown = r[m + 1].cells
  BY <1>1 DEF Traced
<1>3. n \in Nat /\ \A k \in 0 .. n : L(k) \in Nat
  <2>1. \A k \in 0 .. n : d[k] \in Lines
    BY <1>2, DrawnType
  <2>. QED  BY <2>1 DEF Lines
<1>4. m + 1 \in 1 .. m + 1 /\ m \in Nat
  BY <1>2, <1>3
<1>5. shown \in Seq(Cells)
  BY <1>2, <1>4 DEF Seen
<1>. HIDE DEF shown
<1>6. \A k \in 0 .. n : L(k) <= m => Reached(cells, d, r, k)
  BY <1>1, ReachedAll
<1>7. \A k \in 1 .. n : Adds(cells, d, k)
  BY <1>2, AddsOne
<1>8. L(0) = 0
  BY <1>1, ReachedFirst
<1>9. CASE L(n) <= m
  <2>1. L(n) = m
    BY <1>2, <1>3, <1>9
  <2>2. Shows(shown, cells, Past(cells, n))
    <3>1. n \in 0 .. n
      BY <1>3
    <3>. QED  BY <1>2, <1>6, <1>9, <2>1, <3>1 DEF Reached
  <2>3. Past(cells, n) = n
    <3>1. ASSUME n > 0 PROVE cells[n].width # 2
      <4>1. n \in 1 .. n
        BY <1>3, <3>1
      <4>2. cells[n].width = 2 => n < n
        BY <4>1 DEF Regular
      <4>. HIDE DEF n
      <4>. QED  BY <1>3, <4>2
    <3>. QED  BY <3>1 DEF Past
  <2>4. Shows(shown, cells, n) /\ n \in 0 .. n
    BY <1>3, <2>2, <2>3
  <2>5. \A c \in n + 1 .. n : FALSE
    BY <1>3
  <2>. QED  BY <1>5, <2>4, <2>5 DEF Matches, n, shown
<1>10. CASE L(n) > m
  <2>. DEFINE Over == {k \in Nat : k <= n /\ L(k) > m}
  <2>1. n \in Over
    BY <1>3, <1>10
  <2>2. PICK K \in Over : \A k \in Over : K <= k
    <3>1. Over \in SUBSET Nat /\ Over # {}
      BY <2>1
    <3>. HIDE DEF Over
    <3>. QED  BY <3>1, LeastNat
  <2>3. K \in 1 .. n /\ L(K) > m
    BY <1>4, <1>8, <2>2
  <2>. DEFINE e == K - 1
  <2>4. e \in 0 .. n /\ L(e) <= m /\ e \notin Over /\ e + 1 = K
    BY <1>3, <1>4, <2>2, <2>3
  <2>5. cells[K] \in Cells /\ Adds(cells, d, K)
    BY <1>7, <2>3
  <2>. DEFINE cell == cells[K]
              l == L(e)
  <2>6. /\ cell.width \in {0, 1, 2} /\ (cell.width = 2 => cell.text = "W")
        /\ (e > 0 /\ cells[e].width = 2 => cell.width = 0)
    <3>1. cell.width \in {0, 1, 2}
      BY <2>5 DEF Cells
    <3>2. (cell.width = 2 => cell.text = "W") /\ (K > 1 /\ cells[e].width = 2 => cell.width = 0)
      BY <2>3, RegularNext
    <3>3. e > 0 => K > 1
      BY <2>3
    <3>. HIDE DEF cell, e
    <3>. QED  BY <3>1, <3>2, <3>3
  <2>. HIDE DEF Over, e
  <2>7. /\ l \in Nat /\ L(K) \in Nat /\ L(K) <= Len(all)
        /\ cell.width = 0 => d[K] = d[e]
        /\ cell.width # 0 => d[K].active = cell.style
        /\ cell.width # 0 /\ cell.style = d[e].active => L(K) = l + 1 /\ all[l + 1] = TextToken(cell)
        /\ cell.width # 0 /\ cell.style # d[e].active =>
             /\ L(K) = l + 2 /\ all[l + 2] = TextToken(cell)
             /\ all[l + 1] = SgrToken(SgrDiff(d[e].active, cell.style))
    BY <2>5 DEF Adds, e
  <2>. HIDE DEF all, cell, L, n, l
  <2>8. cell.width # 0
    <3>1. cell.width = 0 => L(K) = L(e)
      BY <2>7 DEF L
    <3>2. L(e) \in Nat /\ L(K) \in Nat /\ L(e) <= m /\ L(K) > m
      BY <1>3, <2>3, <2>4, <2>7 DEF l
    <3>. QED  BY <1>4, <3>1, <3>2
  <2>9. l <= m
    BY <2>4 DEF l
  <2>10. L(K) \in m + 1 .. Len(all)
    BY <1>4, <2>3, <2>7
  <2>11. all[L(K)] = TextToken(cell)
    BY <2>7, <2>8
  <2>12. cell.text \in {"", " "} /\ cell.width = 1
    <3>1. IsSpace(TextToken(cell))
      BY <1>2, <2>10, <2>11
    <3>2. cell.text \in {"", " "}
      BY <3>1 DEF IsSpace, TextToken
    <3>. QED  BY <2>6, <2>8, <3>2
  <2>13. Shows(shown, cells, e)
    <3>1. Past(cells, e) = e
      BY <2>6, <2>8 DEF Past
    <3>2. Shows(r[l + 1].cells, cells, e)
      BY <1>6, <2>4, <3>1 DEF Reached, l, L
    <3>3. CASE m = l
      BY <1>2, <3>2, <3>3
    <3>4. CASE m # l
      <4>1. m = l + 1 /\ L(K) = l + 2 /\ all[l + 1] = SgrToken(SgrDiff(d[e].active, cell.style))
        BY <1>4, <2>3, <2>7, <2>8, <2>9, <3>4
      <4>2. m \in 1 .. m
        BY <1>4, <2>7, <4>1
      <4>3. r[m + 1] = Read(r[m], all[m])
        BY <1>2, <4>2
      <4>. DEFINE token == SgrToken(SgrDiff(d[e].active, cell.style))
      <4>4. token.sgr
        BY DEF SgrToken
      <4>5. Read(r[m], token).cells = r[m].cells
        <5>1. m \in 1 .. m + 1
          BY <1>4, <4>2
        <5>2. r[m] \in Seen
          BY <1>2, <5>1
        <5>. HIDE DEF token
        <5>. QED  BY <4>4, <5>2 DEF Read, Seen
      <4>. HIDE DEF token
      <4>6. all[m] = token
        BY <4>1 DEF token
      <4>7. shown = r[m].cells
        BY <1>2, <4>3, <4>5, <4>6
      <4>. QED  BY <3>2, <4>1, <4>7
    <3>. QED  BY <3>3, <3>4
  <2>14. \A c \in K .. n : Blanks(cells, d, m, cell.style, c)
    <3>. DEFINE S == {i \in Nat : K + i <= n => Blanks(cells, d, m, cell.style, K + i)}
    <3>1. 0 \in S
      <4>1. Blanks(cells, d, m, cell.style, K)
        BY <2>3, <2>7, <2>8, <2>12 DEF Blanks, cell, L
      <4>2. K + 0 = K
        BY <2>3
      <4>. QED  BY <4>1, <4>2
    <3>2. ASSUME NEW i \in S PROVE i + 1 \in S
      <4>. DEFINE j == K + (i + 1)
      <4>1. SUFFICES ASSUME j <= n PROVE Blanks(cells, d, m, cell.style, j)
        OBVIOUS
      <4>2. j \in 2 .. n /\ j - 1 = K + i /\ K + i <= n
        BY <1>3, <2>3, <4>1
      <4>3. Blanks(cells, d, m, cell.style, K + i)
        BY <4>2
      <4>. HIDE DEF j, S
      <4>4. j \in 2 .. Len(cells) /\ Blanks(cells, d, m, cell.style, j - 1)
        BY <4>2, <4>3 DEF n
      <4>. QED  BY <1>1, <4>4, TrimmedCell
    <3>3. S = Nat
      <4>1. S \in SUBSET Nat
        OBVIOUS
      <4>. HIDE DEF S
      <4>. QED  BY <3>1, <3>2, <4>1, InductiveSet
    <3>4. SUFFICES ASSUME NEW c \in K .. n PROVE Blanks(cells, d, m, cell.style, c)
      OBVIOUS
    <3>5. c - K \in Nat /\ K + (c - K) = c /\ c <= n
      BY <1>3, <2>3
    <3>. QED  BY <3>3, <3>5
  <2>15. \A c \in e + 1 .. n : /\ cells[c].text \in {"", " "} /\ cells[c].width = 1
                               /\ cells[c].style = cells[e + 1].style
    BY <2>4, <2>14 DEF Blanks, cell
  <2>. QED  BY <1>5, <2>4, <2>13, <2>15 DEF Matches, n, shown
<1>. QED  
  <2>1. n \in 0 .. n
    BY <1>3
  <2>2. L(n) \in Nat
    BY <1>3, <2>1
  <2>. HIDE DEF L, n
  <2>. QED  BY <1>4, <1>9, <1>10, <2>2 DEF shown

-----------------------------------------------------------------------------
(* The row of a window.                                                    *)

(* What a cell says of itself, and two cells of each other.                *)
Whole(cell)        == (cell.width = 2 => cell.text = "W") /\ (cell.width = 0 => cell.text = "")
Alike(cell, other) == cell.width = 2 /\ other.width = 0 => other.style = cell.style

(* The two halves of a wide character are written in one style.            *)
RowInv ==
  /\ row \in [1 .. Columns -> Cells]
  /\ \A c \in 1 .. Columns : Whole(row[c])
  /\ \A c \in 1 .. Columns - 1 : Alike(row[c], row[c + 1])

LEMMA RowStarts == RowInit => RowInv
<1>. SUFFICES ASSUME RowInit PROVE RowInv
  OBVIOUS
<1>. DEFINE blank == Blank(DefaultStyle)
<1>1. Columns \in Nat \ {0} /\ DefaultStyle \in Renditions
  BY RedrawAssumption
<1>2. blank \in Cells /\ blank.width = 1
  BY <1>1 DEF Blank, Cell, Cells
<1>3. row = [c \in 1 .. Columns |-> blank]
  BY DEF RowInit
<1>. HIDE DEF blank
<1>4. Whole(blank) /\ Alike(blank, blank)
  BY <1>2 DEF Whole, Alike
<1>5. row \in [1 .. Columns -> Cells] /\ \A c \in 1 .. Columns : row[c] = blank
  BY <1>2, <1>3
<1>6. \A c \in 1 .. Columns - 1 : c \in 1 .. Columns /\ c + 1 \in 1 .. Columns
  BY <1>1
<1>. QED  BY <1>4, <1>5, <1>6 DEF RowInv

\* A narrow cell in place of what was there.
LEMMA NarrowStep ==
    ASSUME RowInv, NEW c \in 1 .. Columns, NEW new \in Cells, new.width = 1,
           row' = [row EXCEPT ![c] = new]
    PROVE  RowInv'
<1>1. Columns \in Nat \ {0}
  BY RedrawAssumption
<1>2. row' \in [1 .. Columns -> Cells] /\ \A k \in 1 .. Columns : row'[k] = IF k = c THEN new ELSE row[k]
  BY DEF RowInv
<1>3. Whole(new) /\ \A cell : Alike(new, cell) /\ Alike(cell, new)
  BY DEF Whole, Alike
<1>4. ASSUME NEW k \in 1 .. Columns PROVE Whole(row'[k])
  BY <1>2, <1>3, <1>4 DEF RowInv
<1>5. ASSUME NEW k \in 1 .. Columns - 1 PROVE Alike(row'[k], row'[k + 1])
  <2>. DEFINE h == k + 1
  <2>1. h \in 1 .. Columns /\ k \in 1 .. Columns
    BY <1>1
  <2>2. Alike(row[k], row[h])
    BY DEF RowInv
  <2>. HIDE DEF h
  <2>3. Alike(row'[k], row'[h])
    BY <1>2, <1>3, <2>1, <2>2
  <2>. QED  BY <2>3 DEF h
<1>. QED  BY <1>2, <1>4, <1>5 DEF RowInv

LEMMA RowStep == RowInv /\ [RowNext]_row => RowInv'
<1>. SUFFICES ASSUME RowInv, [RowNext]_row PROVE RowInv'
  OBVIOUS
<1>0. Columns \in Nat \ {0} /\ Styles \subseteq Renditions
  BY RedrawAssumption
<1>1. ASSUME NEW c \in 1 .. Columns, NEW text \in Texts, NEW style \in Styles, Write(c, text, style)
      PROVE  RowInv'
  <2>1. Cell(text, style, 1) \in Cells /\ Cell(text, style, 1).width = 1
    BY <1>0 DEF Cell, Cells
  <2>. QED  BY <1>1, <2>1, NarrowStep DEF Write
<1>2. ASSUME NEW c \in 1 .. Columns, NEW style \in Styles, WriteWide(c, style)
      PROVE  RowInv'
  <2>. DEFINE wide == Cell("W", style, 2)
              rest == Cell("", style, 0)
              next == c + 1
  <2>1. wide \in Cells /\ rest \in Cells
    BY <1>0 DEF Cell, Cells
  <2>2. Whole(wide) /\ Whole(rest) /\ Alike(wide, rest) /\ \A cell : Alike(rest, cell) /\ Alike(cell, wide)
    <3>0. 2 # 0
      OBVIOUS
    <3>1. wide.width = 2 /\ wide.text = "W" /\ wide.style = style
      BY DEF Cell
    <3>2. rest.width = 0 /\ rest.text = "" /\ rest.style = style
      BY DEF Cell
    <3>. HIDE DEF wide, rest
    <3>3. Whole(wide) /\ Whole(rest) /\ Alike(wide, rest)
      BY <3>0, <3>1, <3>2, Zenon DEF Whole, Alike
    <3>4. \A cell : Alike(rest, cell) /\ Alike(cell, wide)
      BY <3>0, <3>1, <3>2, Zenon DEF Alike
    <3>. QED  BY <3>3, <3>4
  <2>3. row' = [k \in 1 .. Columns |-> CASE k = c -> wide [] k = next -> rest [] OTHER -> row[k]]
    BY <1>2 DEF WriteWide
  <2>. HIDE DEF wide, rest
  <2>4. c # next /\ c \in Int
    OBVIOUS
  <2>. HIDE DEF next
  <2>5. \A k \in 1 .. Columns :
          row'[k] = IF k = c THEN wide ELSE IF k = next THEN rest ELSE row[k]
    <3>1. SUFFICES ASSUME NEW k \in 1 .. Columns
                   PROVE  row'[k] = IF k = c THEN wide ELSE IF k = next THEN rest ELSE row[k]
      OBVIOUS
    <3>2. row'[k] = CASE k = c -> wide [] k = next -> rest [] OTHER -> row[k]
      BY <2>3
    <3>. QED  BY <2>4, <3>2
  <2>6. row' \in [1 .. Columns -> Cells]
    <3>1. row' = [k \in 1 .. Columns |-> row'[k]]
      BY <2>3
    <3>2. \A k \in 1 .. Columns : row'[k] \in Cells
      BY <2>1, <2>5 DEF RowInv
    <3>. QED  BY <3>1, <3>2
  <2>7. ASSUME NEW k \in 1 .. Columns PROVE Whole(row'[k])
    BY <2>2, <2>5, <2>7 DEF RowInv
  <2>8. ASSUME NEW k \in 1 .. Columns - 1 PROVE Alike(row'[k], row'[k + 1])
    <3>. DEFINE h == k + 1
    <3>1. h \in 1 .. Columns /\ k \in 1 .. Columns
      BY <1>0
    <3>2. Alike(row[k], row[h])
      BY DEF RowInv
    <3>3. (k = c <=> h = next) /\ k # h
      BY <2>4 DEF next
    <3>. HIDE DEF h
    <3>4. Alike(row'[k], row'[h])
      <4>1. CASE k = c
        <5>1. row'[k] = wide /\ row'[h] = rest
          BY <2>4, <2>5, <3>1, <3>3, <4>1
        <5>. QED  BY <2>2, <5>1
      <4>2. CASE h = c
        <5>1. row'[h] = wide
          BY <2>5, <3>1, <4>2
        <5>. QED  BY <2>2, <5>1
      <4>3. CASE k = next
        <5>1. row'[k] = rest
          BY <2>4, <2>5, <3>1, <4>3
        <5>. QED  BY <2>2, <5>1
      <4>4. CASE k # c /\ h # c /\ k # next
        <5>1. row'[k] = row[k] /\ row'[h] = row[h]
          BY <2>5, <3>1, <3>3, <4>4
        <5>. QED  BY <3>2, <5>1
      <4>. QED  BY <4>1, <4>2, <4>3, <4>4
    <3>. QED  BY <3>4 DEF h
  <2>. QED  BY <2>6, <2>7, <2>8 DEF RowInv
<1>3. ASSUME NEW c \in 1 .. Columns, NEW style \in Styles, Erase(c, style)
      PROVE  RowInv'
  <2>1. Blank(style) \in Cells /\ Blank(style).width = 1
    BY <1>0 DEF Blank, Cell, Cells
  <2>. QED  BY <1>3, <2>1, NarrowStep DEF Erase
<1>4. CASE UNCHANGED row
  BY <1>4 DEF RowInv
<1>. QED  BY <1>1, <1>2, <1>3, <1>4 DEF RowNext

LEMMA RowShows == RowInv => RedrawShows
<1>. SUFFICES ASSUME RowInv, Intact, ~HasBright
              PROVE  /\ Len(Shown(Drawing(row))) <= Columns
                     /\ \A c \in 1 .. Columns :
                          \/ SeenAt(c) = Space(row[c])
                          \/ AtEnd(c) /\ SeenAt(c) = Cell(" ", DefaultStyle, 1)
  BY DEF RedrawShows
<1>1. Columns \in Nat /\ row \in [1 .. Columns -> Cells]
  BY RedrawAssumption DEF RowInv
<1>2. row \in Seq(Cells) /\ Len(row) = Columns
  BY <1>1
<1>3. Regular(row)
  <2>1. SUFFICES ASSUME NEW c \in 1 .. Columns
        PROVE  /\ ~IsBright(row[c].style.fg) /\ ~IsBright(row[c].style.bg)
               /\ row[c].width = 2 => /\ row[c].text = "W" /\ c < Columns
                                      /\ row[c + 1].width = 0 /\ row[c + 1].style = row[c].style
               /\ row[c].width = 0 => row[c].text = "" /\ c > 1 /\ row[c - 1].width = 2
    BY <1>2 DEF Regular
  <2>2. ~IsBright(row[c].style.fg) /\ ~IsBright(row[c].style.bg)
    BY DEF HasBright
  <2>3. Whole(row[c])
    BY DEF RowInv
  <2>4. ASSUME row[c].width = 2
        PROVE  /\ row[c].text = "W" /\ c < Columns
               /\ row[c + 1].width = 0 /\ row[c + 1].style = row[c].style
    <3>1. c < Columns /\ row[c + 1].width = 0
      BY <2>4 DEF Intact
    <3>2. c \in 1 .. Columns - 1
      BY <1>1, <3>1
    <3>3. Alike(row[c], row[c + 1])
      BY <3>2 DEF RowInv
    <3>. QED  BY <2>3, <2>4, <3>1, <3>3 DEF Whole, Alike
  <2>5. row[c].width = 0 => row[c].text = "" /\ c > 1 /\ row[c - 1].width = 2
    BY <2>3 DEF Intact, Whole
  <2>. QED  BY <2>2, <2>4, <2>5
<1>. DEFINE shown == Shown(Drawing(row))
<1>. HIDE DEF shown
<1>4. PICK e \in 0 .. Columns :
        /\ shown \in Seq(Cells) /\ Shows(shown, row, e)
        /\ \A c \in e + 1 .. Columns : /\ row[c].text \in {"", " "} /\ row[c].width = 1
                                       /\ row[c].style = row[e + 1].style
  BY <1>2, <1>3, RowIsSeen DEF Matches, shown
<1>5. e \in Nat /\ e <= Columns
  BY <1>1
<1>6. Len(shown) = e /\ \A c \in 1 .. e : shown[c] = Space(row[c])
  BY <1>4 DEF Shows
<1>7. DOMAIN shown = 1 .. e
  <2>1. shown \in Seq(Cells)
    BY <1>4
  <2>2. DOMAIN shown = 1 .. Len(shown)
    BY <2>1
  <2>. QED  BY <1>6, <2>2
<1>8. Len(shown) <= Columns
  BY <1>5, <1>6
<1>9. ASSUME NEW c \in 1 .. Columns
      PROVE  \/ SeenAt(c) = Space(row[c])
             \/ AtEnd(c) /\ SeenAt(c) = Cell(" ", DefaultStyle, 1)
  <2>1. CASE c \in 1 .. e
    BY <1>6, <1>7, <2>1 DEF SeenAt, shown
  <2>2. CASE c \notin 1 .. e
    <3>1. SeenAt(c) = Cell(" ", DefaultStyle, 1)
      BY <1>7, <2>2 DEF SeenAt, shown
    <3>2. c \in e + 1 .. Columns /\ \A k \in c .. Columns : k \in e + 1 .. Columns
      <4>1. c \in Nat /\ c > e
        BY <1>5, <2>2
      <4>. QED  BY <1>1, <1>5, <4>1
    <3>3. AtEnd(c)
      BY <1>4, <3>2 DEF AtEnd
    <3>. QED  BY <3>1, <3>3
  <2>. QED  BY <2>1, <2>2
<1>. QED  BY <1>8, <1>9 DEF shown

(* The client that attaches sees each row of the window as it is: the text *)
(* and width of each cell, and its style but for the spaces at the end.    *)
THEOREM WhoAttachesSeesTheWindow == RowSpec => []RedrawShows
<1>1. RowInv /\ [RowNext]_row => RowInv'
  BY RowStep
<1>. QED  BY RowStarts, <1>1, RowShows, PTL DEF RowSpec
=============================================================================
