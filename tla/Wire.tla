-------------------------------- MODULE Wire --------------------------------
(***************************************************************************)
(* The protocol between the programs of screen-rs: a connection on which a *)
(* sender writes the frames of messages piece by piece while a reader with *)
(* a timeout takes them off.                                               *)
(*                                                                         *)
(* A payload may hold anything, so also what looks like a header: where    *)
(* the four octets of the magic stand in it, or the two of the version,    *)
(* the model has the one octet Magic or Version.  (A magic of which a      *)
(* length holds the first octets and the payload the others counts as one  *)
(* of the payload's.)                                                      *)
(*                                                                         *)
(* An operator named Slip... is its neighbour with one likely slip in it,  *)
(* for the properties to catch.                                            *)
(***************************************************************************)
EXTENDS Codec

CONSTANTS Messages,   \* the messages a sender may begin with
          Followers,  \* and those of them that may follow (a bound)
          Magic, Version, \* the octets of a payload that look like them
          MaxSent,    \* how many of them one connection carries
          Timeouts    \* how often the reader's timeout may strike

ASSUME WireAssumption == /\ Followers \subseteq Messages
                         /\ Magic \in Octets /\ Version \in Octets \ {Magic}
                         /\ MaxSent \in Nat /\ Timeouts \in Nat
                         /\ \A m \in Messages : IsMessage(m)

-----------------------------------------------------------------------------
(* The connection.                                                         *)

VARIABLES sent,      \* the messages whose frames the sender has begun
          unwritten, \* the writes of the current frame still to be made
          stream,    \* the pieces on their way
          got,       \* what the current read has taken
          header,    \* the header of the frame whose payload is read, or none
          received,  \* the messages the reader has returned
          reader,    \* "reading", or the error that ended it
          torn       \* timeouts that struck so far

wireVars == <<sent, unwritten, stream, got, header, received, reader, torn>>

Piece(of, n) == [of |-> of, n |-> n]
NoHeader == [kind |-> 0, len |-> 0]
HEADER_LEN == 4      \* magic, version, kind and length, a piece each

(* The writes of a frame: write_all of the magic, the version, the kind,   *)
(* the length and the payload, which may arrive in two parts (cut behind   *)
(* its first octet).                                                       *)
Frame(m) ==
  LET payload == [i \in DOMAIN Encode(m) |-> Piece("octet", Encode(m)[i])] IN
  << <<Piece("magic", 0)>>, <<Piece("version", 0)>>, <<Piece("kind", NumberOf(m.kind))>>,
     <<Piece("len", Len(payload))>> >>
    \o IF payload = << >> THEN << >> ELSE << <<Head(payload)>>, Tail(payload)>>

(* The frames of all messages that get past the sender's check.            *)
Frames == [m \in {m \in Messages : ~TooLong(m)} |-> Frame(m)]

IsMagic(p) == p.of = "magic" \/ (p.of = "octet" /\ p.n = Magic)
IsVersion(p) == p.of = "version" \/ (p.of = "octet" /\ p.n = Version)

\* Read as a kind or a length, those are none.
NumberIn(p) == IF IsMagic(p) \/ IsVersion(p) THEN MAX_PAYLOAD_LEN + 256 ELSE p.n

WireInit ==
  /\ sent = << >> /\ unwritten = << >> /\ stream = << >>
  /\ got = << >> /\ header = NoHeader
  /\ received = << >> /\ reader = "reading" /\ torn = 0

(* A message too long is refused before anything is written.               *)
Send(m) ==
  /\ unwritten = << >> /\ Len(sent) < MaxSent /\ m \in DOMAIN Frames
  /\ sent # << >> => m \in Followers
  /\ sent' = Append(sent, m)
  /\ unwritten' = Frames[m]
  /\ UNCHANGED <<stream, got, header, received, reader, torn>>

WritePiece ==
  /\ unwritten # << >>
  /\ stream' = stream \o Head(unwritten)
  /\ unwritten' = Tail(unwritten)
  /\ UNCHANGED <<sent, got, header, received, reader, torn>>

SlipWanted == IF header = NoHeader THEN HEADER_LEN ELSE header.len + 1
Wanted == IF header = NoHeader THEN HEADER_LEN ELSE header.len
Complete == Len(got) = Wanted

(* read_exact takes what there is, but no more than it still wants.        *)
Take ==
  /\ reader = "reading" /\ ~Complete /\ stream # << >>
  /\ LET n == Lesser(Len(stream), Wanted - Len(got)) IN
     /\ got' = got \o SubSeq(stream, 1, n)
     /\ stream' = After(stream, n)
  /\ UNCHANGED <<sent, unwritten, header, received, reader, torn>>

SlipHeaderError ==
  IF ~IsMagic(got[1]) THEN "bad magic"
  ELSE IF KindOf(NumberIn(got[3])) = "unknown" THEN "unknown message"
  ELSE IF NumberIn(got[4]) >= MAX_PAYLOAD_LEN THEN "payload too large"
  ELSE "none"

(* The checks of a header, in their order.                                 *)
HeaderError ==
  IF ~IsMagic(got[1]) THEN "bad magic"
  ELSE IF ~IsVersion(got[2]) THEN "unsupported version"
  ELSE IF KindOf(NumberIn(got[3])) = "unknown" THEN "unknown message"
  ELSE IF NumberIn(got[4]) > MAX_PAYLOAD_LEN THEN "payload too large"
  ELSE "none"

ReadHeader ==
  /\ reader = "reading" /\ Complete /\ header = NoHeader
  /\ IF HeaderError # "none"
     THEN reader' = HeaderError /\ UNCHANGED <<got, header>>
     ELSE /\ header' = [kind |-> NumberIn(got[3]), len |-> NumberIn(got[4])]
          /\ got' = << >>
          /\ UNCHANGED reader
  /\ UNCHANGED <<sent, unwritten, stream, received, torn>>

ReadPayload ==
  /\ reader = "reading" /\ Complete /\ header # NoHeader
  /\ LET m == Decode(KindOf(header.kind), [i \in DOMAIN got |-> got[i].n]) IN
     IF m = Malformed
     THEN reader' = "unexpected payload" /\ UNCHANGED <<got, header, received>>
     ELSE /\ received' = Append(received, m)
          /\ got' = << >> /\ header' = NoHeader
          /\ UNCHANGED reader
  /\ UNCHANGED <<sent, unwritten, stream, torn>>

(* The read timeout strikes while nothing arrives; the attached client     *)
(* goes on with a new read, and what the old one had taken is lost.        *)
ReadTimeout ==
  /\ reader = "reading" /\ ~Complete /\ stream = << >> /\ torn < Timeouts
  /\ torn' = torn + 1
  /\ got' = << >> /\ header' = NoHeader
  /\ UNCHANGED <<sent, unwritten, stream, received, reader>>

WireNext ==
  \/ \E m \in Messages : Send(m)
  \/ WritePiece \/ Take \/ ReadHeader \/ ReadPayload \/ ReadTimeout

WireSpec == WireInit /\ [][WireNext]_wireVars

-----------------------------------------------------------------------------
(* Properties.                                                             *)

(* No read has been torn, or no payload sent holds the magic.              *)
MagicFree == [m \in DOMAIN Frames |-> \A i \in DOMAIN Encode(m) : Encode(m)[i] # Magic]
Clear == torn = 0 \/ \A i \in DOMAIN sent : MagicFree[sent[i]]

(* What arrives was sent, unaltered and in the order of sending, whatever  *)
(* the fields.  After a timeout, which may leave the reader inside a frame *)
(* (the client's loop goes on reading), that is so only if no payload sent *)
(* holds the magic: then a frame whose head was lost is never taken for a  *)
(* message, and until a second timeout nothing is left out in between.     *)
(* Input and output are any octets, and those of an input or output that   *)
(* holds a header are then read as a message that nobody sent.             *)
Faithful ==
  Clear =>
    /\ \E at \in [DOMAIN received -> DOMAIN sent] :
         \A i \in DOMAIN received : /\ received[i] = sent[at[i]]
                                   /\ \A j \in 1 .. i - 1 : at[j] < at[i]
    /\ torn < 2 => IsPrefix(received, sent)

(* A reader gives up only over a frame that a timeout tore, or over the    *)
(* one message whose length the sender does not check.                     *)
FailureExplained ==
  reader # "reading" =>
    \/ torn > 0
    \/ /\ reader = "payload too large"
       /\ sent[Len(received) + 1].kind = "Attach"

(* A reader that waits waits for something: on a connection that no        *)
(* timeout tore, with nothing left to write and nothing under way, every   *)
(* message sent has been returned and no read is half done.                *)
NothingOwed ==
  torn = 0 /\ reader = "reading" /\ unwritten = << >> /\ stream = << >> /\ ~Complete
    => received = sent /\ header = NoHeader /\ got = << >>
=============================================================================
