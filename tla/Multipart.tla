------------------------------ MODULE Multipart ------------------------------
(***************************************************************************)
(* The streaming reader of RPC bodies that carry files (http/multipart.ts):*)
(* a cursor over chunks that arrive cut anywhere, the search for the       *)
(* delimiter in what is buffered, and the streams of the declared parts,   *)
(* which a handler reads, gives up or leaves alone.                        *)
(*                                                                         *)
(* A CRLF is one symbol here and the header of a part another, so that the *)
(* delimiters are a few symbols long.  Left out: preamble, names (parts    *)
(* are sent as they are declared), the caps on meta and headers, and what  *)
(* meta says besides the sizes.                                            *)
(*                                                                         *)
(* Sums are numbers of elements and the body is given by its positions,    *)
(* without a fold, so that both can be reasoned about for any PartCount.   *)
(***************************************************************************)
EXTENDS Naturals, Sequences, FiniteSets, SequencesExt

CONSTANTS
  Symbols,              \* of which bodies are made
  CRLF, Dashes, Header, \* symbols of the framing
  Delimiter,            \* bodyDelimiter: a CRLF, dashes and the boundary
  Payloads,             \* the contents a part may have
  PartCount,            \* the binary parts a request declares
  MaxBytes,             \* opts.maxBytes
  MaxChunk              \* bound: what one read of the request body returns

Parts == 1 .. PartCount

OccursAt(needle, text, i) == SubSeq(text, i, i + Len(needle) - 1) = needle

\* A sender draws the boundary so that no payload holds the delimiter, nor its
\* beginning right before the delimiter that follows.
ASSUME MultipartAssumption ==
  /\ PartCount \in Nat /\ MaxBytes \in Nat /\ MaxChunk \in Nat
  /\ {CRLF, Dashes, Header} \subseteq Symbols /\ Header # CRLF
  /\ Delimiter \in Seq(Symbols) /\ Delimiter # <<>> /\ Head(Delimiter) = CRLF
  /\ \A c \in Payloads : /\ c \in Seq(Symbols)
                        /\ \A i \in 1 .. Len(c) : ~OccursAt(Delimiter, c \o Delimiter, i)

VARIABLES
  content,   \* what the sender put into each part
  size,      \* what it declared
  wire,      \* what has yet to arrive
  hungUp,    \* the client went away
  buf,       \* ByteCursor.buf
  searched,  \* readUntil's
  reading,   \* "meta", "marker", "header", "body", or "idle", "failed", "drained"
  atPart,
  out,       \* what the stream of each part has delivered
  status     \* of that stream

\* What the steps of the reader leave alone.
sender == <<content, size, hungUp>>

multipartVars == <<content, size, wire, hungUp, buf, searched, reading, atPart, out, status>>

HeaderEnd == <<CRLF, CRLF>>

\* What follows the payloads of the parts from i on, or meta for i = 1.
Framing(i) ==
  IF i \in Parts THEN Delimiter \o <<CRLF, Header>> \o HeaderEnd ELSE Delimiter \o <<Dashes>>

\* The sum of a family of lengths: that many units do they measure.
Total(lengths) == Cardinality(UNION {{i} \X (1 .. lengths[i]) : i \in DOMAIN lengths})

Opening == <<Header>> \o Framing(1)

Segment(payload, i) == payload[i] \o Framing(i + 1)

\* Where the segment of part i begins: this much of the body is before it.
Start(payload, i) ==
  Len(Opening) + Total([j \in 1 .. i - 1 |-> Len(Segment(payload, j))])

\* multipartBody: meta, and then the parts in their order, each behind the other.
Body(payload) ==
  [k \in 1 .. Start(payload, PartCount + 1) |->
     IF k <= Len(Opening) THEN Opening[k]
     ELSE LET i == CHOOSE j \in Parts : Start(payload, j) < k /\ k <= Start(payload, j + 1)
          IN  Segment(payload, i)[k - Start(payload, i)]]

MultipartTypeOK ==
  /\ content \in [Parts -> Payloads]
  /\ atPart \in 1 .. PartCount + 1
  /\ searched \in 0 .. Len(buf)
  /\ status \in [Parts -> {"unread", "reading", "whole", "failed", "cancelled"}]
  /\ reading \in {"meta", "marker", "header", "body", "idle", "failed", "drained"}

\* A declaration may be wrong by one, but not announce too much.
MultipartInit ==
  /\ content \in [Parts -> Payloads]
  /\ size \in [Parts -> 0 .. MaxBytes]
  /\ \A i \in Parts : size[i] <= Len(content[i]) + 1 /\ Len(content[i]) <= size[i] + 1
  /\ Total(size) <= MaxBytes
  /\ wire = Body(content) /\ hungUp = FALSE
  /\ buf = <<>> /\ searched = 0
  /\ reading = "meta" /\ atPart = 1
  /\ out = [i \in Parts |-> <<>>]
  /\ status = [i \in Parts |-> "unread"]

-----------------------------------------------------------------------------
(* ByteCursor.                                                             *)

\* indexOfSub: the places after `from` where the needle is in the buffer.
Found(needle, from) ==
  {i \in from + 1 .. Len(buf) - Len(needle) + 1 : OccursAt(needle, buf, i)}

First(places) == CHOOSE i \in places : \A j \in places : i <= j

Take(n) == buf' = SubSeq(buf, n + 1, Len(buf))

\* fill: a chunk arrives, cut anywhere.
Fill ==
  \E n \in 1 .. MaxChunk :
    /\ n <= Len(wire)
    /\ buf' = buf \o SubSeq(wire, 1, n)
    /\ wire' = SubSeq(wire, n + 1, Len(wire))

\* Variant: the next search resumes at the end of what was searched.
Resume_AtTheEnd(needle) == searched' = Len(buf)

\* readUntil resumes its search where a partial needle may begin.
Resume(needle) ==
  searched' = IF Len(buf) >= Len(needle) THEN Len(buf) - Len(needle) + 1 ELSE 0

\* A read that the stream's end leaves unsatisfied throws, into the stream of
\* the part it was for.
Truncated ==
  /\ wire = <<>>
  /\ reading' = "failed"
  /\ status' = IF reading = "meta" THEN status ELSE [status EXCEPT ![atPart] = "failed"]
  /\ UNCHANGED <<sender, wire, buf, searched, atPart, out>>

\* readUntil, of a needle that takes the reader on to `then`.
ReadUntil(needle, then) ==
  IF Found(needle, searched) # {}
  THEN /\ Take(First(Found(needle, searched)) + Len(needle) - 1)
       /\ searched' = 0
       /\ reading' = then
       /\ UNCHANGED <<sender, wire, atPart, out, status>>
  ELSE \/ Fill /\ Resume(needle)
          /\ UNCHANGED <<sender, reading, atPart, out, status>>
       \/ Truncated

Meta == reading = "meta" /\ ReadUntil(Delimiter, "idle")

PartHeader == reading = "header" /\ ReadUntil(HeaderEnd, "body")

-----------------------------------------------------------------------------
(* The streams of the parts.                                               *)

\* stream(): a part is read once, and in the order of the declaration.
Open(i) ==
  /\ reading = "idle"
  /\ i = atPart /\ status[i] = "unread"
  /\ status' = [status EXCEPT ![i] = "reading"]
  /\ reading' = "marker"
  /\ UNCHANGED <<sender, wire, buf, searched, atPart, out>>

\* openPart, up to the header: the delimiter announces another part.
Marker ==
  /\ reading = "marker"
  /\ \/ /\ buf # <<>> /\ Head(buf) = CRLF
        /\ Take(1)
        /\ reading' = "header"
        /\ UNCHANGED <<sender, wire, searched, atPart, out, status>>
     \/ /\ buf = <<>>
        /\ Fill
        /\ UNCHANGED <<sender, searched, reading, atPart, out, status>>
     \/ buf = <<>> /\ Truncated

\* Variant: the buffer is emitted up to the last symbol but one.
Safe_TooMuch == Len(buf) - 1

\* chunksUntil: what cannot be the beginning of the delimiter.
Safe == IF Len(buf) >= Len(Delimiter) THEN Len(buf) - (Len(Delimiter) - 1) ELSE 0

\* consumePart hands on n symbols, or throws at more than was declared or is
\* allowed.
Yield(n) ==
  LET seen == Len(out[atPart]) + n
      seenTotal == Total([i \in Parts |-> Len(out[i])]) + n
  IN  /\ Take(n)
      /\ IF seen > size[atPart] \/ seenTotal > MaxBytes
         THEN /\ reading' = "failed"
              /\ status' = [status EXCEPT ![atPart] = "failed"]
              /\ UNCHANGED out
         ELSE /\ out' = [out EXCEPT ![atPart] = @ \o SubSeq(buf, 1, n)]
              /\ UNCHANGED <<reading, status>>
      /\ UNCHANGED <<sender, wire, searched, atPart>>

\* The delimiter: the part is whole if it has the declared size.
PartEnds ==
  /\ Take(Len(Delimiter))
  /\ IF Len(out[atPart]) = size[atPart]
     THEN /\ status' = [status EXCEPT ![atPart] = "whole"]
          /\ atPart' = atPart + 1
          /\ reading' = "idle"
     ELSE /\ status' = [status EXCEPT ![atPart] = "failed"]
          /\ reading' = "failed"
          /\ UNCHANGED atPart
  /\ UNCHANGED <<sender, wire, searched, out>>

\* pull, in the body of a part.
Pull ==
  /\ reading = "body"
  /\ LET at == Found(Delimiter, 0)
     IN  \/ at # {} /\ First(at) > 1 /\ Yield(First(at) - 1)
         \/ at # {} /\ First(at) = 1 /\ PartEnds
         \/ at = {} /\ Safe > 0 /\ Yield(Safe)
         \/ at = {} /\ Safe = 0 /\ Fill
            /\ UNCHANGED <<sender, searched, reading, atPart, out, status>>
         \/ at = {} /\ Safe = 0 /\ Truncated

\* The handler gives a stream up; the parts after it are out of reach then.
Cancel ==
  /\ reading = "body"
  /\ status' = [status EXCEPT ![atPart] = "cancelled"]
  /\ reading' = "idle"
  /\ UNCHANGED <<sender, wire, buf, searched, atPart, out>>

\* The handler has returned, or failed: what it left unread is given up.
Drain ==
  /\ reading \in {"idle", "body", "failed"}
  /\ reading' = "drained"
  /\ IF atPart \in Parts THEN wire' = <<>> ELSE UNCHANGED wire
  /\ UNCHANGED <<sender, buf, searched, atPart, out, status>>

\* The client hangs up.
HangUp ==
  /\ wire # <<>>
  /\ wire' = <<>>
  /\ hungUp' = TRUE
  /\ UNCHANGED <<content, size, buf, searched, reading, atPart, out, status>>

MultipartNext ==
  \/ Meta
  \/ \E i \in Parts : Open(i)
  \/ Marker
  \/ PartHeader
  \/ Pull
  \/ Cancel
  \/ Drain
  \/ HangUp

MultipartSpec == MultipartInit /\ [][MultipartNext]_multipartVars

-----------------------------------------------------------------------------

(* However the chunks cut the body, and delimiters with it, the stream of a*)
(* part delivers nothing but that part, in order; it ends well only with   *)
(* all of it, and badly only if the client hung up or declared another     *)
(* size; and no more is held meanwhile than "one source chunk plus the few *)
(* bytes a partial needle could occupy" (chunksUntil, readUntil).          *)
PartsGoThrough ==
  /\ \A i \in Parts :
       /\ IsPrefix(out[i], content[i])
       /\ status[i] = "whole" => out[i] = content[i]
       /\ status[i] = "failed" => hungUp \/ size[i] # Len(content[i])
  /\ reading = "body" => Len(buf) <= MaxChunk + Len(Delimiter) - 1
=============================================================================
