----------------------------- MODULE KiroFrames -----------------------------
(***************************************************************************)
(* SseParser (streaming/mod.rs): JSON objects are found in the binary AWS  *)
(* event stream by a pattern that begins them and by counting braces.      *)
(*                                                                         *)
(* The wire is a sequence of symbols: an opening brace followed by a key   *)
(* is one of the EVENT_PATTERNS, "back" is a backslash, "lead" and "trail" *)
(* the first and the further bytes of a character of several, "x" any      *)
(* other byte.  Frames of binary data around the objects decode to         *)
(* anything that is not a pattern.  The transport cuts the wire anywhere,  *)
(* characters too, and each chunk is decoded alone: a part of a character  *)
(* becomes U+FFFD, "lost".                                                 *)
(***************************************************************************)
EXTENDS Naturals, Sequences, SequencesExt, FiniteSets, FiniteSetsExt

CONSTANTS
    Objects,    \* the JSON objects Kiro sends, as they are written
    Framing,    \* what the bytes before an object decode to
    MaxObjects  \* bound on the objects of a stream

VARIABLES
    wire,     \* what Kiro sends
    whole,    \* for each object on the wire, its last position
    pos,      \* symbols received
    parser,   \* the buffer, and the events fed on
    torn      \* history: where the characters begin that the transport has cut

frameVars == <<wire, whole, pos, parser, torn>>

(* What the frames of a stream add up to, and where its objects end.       *)
Framed(fs) ==
    LET upto[k \in 0..Len(fs)] ==
          IF k = 0 THEN [wire |-> <<>>, whole |-> <<>>]
          ELSE LET s == upto[k - 1].wire \o fs[k][1] \o fs[k][2]
               IN [wire |-> s, whole |-> Append(upto[k - 1].whole, Len(s))]
    IN upto[Len(fs)]

FrameInit ==
    /\ \E fs \in SeqOf(Framing \X Objects, MaxObjects) :
         wire = Framed(fs).wire /\ whole = Framed(fs).whole
    /\ pos = 0
    /\ parser = [buffer |-> <<>>, events |-> <<>>]
    /\ torn = {}

(* String::from_utf8_lossy of a chunk that ends within a character, or     *)
(* begins within one.                                                      *)
from_utf8_lossy(chunk) ==
    [i \in DOMAIN chunk |->
       IF (chunk[i] = "lead" /\ i = Len(chunk)) \/ (chunk[i] = "trail" /\ i = 1) THEN "lost" ELSE chunk[i]]

(* Where a pattern begins, the earliest first; 0 if there is none. *)
PatternAt(b) ==
    LET is == {i \in 1..(Len(b) - 1) : b[i] = "open" /\ b[i + 1] = "key"}
    IN IF is = {} THEN 0 ELSE Min(is)

(* As below, but counting the braces inside strings too. *)
ScanBraces(s, ch) ==
    LET n == [s EXCEPT !.at = @ + 1] IN
    CASE s.found -> s
      [] ~s.found /\ ch = "open" -> [n EXCEPT !.count = @ + 1]
      [] ~s.found /\ ch = "close" -> [n EXCEPT !.count = @ - 1, !.found = (s.count = 1)]
      [] OTHER -> n

(* One byte of find_matching_brace. *)
Scan(s, ch) ==
    LET n == [s EXCEPT !.at = @ + 1] IN
    CASE s.found -> s
      [] ~s.found /\ s.escape -> [n EXCEPT !.escape = FALSE]
      [] ~s.found /\ ~s.escape /\ s.string /\ ch = "back" -> [n EXCEPT !.escape = TRUE]
      [] ~s.found /\ ~s.escape /\ ch = "quote" -> [n EXCEPT !.string = ~@]
      [] ~s.found /\ ~s.escape /\ ~s.string /\ ch = "open" -> [n EXCEPT !.count = @ + 1]
      [] ~s.found /\ ~s.escape /\ ~s.string /\ ch = "close" ->
           [n EXCEPT !.count = @ - 1, !.found = (s.count = 1)]
      [] OTHER -> n

(* The last position of the object that begins at i, 0 if it is not there. *)
find_matching_brace(b, i) ==
    LET scan[k \in 0..(Len(b) + 1 - i)] ==
          IF k = 0 THEN [at |-> i - 1, count |-> 0, string |-> FALSE, escape |-> FALSE, found |-> FALSE]
          ELSE Scan(scan[k - 1], b[i + k - 1])
        s == scan[Len(b) + 1 - i]
    IN IF s.found THEN s.at ELSE 0

(* One turn of feed's loop. *)
Extract(p) ==
    LET i == PatternAt(p.buffer)
        j == IF i = 0 THEN 0 ELSE find_matching_brace(p.buffer, i)
    IN IF j = 0 THEN p
       ELSE [buffer |-> SubSeq(p.buffer, j + 1, Len(p.buffer)),
             events |-> Append(p.events, SubSeq(p.buffer, i, j))]

(* The whole loop: a stream has no more than MaxObjects.                    *)
Extracted(p) ==
    LET turn[n \in 0..MaxObjects] == IF n = 0 THEN p ELSE Extract(turn[n - 1])
    IN turn[MaxObjects]

Feed ==
    \E n \in 1..(Len(wire) - pos) :
      /\ pos' = pos + n
      /\ torn' = torn \cup {i \in {pos + n} : wire[i] = "lead"}
      /\ parser' = Extracted([parser EXCEPT !.buffer =
                                 @ \o from_utf8_lossy(SubSeq(wire, pos + 1, pos + n))])
      /\ UNCHANGED <<wire, whole>>

FrameNext == Feed

FrameSpec == FrameInit /\ [][FrameNext]_frameVars

-----------------------------------------------------------------------------
(* How JSON is written: a symbol behind an odd number of backslashes is    *)
(* escaped, one behind an odd number of quotation marks in a string, and   *)
(* the braces outside strings are balanced at the end and not before.      *)
Escaped(o, i) == Cardinality({j \in 1..(i - 1) : \A l \in j..(i - 1) : o[l] = "back"}) % 2 = 1
InString(o, i) == Cardinality({j \in 1..(i - 1) : o[j] = "quote" /\ ~Escaped(o, j)}) % 2 = 1
Braces(o, brace, i) == Cardinality({j \in 1..i : o[j] = brace /\ ~InString(o, j)})

WellFormed(o) ==
    /\ \A i \in 1..Len(o) : o[i] = "back" => InString(o, i)
    /\ \A i \in 1..Len(o) : (Braces(o, "open", i) = Braces(o, "close", i)) <=> i = Len(o)

Symbols == {"open", "close", "key", "quote", "back", "lead", "trail", "lost", "x"}

(* Characters are written whole: a lead and its trail. *)
Paired(s) ==
    /\ \A i \in 1..Len(s) : s[i] = "lead" => i < Len(s) /\ s[i + 1] = "trail"
    /\ \A i \in 1..Len(s) : s[i] = "trail" => i > 1 /\ s[i - 1] = "lead"

(* Objects begin with a pattern, and nothing before them does.             *)
ASSUME FramesAssumption ==
    /\ MaxObjects \in Nat
    /\ \A o \in Objects : o \in Seq(Symbols) /\ Paired(o) /\ PatternAt(o) = 1 /\ WellFormed(o)
    /\ \A f \in Framing : f \in Seq(Symbols \ {"lead", "trail"}) /\ PatternAt(f) = 0

(* A text, the characters that begin at cuts replaced. *)
Decoded(s, cuts) == [i \in 1..Len(s) |-> IF i \in cuts \/ i - 1 \in cuts THEN "lost" ELSE s[i]]

(* Wherever the transport cuts, the objects that have arrived whole, and   *)
(* only they, have been fed on, in order, each as it was written but for   *)
(* the characters the transport cut in two.                                *)
EveryObjectParsed ==
    /\ Len(parser.events) = Cardinality({k \in 1..Len(whole) : whole[k] <= pos})
    /\ \A k \in 1..Len(parser.events) :
         LET e == parser.events[k]
             first == whole[k] - Len(e) + 1
         IN /\ SubSeq(wire, first, whole[k]) \in Objects
            /\ e = SubSeq(Decoded(wire, torn), first, whole[k])
=============================================================================
