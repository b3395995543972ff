----------------------------- MODULE MCPsToH264 -----------------------------
(* Frames for TLC: every sequence of up to MaxSections sections, sent in     *)
(* packets of PacketSize bytes of which none or one is lost.  A section whose *)
(* header was cut by the loss has any length of CutLen.                      *)
EXTENDS PsToH264, FiniteSetsExt, SequencesExt

CONSTANTS PacketSize, MaxSections, CutLen

S(id, len, stuff) == [id |-> id, len |-> len, stuff |-> stuff]
Sections ==
  {S("E0", 3, 0), S("E0", 34, 5), S("E0", 60, 0), S("BB", 0, 0), S("BB", 12, 0),
   S("BC", 10, 0), S("other", 8, 0)}
Layouts == UNION {[1..n -> Sections] : n \in 0..MaxSections}

Start(l, st, i) == 14 + st + MapThenSumSet(LAMBDA j : 6 + l[j].len, 1..(i - 1))
HeaderLen(s) == IF s.id = "E0" THEN 9 ELSE 6

(* What arrives of layout l, pack stuffing st, without the bytes a..b-1. *)
Received(l, st, a, b) ==
  LET total == Start(l, st, Len(l) + 1)
      At0(i) == Start(l, st, i)
      Clear(from, to) == to <= a \/ from >= b
      Off(p) == IF p < b THEN p ELSE p - (b - a)
      Seen == {i \in 1..Len(l) : Clear(At0(i), At0(i) + 4)}
      Cut == {i \in Seen : ~Clear(At0(i), At0(i) + HeaderLen(l[i]))}
      Sent == {i \in 1..Len(l) : \A j \in 1..i : l[j].id # "other"}
      Video == {i \in Sent : l[i].id = "E0" /\ l[i].len - 3 - l[i].stuff > 0}
  IN {[size |-> total - (b - a), stuffing |-> z, lost |-> a < b,
       video |-> SetToSortSeq(Video, <),
       at |-> [p \in {Off(At0(i)) : i \in Seen} |->
                 LET i == CHOOSE i \in Seen : Off(At0(i)) = p
                 IN [id |-> l[i].id, k |-> i,
                     len |-> IF i \in Cut THEN c ELSE l[i].len,
                     stuff |-> IF i \in Cut THEN t ELSE l[i].stuff,
                     whole |-> Clear(At0(i), At0(i) + 6 + l[i].len)]]]
      : c \in IF Cut = {} THEN {0} ELSE CutLen,
        t \in IF Cut = {} THEN {0} ELSE {0, 9},
        z \in IF a < b /\ a < 14 THEN {0, 5} ELSE {st}}

Lossy(l, st) ==
  UNION {Received(l, st, j * PacketSize, (j + 1) * PacketSize) :
           j \in {n \in 0..50 : (n + 1) * PacketSize < Start(l, st, Len(l) + 1)}}

MCFrames == UNION {Received(l, st, 0, 0) \cup Lossy(l, st) : l \in Layouts, st \in {0, 2}}
MCCutLen == {0, 2, 40, 200}
=============================================================================
