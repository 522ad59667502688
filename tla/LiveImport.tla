----------------------------- MODULE LiveImport -----------------------------
(***************************************************************************)
(* The import of a live room export (core/live-import.mjs).  A reader puts *)
(* an export together from windows it read of the rooms, in any order and  *)
(* overlapping as they come; the import takes it as the transcript of one  *)
(* room, says whether records were missed, and hands the lines to the      *)
(* replay if it was activated.  The frame of a message is its room and its *)
(* number there; generation and the exporter's claims are left out.        *)
(***************************************************************************)
EXTENDS Naturals, Sequences

CONSTANTS Room,        \* the rooms of the venue
          Declared,    \* the room that the export declares
          MaxSeq,      \* bound on the messages of a room
          MaxRecords   \* bound on the records of an export

Record == [room : Room, named : BOOLEAN, seq : 1 .. MaxSeq]
Nothing == [records |-> << >>]

VARIABLES latest,    \* the number of messages in each room
          export,    \* the records of the export so far
          document,  \* what the last import returned
          lines      \* the lines given to the replay

vars == <<latest, export, document, lines>>

Init ==
  /\ latest = [r \in Room |-> 0]
  /\ export = << >> /\ document = Nothing /\ lines = << >>

-----------------------------------------------------------------------------
\* The venue and the reader.

Say(r) ==
  /\ latest[r] < MaxSeq
  /\ latest' = [latest EXCEPT ![r] = @ + 1]
  /\ UNCHANGED <<export, document, lines>>

\* A window of a room is appended, with or without the name of the room.
Read(r, a, b, named) ==
  /\ a <= b /\ b <= latest[r] /\ Len(export) + (b + 1 - a) <= MaxRecords
  /\ export' = export \o [i \in 1 .. b + 1 - a |->
                            [room |-> r, named |-> named, seq |-> a + i - 1]]
  /\ UNCHANGED <<latest, document, lines>>

-----------------------------------------------------------------------------
\* importLiveTranscript.

\* A record that names a room names the declared one.
Absorbed(r) == r.named => r.room = Declared

\* Mutated form: a record that was read twice is accepted.
NotBackwards(e) == \A i \in 2 .. Len(e) : e[i].seq >= e[i - 1].seq

Advances(e) == \A i \in 2 .. Len(e) : e[i].seq > e[i - 1].seq

Readable(e) == e # << >> /\ (\A i \in 1 .. Len(e) : Absorbed(e[i])) /\ Advances(e)

\* Mutated form: the last pair of records decides.
GapAtEnd(e) == Len(e) > 1 /\ e[Len(e)].seq # e[Len(e) - 1].seq + 1

gapsObserved(e) == \E i \in 2 .. Len(e) : e[i].seq # e[i - 1].seq + 1

\* What cannot be read exactly throws.
importLiveTranscript(activated) ==
  /\ document' = IF Readable(export)
                 THEN [records |-> export, activated |-> activated,
                       gapsObserved |-> gapsObserved(export),
                       first |-> export[1].seq, last |-> export[Len(export)].seq]
                 ELSE Nothing
  /\ lines' = << >>
  /\ UNCHANGED <<latest, export>>

liveLinesForReplay ==
  /\ document # Nothing /\ document.activated
  /\ lines' = [i \in 1 .. Len(document.records) |->
                 <<document.records[i].room, document.records[i].seq>>]
  /\ UNCHANGED <<latest, export, document>>

Next ==
  \/ \E r \in Room : Say(r)
  \/ \E r \in Room, a, b \in 1 .. MaxSeq, named \in BOOLEAN : Read(r, a, b, named)
  \/ \E activated \in BOOLEAN : importLiveTranscript(activated)
  \/ liveLinesForReplay

Spec == Init /\ [][Next]_vars

-----------------------------------------------------------------------------
\* Properties.

TypeOK ==
  /\ latest \in [Room -> 0 .. MaxSeq]
  /\ export \in Seq(Record) /\ Len(export) <= MaxRecords

Said(e) == \A i \in 1 .. Len(e) : e[i].seq <= latest[e[i].room]

\* An import is of an export that was readable and said; its range spans its
\* records, one number each.
DocumentInOrder == document # Nothing =>
  LET e == document.records
  IN  /\ e \in Seq(Record) /\ Readable(e) /\ Said(e)
      /\ document.gapsObserved = gapsObserved(e)
      /\ document.first = e[1].seq /\ document.last = e[Len(e)].seq
      /\ Len(e) <= document.last + 1 - document.first

\* The lines of the replay are those of the last import.
LinesInOrder == lines # << >> =>
  /\ document # Nothing /\ document.activated
  /\ lines = [i \in 1 .. Len(document.records) |->
               <<document.records[i].room, document.records[i].seq>>]

Inductive == TypeOK /\ Said(export) /\ DocumentInOrder /\ LinesInOrder

\* An export in which every record names its room, of the declared room alone.
Honest(e) == \A i \in 1 .. Len(e) : e[i].named

\* A gap is reported exactly if the room has a message, between the first and
\* the last of an import, that the import lacks (COMPLETENESS_LIMITATIONS: a gap
\* in seq proves records were missed).
GapMeansMissed == document # Nothing /\ Honest(document.records) =>
  (document.gapsObserved <=>
     \E s \in document.first .. document.last :
       ~\E i \in 1 .. Len(document.records) :
          document.records[i] = [room |-> Declared, named |-> TRUE, seq |-> s])

\* However the windows overlapped, the replay is given frames that were said in
\* the declared room, in the order they were said, none of them twice; and only
\* if the import was activated.
ReplayedAsSaid == lines # << >> /\ Honest(document.records) =>
  /\ document.activated
  /\ \A i \in 1 .. Len(lines) : lines[i][1] = Declared /\ lines[i][2] <= latest[Declared]
  /\ \A i, j \in 1 .. Len(lines) : i < j => lines[i][2] < lines[j][2]
=============================================================================
