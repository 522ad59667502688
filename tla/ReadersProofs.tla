---------------------------- MODULE ReadersProofs ----------------------------
(***************************************************************************)
(* What holds of the components that judge evidence and show it, for every *)
(* set of lines, frames, rooms, requests and imports and every bound: first*)
(* each of them alone, then the five as MCReaders runs them.               *)
(***************************************************************************)
EXTENDS MCReaders, Sequences, WellFoundedInduction, TLAPS

\* Every nonempty set of natural numbers has a least element.
LEMMA Least ==
  ASSUME NEW S \in SUBSET Nat, S # {}
  PROVE  \E m \in S : \A k \in S : m <= k
<1> DEFINE Below == OpToRel(<, Nat)
<1>1. IsWellFoundedOn(Below, Nat)
  BY NatLessThanWellFounded
<1>2. \A x, y \in Nat : x < y => <<x, y>> \in Below
  BY DEF OpToRel
<1> HIDE DEF Below
<1>3. PICK m \in S : \A k \in S : ~(<<k, m>> \in Below)
  BY <1>1, WFMin
<1>4. \A k \in S : m \in Nat /\ k \in Nat /\ ~(k < m)
  BY <1>2, <1>3
<1> QED BY <1>4

-----------------------------------------------------------------------------
(***************************************************************************)
(* The transcript validation.                                              *)
(***************************************************************************)
TranscriptSound ==
  Transcript!Inductive /\ Transcript!VerdictIsMeaning /\ Transcript!BoundedIsContiguous

\* A transcript that is invalid stays invalid.
TranscriptDecided == Transcript!Verdict = "INVALID" => Transcript!Verdict' = "INVALID"

\* Each check keeps the worst of what it had and what was found.
LEMMA WorstFacts ==
  ASSUME NEW S \in SUBSET Transcript!Status, S # {}
  PROVE  /\ Transcript!Worst(S) \in S
         /\ Transcript!Worst(S) = "FAIL" <=> "FAIL" \in S
         /\ Transcript!Worst(S) = "UNKNOWN" <=> "UNKNOWN" \in S /\ "FAIL" \notin S
<1>1. /\ \A s \in S : s \in {"NOT_APPLICABLE", "PASS", "UNKNOWN", "FAIL"}
      /\ Transcript!rank["NOT_APPLICABLE"] = 0 /\ Transcript!rank["PASS"] = 1
      /\ Transcript!rank["UNKNOWN"] = 2 /\ Transcript!rank["FAIL"] = 3
  BY DEF Transcript!Status, Transcript!rank
<1>2. \E s \in S : \A t \in S : Transcript!rank[t] <= Transcript!rank[s]
  BY <1>1
<1>3. /\ Transcript!Worst(S) \in S
      /\ \A t \in S : Transcript!rank[t] <= Transcript!rank[Transcript!Worst(S)]
  BY <1>2 DEF Transcript!Worst
<1> QED BY <1>1, <1>3

LEMMA UpdateFacts ==
  ASSUME checks \in [Transcript!Check -> Transcript!Status], NEW found, NEW c \in Transcript!Check
  PROVE  /\ Transcript!update(found)[c] \in Transcript!Status
         /\ Transcript!update(found)[c] = "FAIL" <=> checks[c] = "FAIL" \/ <<c, "FAIL">> \in found
         /\ Transcript!update(found)[c] # "FAIL" =>
              (Transcript!update(found)[c] = "UNKNOWN" <=>
                 checks[c] = "UNKNOWN" \/ <<c, "UNKNOWN">> \in found)
<1> DEFINE S == {checks[c]} \cup Transcript!Found(found, c)
<1>1. S \in SUBSET Transcript!Status /\ S # {}
  BY DEF Transcript!Found
<1>2. /\ "FAIL" \in S <=> checks[c] = "FAIL" \/ <<c, "FAIL">> \in found
      /\ "UNKNOWN" \in S <=> checks[c] = "UNKNOWN" \/ <<c, "UNKNOWN">> \in found
  BY DEF Transcript!Found, Transcript!Status
<1>3. Transcript!update(found)[c] = Transcript!Worst(S)
  BY DEF Transcript!update
<1> HIDE DEF S
<1>4. /\ Transcript!Worst(S) \in S
      /\ Transcript!Worst(S) = "FAIL" <=> "FAIL" \in S
      /\ Transcript!Worst(S) = "UNKNOWN" <=> "UNKNOWN" \in S /\ "FAIL" \notin S
  BY <1>1, WorstFacts
<1> QED BY <1>1, <1>2, <1>3, <1>4

\* What a row says of itself: its findings fail exactly if it is wrong, or its
\* identity was met, or its number does not advance.
RowFails(l) ==
  \/ Transcript!didLike(l) /\ ~Transcript!key(l)
  \/ Transcript!Case(l) \in {"shape", "noNonce"}
  \/ Transcript!Case(l) = "signed" /\ ~(Transcript!Verifiable(l) /\ l.sig = "right")
  \/ Transcript!Case(l) = "signed" /\ Transcript!Met(l) /\ Transcript!Identity(l) \in seen

Fails(found) == \E c \in Transcript!CONTENT : <<c, "FAIL">> \in found
Unknown(found) == \E c \in Transcript!CONTENT : <<c, "UNKNOWN">> \in found

LEMMA SignedFacts ==
  ASSUME NEW l \in Entry
  PROVE  /\ Fails(Transcript!Signed(l)) <=> RowFails(l)
         /\ ~Fails(Transcript!Signed(l)) =>
              (Unknown(Transcript!Signed(l)) <=> Transcript!Case(l) = "legacy")
         /\ <<"SEQ_ORDER", "FAIL">> \notin Transcript!Signed(l)
<1>1. /\ l.from \in {"did", "other did", "bad did", "nickname"}
      /\ l.nonce \in {"absent", "bad", "1", "2"} /\ l.text \in BOOLEAN
      /\ l.sig \in {"absent", "bad", "wrong", "right"}
  BY EntryAssumption DEF Transcript!LineRecord
<1>2. Transcript!Case(l) \in {"context", "shape", "noNonce", "legacy", "signed"}
  BY DEF Transcript!Case
<1> USE DEF Fails, Unknown, RowFails, Transcript!CONTENT
<1>3. CASE Transcript!Case(l) = "context"
  <2>1. Transcript!Signed(l) = {} /\ ~Transcript!didLike(l)
    BY <1>3 DEF Transcript!Signed, Transcript!Case
  <2> QED BY <1>3, <2>1
<1>4. CASE Transcript!Case(l) = "shape"
  <2>1. Transcript!Signed(l) = {<<"RECORD_SHAPE", "FAIL">>}
    BY <1>4 DEF Transcript!Signed
  <2> QED BY <1>4, <2>1
<1>5. CASE Transcript!Case(l) = "noNonce"
  <2>1. /\ Transcript!Signed(l) =
             {<<"RECORD_SHAPE", "FAIL">>, <<"DID_SHAPE", Transcript!Pass(Transcript!key(l))>>}
    BY <1>5 DEF Transcript!Signed
  <2> QED BY <1>5, <2>1
<1>6. CASE Transcript!Case(l) = "legacy"
  <2>1. /\ Transcript!Signed(l) =
             {<<"DID_SHAPE", Transcript!Pass(Transcript!key(l))>>, <<"SIGNATURE", "UNKNOWN">>,
              <<"NONCE_EXACT", "UNKNOWN">>, <<"OP_IDENTITY_UNIQUE", "UNKNOWN">>}
        /\ Transcript!didLike(l)
    BY <1>6 DEF Transcript!Signed, Transcript!Case
  <2>2. Transcript!Pass(Transcript!key(l)) = IF Transcript!key(l) THEN "PASS" ELSE "FAIL"
    BY DEF Transcript!Pass
  <2> QED BY <1>6, <2>1, <2>2
<1>7. CASE Transcript!Case(l) = "signed"
  <2> DEFINE did == Transcript!Pass(Transcript!key(l))
             nonce == Transcript!Pass(Transcript!goodNonce(l))
             text == Transcript!Pass(l.text)
             sig == Transcript!Signature(l)
             own == {<<"DID_SHAPE", did>>, <<"NONCE_EXACT", nonce>>,
                     <<"SIGNED_TEXT", text>>, <<"SIGNATURE", sig>>}
             met == IF Transcript!Met(l)
                    THEN {<<"OP_IDENTITY_UNIQUE",
                            Transcript!Pass(Transcript!Identity(l) \notin seen)>>} ELSE {}
  <2>1. Transcript!Signed(l) = own \cup met
    BY <1>7 DEF Transcript!Signed
  <2>2. /\ did = "FAIL" <=> ~Transcript!key(l)
        /\ nonce = "FAIL" <=> ~Transcript!goodNonce(l)
        /\ text = "FAIL" <=> ~l.text
        /\ did # "UNKNOWN" /\ nonce # "UNKNOWN" /\ text # "UNKNOWN"
    BY DEF Transcript!Pass
  <2>3. /\ sig = "FAIL" <=> \/ ~Transcript!goodSig(l)
                            \/ Transcript!Verifiable(l) /\ l.sig # "right"
        /\ sig = "UNKNOWN" => Transcript!goodSig(l) /\ ~Transcript!Verifiable(l)
    BY DEF Transcript!Signature, Transcript!Pass
  <2>4. Transcript!Verifiable(l) <=>
          Transcript!goodSig(l) /\ Transcript!key(l) /\ Transcript!goodNonce(l) /\ l.text
    BY DEF Transcript!Verifiable
  <2> HIDE DEF did, nonce, text, sig
  <2>5. /\ Fails(own) <=> ~(Transcript!Verifiable(l) /\ l.sig = "right")
        /\ ~Fails(own) => ~Unknown(own)
    <3>1. Fails(own) <=> did = "FAIL" \/ nonce = "FAIL" \/ text = "FAIL" \/ sig = "FAIL"
      OBVIOUS
    <3>2. Unknown(own) <=>
            did = "UNKNOWN" \/ nonce = "UNKNOWN" \/ text = "UNKNOWN" \/ sig = "UNKNOWN"
      OBVIOUS
    <3> HIDE DEF own, Fails, Unknown
    <3> QED BY <2>2, <2>3, <2>4, <3>1, <3>2
  <2>6. /\ Fails(met) <=> Transcript!Met(l) /\ Transcript!Identity(l) \in seen
        /\ ~Unknown(met)
    BY DEF Transcript!Pass
  <2>7. /\ Fails(own \cup met) <=> Fails(own) \/ Fails(met)
        /\ Unknown(own \cup met) <=> Unknown(own) \/ Unknown(met)
    <3> HIDE DEF own, met
    <3> QED OBVIOUS
  <2>8. <<"SEQ_ORDER", "FAIL">> \notin own \cup met
    OBVIOUS
  <2>9. Transcript!didLike(l) /\ ~Transcript!key(l) => ~Transcript!Verifiable(l)
    BY <2>4
  <2> HIDE DEF own, met, Fails, Unknown
  <2> QED BY <1>7, <2>1, <2>5, <2>6, <2>7, <2>8, <2>9
<1> QED BY <1>2, <1>3, <1>4, <1>5, <1>6, <1>7

LEMMA FindingsFacts ==
  ASSUME NEW l \in Entry, priorSeq \in Nat \cup {Transcript!Nothing}
  PROVE  LET behind == priorSeq # Transcript!Nothing /\ l.seq <= priorSeq
         IN  /\ Fails(Transcript!Findings(l)) <=> RowFails(l) \/ behind
             /\ ~Fails(Transcript!Findings(l)) =>
                  (Unknown(Transcript!Findings(l)) <=> l.extra \/ Transcript!Case(l) = "legacy")
             /\ <<"SEQ_ORDER", "FAIL">> \in Transcript!Findings(l) <=> behind
<1> DEFINE behind == priorSeq # Transcript!Nothing /\ l.seq <= priorSeq
           signed == Transcript!Signed(l)
           order == Transcript!Sequence(l)
           time == {<<"TIMESTAMP_METADATA", Transcript!Pass(Transcript!Timely(l))>>}
           extra == IF l.extra THEN {<<"RECORD_SHAPE", "UNKNOWN">>} ELSE {}
<1>1. l.seq \in Nat /\ l.extra \in BOOLEAN
  BY EntryAssumption DEF Transcript!LineRecord
<1>2. Transcript!Findings(l) = signed \cup order \cup time \cup extra
  BY DEF Transcript!Findings
<1>3. order = IF priorSeq = Transcript!Nothing THEN {}
              ELSE IF l.seq <= priorSeq THEN {<<"SEQ_ORDER", "FAIL">>, <<"SEQ_GAPS", "UNKNOWN">>}
              ELSE {<<"SEQ_GAPS", Transcript!Pass(l.seq = priorSeq + 1)>>}
  BY <1>1 DEF Transcript!Sequence
<1>4. /\ Fails(order) <=> behind
      /\ ~Unknown(order)
      /\ <<"SEQ_ORDER", "FAIL">> \in order <=> behind
  BY <1>3 DEF Fails, Unknown, Transcript!CONTENT
<1>5. ~Fails(time) /\ ~Unknown(time) /\ <<"SEQ_ORDER", "FAIL">> \notin time
  BY DEF Fails, Unknown, Transcript!CONTENT
<1>6. ~Fails(extra) /\ (Unknown(extra) <=> l.extra) /\ <<"SEQ_ORDER", "FAIL">> \notin extra
  BY DEF Fails, Unknown, Transcript!CONTENT
<1>7. /\ Fails(signed) <=> RowFails(l)
      /\ ~Fails(signed) => (Unknown(signed) <=> Transcript!Case(l) = "legacy")
      /\ <<"SEQ_ORDER", "FAIL">> \notin signed
  BY SignedFacts
<1> HIDE DEF behind, signed, order, time, extra
<1>8. /\ Fails(signed \cup order \cup time \cup extra) <=>
           Fails(signed) \/ Fails(order) \/ Fails(time) \/ Fails(extra)
      /\ Unknown(signed \cup order \cup time \cup extra) <=>
           Unknown(signed) \/ Unknown(order) \/ Unknown(time) \/ Unknown(extra)
  BY DEF Fails, Unknown
<1>9. <<"SEQ_ORDER", "FAIL">> \in signed \cup order \cup time \cup extra <=> behind
  BY <1>4, <1>5, <1>6, <1>7
<1> QED BY <1>2, <1>4, <1>5, <1>6, <1>7, <1>8, <1>9 DEF behind

\* What the checks say, and what the lines say.
ChecksFail == \E c \in Transcript!CONTENT : checks[c] = "FAIL"
ChecksUnknown == \E c \in Transcript!CONTENT : checks[c] = "UNKNOWN"
LinesFail ==
  \/ \E i \in 1 .. Len(lines) : Transcript!Wrong(i)
  \/ \E i, j \in Transcript!Rows : Transcript!Clash(i, j)
LinesUnsure == \E i \in Transcript!Rows : Transcript!Unsure(i)

LEMMA FoundFacts ==
  ASSUME checks \in [Transcript!Check -> Transcript!Status], NEW found,
         checks' = Transcript!update(found)
  PROVE  /\ checks' \in [Transcript!Check -> Transcript!Status]
         /\ ChecksFail' <=> ChecksFail \/ Fails(found)
         /\ ~ChecksFail' => (ChecksUnknown' <=> ChecksUnknown \/ Unknown(found))
         /\ checks'["SEQ_ORDER"] = "FAIL" <=>
              checks["SEQ_ORDER"] = "FAIL" \/ <<"SEQ_ORDER", "FAIL">> \in found
<1>1. Transcript!CONTENT \subseteq Transcript!Check /\ "SEQ_ORDER" \in Transcript!Check
  BY DEF Transcript!CONTENT, Transcript!Check
<1>2. checks' = [c \in Transcript!Check |-> checks'[c]]
  BY DEF Transcript!update
<1>3. \A c \in Transcript!Check :
        /\ checks'[c] \in Transcript!Status
        /\ checks'[c] = "FAIL" <=> checks[c] = "FAIL" \/ <<c, "FAIL">> \in found
        /\ checks'[c] # "FAIL" =>
             (checks'[c] = "UNKNOWN" <=> checks[c] = "UNKNOWN" \/ <<c, "UNKNOWN">> \in found)
  BY UpdateFacts
<1> QED BY <1>1, <1>2, <1>3 DEF ChecksFail, ChecksUnknown, Fails, Unknown

\* A line is read: what was said of the lines before it is said of them still.
LEMMA LineFacts ==
  ASSUME lines \in Seq(Entry), NEW l \in Entry, lines' = Append(lines, l)
  PROVE  LET n == Len(lines) + 1
             row == l.form = "object" /\ l.shaped
         IN  /\ Len(lines) \in Nat /\ Len(lines') = n /\ lines' \in Seq(Entry)
             /\ lines'[n] = l /\ \A i \in 1 .. Len(lines) : lines'[i] = lines[i]
             /\ Transcript!Rows \subseteq 1 .. Len(lines)
             /\ row => Transcript!Rows' = Transcript!Rows \cup {n}
             /\ ~row => Transcript!Rows' = Transcript!Rows
             /\ \A i \in 1 .. Len(lines) :
                  /\ Transcript!Wrong(i)' <=> Transcript!Wrong(i)
                  /\ Transcript!Unsure(i)' <=> Transcript!Unsure(i)
                  /\ Transcript!Signs(i)' <=> Transcript!Signs(i)
             /\ \A i, j \in 1 .. Len(lines) :
                  /\ Transcript!Precedes(i, j)' <=> Transcript!Precedes(i, j)
                  /\ Transcript!Clash(i, j)' <=> Transcript!Clash(i, j)
<1> DEFINE n == Len(lines) + 1
           row == l.form = "object" /\ l.shaped
<1>1. /\ Len(lines) \in Nat /\ Len(lines') = n /\ lines' \in Seq(Entry)
      /\ lines'[n] = l /\ \A i \in 1 .. Len(lines) : lines'[i] = lines[i]
  OBVIOUS
<1>2. Transcript!Rows \subseteq 1 .. Len(lines) /\ n \in Nat
  BY <1>1 DEF Transcript!Rows
<1>3. 1 .. Len(lines') = 1 .. Len(lines) \cup {n} /\ n \notin 1 .. Len(lines)
  BY <1>1
<1>4. /\ row => Transcript!Rows' = Transcript!Rows \cup {n}
      /\ ~row => Transcript!Rows' = Transcript!Rows
  BY <1>1, <1>3 DEF Transcript!Rows
<1>5. ASSUME NEW i \in 1 .. Len(lines)
      PROVE  /\ i \in Transcript!Rows' <=> i \in Transcript!Rows
             /\ lines'[i] = lines[i]
  BY <1>1, <1>3, <1>4
<1>6. ASSUME NEW i \in 1 .. Len(lines)
      PROVE  /\ Transcript!Wrong(i)' <=> Transcript!Wrong(i)
             /\ Transcript!Unsure(i)' <=> Transcript!Unsure(i)
             /\ Transcript!Signs(i)' <=> Transcript!Signs(i)
  <2>1. Transcript!Signs(i)' <=> Transcript!Signs(i)
    BY <1>5 DEF Transcript!Signs
  <2>2. Transcript!Unsure(i)' <=> Transcript!Unsure(i)
    BY <1>5 DEF Transcript!Unsure
  <2>3. Transcript!Wrong(i)' <=> Transcript!Wrong(i)
    BY <1>5, <2>1 DEF Transcript!Wrong
  <2> QED BY <2>1, <2>2, <2>3
<1>7. ASSUME NEW i \in 1 .. Len(lines), NEW j \in 1 .. Len(lines)
      PROVE  /\ Transcript!Precedes(i, j)' <=> Transcript!Precedes(i, j)
             /\ Transcript!Clash(i, j)' <=> Transcript!Clash(i, j)
  <2>1. ~(n < j)
    BY <1>1
  <2>2. Transcript!Precedes(i, j)' <=> Transcript!Precedes(i, j)
    BY <1>4, <2>1 DEF Transcript!Precedes
  <2>3. Transcript!Clash(i, j)' <=> Transcript!Clash(i, j)
    BY <1>5, <1>6, <2>2 DEF Transcript!Clash
  <2> QED BY <2>2, <2>3
<1> QED BY <1>1, <1>2, <1>4, <1>6, <1>7

\* A line that is no row is wrong, and no other line is judged by it.
LEMMA UnusableFacts ==
  ASSUME Transcript!TypeOK, NEW l \in Entry, lines' = Append(lines, l),
         ~(l.form = "object" /\ l.shaped)
  PROVE  LinesFail'
<1> PICK n \in Nat : n = Len(lines) + 1
  BY DEF Transcript!TypeOK
<1>1. Len(lines) \in Nat /\ Len(lines') = n /\ Transcript!Rows' = Transcript!Rows
  BY LineFacts DEF Transcript!TypeOK
<1>2. Transcript!Rows \subseteq 1 .. Len(lines)
  BY LineFacts DEF Transcript!TypeOK
<1>3. n \in 1 .. Len(lines') /\ n \notin Transcript!Rows'
  BY <1>1, <1>2
<1>4. Transcript!Wrong(n)'
  BY <1>3 DEF Transcript!Wrong
<1> QED BY <1>3, <1>4 DEF LinesFail

\* A row is wrong with the lines before it exactly if it is wrong itself, its
\* identity was met, or its number does not advance.
LEMMA RowFacts ==
  ASSUME Transcript!TypeOK, Transcript!RowsInOrder, NEW l \in Entry,
         lines' = Append(lines, l), l.form = "object", l.shaped
  PROVE  /\ LinesFail' <=>
              \/ LinesFail \/ RowFails(l)
              \/ priorSeq # Transcript!Nothing /\ l.seq <= priorSeq
         /\ LinesUnsure' <=> LinesUnsure \/ l.extra \/ Transcript!Case(l) = "legacy"
<1> PICK n \in Nat : n = Len(lines) + 1
  BY DEF Transcript!TypeOK
<1> DEFINE behind == priorSeq # Transcript!Nothing /\ l.seq <= priorSeq
           met == /\ Transcript!Case(l) = "signed" /\ Transcript!Met(l)
                  /\ Transcript!Identity(l) \in seen
<1>1. /\ Len(lines) \in Nat /\ Len(lines') = n /\ lines'[n] = l /\ n \in Nat
      /\ \A i \in 1 .. Len(lines) : lines'[i] = lines[i]
      /\ Transcript!Rows \subseteq 1 .. Len(lines)
      /\ Transcript!Rows' = Transcript!Rows \cup {n}
  BY LineFacts DEF Transcript!TypeOK
<1>2. \A i \in 1 .. Len(lines) : /\ Transcript!Wrong(i)' <=> Transcript!Wrong(i)
                                 /\ Transcript!Unsure(i)' <=> Transcript!Unsure(i)
                                 /\ Transcript!Signs(i)' <=> Transcript!Signs(i)
  BY LineFacts DEF Transcript!TypeOK
<1>3. \A i, j \in 1 .. Len(lines) : Transcript!Clash(i, j)' <=> Transcript!Clash(i, j)
  BY LineFacts DEF Transcript!TypeOK
<1>4. 1 .. Len(lines') = 1 .. Len(lines) \cup {n} /\ n \notin 1 .. Len(lines)
  BY <1>1
<1>5. /\ l.seq \in Nat /\ priorSeq \in Nat \cup {Transcript!Nothing}
      /\ Transcript!Signs(n)' <=> Transcript!Case(l) = "signed"
  BY <1>1, EntryAssumption DEF Transcript!LineRecord, Transcript!TypeOK, Transcript!Signs
<1>6. Transcript!Wrong(n)' <=>
        \/ Transcript!didLike(l) /\ ~Transcript!key(l)
        \/ Transcript!Case(l) \in {"shape", "noNonce"}
        \/ Transcript!Case(l) = "signed" /\ ~(Transcript!Verifiable(l) /\ l.sig = "right")
  BY <1>1, <1>5 DEF Transcript!Wrong
<1>7. ASSUME NEW i \in Transcript!Rows
      PROVE  Transcript!Precedes(i, n)' <=> \A k \in Transcript!Rows : k <= i
  BY <1>1 DEF Transcript!Precedes
<1>8. (\E i \in Transcript!Rows : Transcript!Precedes(i, n)' /\ l.seq <= lines[i].seq) <=> behind
  <2>1. CASE Transcript!Rows = {} /\ priorSeq = Transcript!Nothing
    BY <2>1
  <2>2. CASE \E i \in Transcript!Rows :
               priorSeq = lines[i].seq /\ \A k \in Transcript!Rows : k <= i
    <3> PICK i \in Transcript!Rows :
               priorSeq = lines[i].seq /\ \A k \in Transcript!Rows : k <= i
      BY <2>2
    <3>1. lines[i].seq \in Nat
      <4>1. i \in 1 .. Len(lines) /\ lines \in Seq(Entry)
        BY <1>1 DEF Transcript!TypeOK
      <4>2. lines[i] \in Entry
        BY <4>1
      <4> QED BY <4>2, EntryAssumption DEF Transcript!LineRecord
    <3>2. behind <=> l.seq <= lines[i].seq
      BY <3>1 DEF Transcript!Nothing
    <3>3. \A k \in Transcript!Rows : (\A m \in Transcript!Rows : m <= k) => k = i
      BY <1>1
    <3> QED BY <1>7, <3>2, <3>3
  <2> QED BY <2>1, <2>2 DEF Transcript!RowsInOrder
<1>9. (\E i \in Transcript!Rows :
         /\ Transcript!Signs(i) /\ Transcript!Case(l) = "signed" /\ Transcript!Met(lines[i])
         /\ Transcript!Identity(lines[i]) = Transcript!Identity(l)) <=> met
  <2>1. \A i \in Transcript!Rows : Transcript!Identity(lines[i]) = Transcript!Identity(l) =>
          (Transcript!Met(lines[i]) <=> Transcript!Met(l))
    BY DEF Transcript!Identity, Transcript!Met, Transcript!goodNonce, Transcript!key
  <2>2. Transcript!Identity(l) \in seen <=>
          \E i \in Transcript!Rows : /\ Transcript!Signs(i) /\ Transcript!Met(lines[i])
                                     /\ Transcript!Identity(lines[i]) = Transcript!Identity(l)
    BY DEF Transcript!RowsInOrder
  <2> QED BY <2>1, <2>2
<1>10. ASSUME NEW i \in Transcript!Rows
       PROVE  Transcript!Clash(i, n)' <=>
                \/ Transcript!Precedes(i, n)' /\ l.seq <= lines[i].seq
                \/ /\ Transcript!Signs(i) /\ Transcript!Case(l) = "signed"
                   /\ Transcript!Met(lines[i])
                   /\ Transcript!Identity(lines[i]) = Transcript!Identity(l)
  <2>1. i \in 1 .. Len(lines) /\ i < n /\ lines'[i] = lines[i]
    BY <1>1
  <2> QED BY <1>1, <1>2, <1>5, <2>1 DEF Transcript!Clash
<1>11. ASSUME NEW j \in Transcript!Rows' PROVE ~Transcript!Clash(n, j)'
  <2>1. ~(n < j)
    BY <1>1
  <2> QED BY <2>1 DEF Transcript!Clash, Transcript!Precedes
<1>12. (\E i, j \in Transcript!Rows' : Transcript!Clash(i, j)') <=>
         (\E i, j \in Transcript!Rows : Transcript!Clash(i, j)) \/ behind \/ met
  <2> HIDE DEF behind, met
  <2>1. (\E i, j \in Transcript!Rows' : Transcript!Clash(i, j)') <=>
          \/ \E i, j \in Transcript!Rows : Transcript!Clash(i, j)'
          \/ \E i \in Transcript!Rows : Transcript!Clash(i, n)'
    BY <1>1, <1>11
  <2>2. (\E i, j \in Transcript!Rows : Transcript!Clash(i, j)') <=>
          \E i, j \in Transcript!Rows : Transcript!Clash(i, j)
    BY <1>1, <1>3
  <2>3. (\E i \in Transcript!Rows : Transcript!Clash(i, n)') <=> behind \/ met
    BY <1>8, <1>9, <1>10
  <2> QED BY <2>1, <2>2, <2>3
<1>13. (\E i \in 1 .. Len(lines') : Transcript!Wrong(i)') <=>
         (\E i \in 1 .. Len(lines) : Transcript!Wrong(i)) \/ Transcript!Wrong(n)'
  BY <1>2, <1>4
<1>14. LinesFail' <=> LinesFail \/ RowFails(l) \/ behind
  <2> HIDE DEF behind
  <2> QED BY <1>6, <1>12, <1>13 DEF LinesFail, RowFails
<1>15. LinesUnsure' <=> LinesUnsure \/ l.extra \/ Transcript!Case(l) = "legacy"
  <2>1. Transcript!Unsure(n)' <=> l.extra \/ Transcript!Case(l) = "legacy"
    BY <1>1 DEF Transcript!Unsure
  <2> QED BY <1>1, <1>2, <2>1 DEF LinesUnsure
<1> QED BY <1>14, <1>15

LEMMA TranscriptBegin == Transcript!Init => Transcript!Inductive
<1> SUFFICES ASSUME Transcript!Init PROVE Transcript!Inductive
  OBVIOUS
<1>1. Transcript!TypeOK
  BY DEF Transcript!Init, Transcript!TypeOK, Transcript!newChecks, Transcript!Check,
     Transcript!CONTENT, Transcript!COVERAGE, Transcript!Status, Transcript!Verdicts,
     Transcript!Nothing
<1>2. Transcript!Rows = {} /\ lines = << >> /\ Len(lines) = 0
  BY DEF Transcript!Init, Transcript!Rows
<1>3. ASSUME NEW c \in Transcript!CONTENT
      PROVE  checks[c] \in {"PASS", "NOT_APPLICABLE"}
  BY DEF Transcript!Init, Transcript!newChecks, Transcript!Check, Transcript!CONTENT,
     Transcript!COVERAGE
<1>4. Transcript!FindingsInOrder
  BY <1>2, <1>3 DEF Transcript!FindingsInOrder
<1>5. Transcript!CountersInOrder /\ Transcript!RowsInOrder /\ Transcript!OrderInOrder
  BY <1>2
     DEF Transcript!Init, Transcript!CountersInOrder, Transcript!RowsInOrder,
         Transcript!OrderInOrder
<1> QED BY <1>1, <1>4, <1>5 DEF Transcript!Inductive

LEMMA UnusableStep ==
  ASSUME Transcript!Inductive, NEW l \in Entry, lines' = Append(lines, l),
         UNCHANGED <<known, outcome>>, Transcript!ReadUnusable(l)
  PROVE  Transcript!Inductive'
<1> USE DEF Transcript!Inductive
<1>1. /\ ~(l.form = "object" /\ l.shaped)
      /\ UNCHANGED <<signedVerified, unsignedContext, legacyUnverifiable, seen, priorSeq,
                     previousTime, gaps>>
      /\ rows' \in {rows, rows + 1}
  BY EntryAssumption
     DEF Transcript!ReadUnusable, Transcript!rowsAfter, Transcript!LineRecord
<1>2. PICK found : /\ checks' = Transcript!update(found) /\ Fails(found)
                   /\ <<"SEQ_ORDER", "FAIL">> \notin found
  BY DEF Transcript!ReadUnusable, Fails, Transcript!CONTENT
<1>3. /\ checks' \in [Transcript!Check -> Transcript!Status] /\ ChecksFail'
      /\ checks'["SEQ_ORDER"] = "FAIL" <=> checks["SEQ_ORDER"] = "FAIL"
  BY <1>2, FoundFacts DEF Transcript!TypeOK
<1>4. /\ Len(lines) \in Nat /\ Len(lines') = Len(lines) + 1 /\ lines' \in Seq(Entry)
      /\ \A i \in 1 .. Len(lines) : lines'[i] = lines[i]
      /\ Transcript!Rows \subseteq 1 .. Len(lines) /\ Transcript!Rows' = Transcript!Rows
  BY <1>1, LineFacts DEF Transcript!TypeOK
<1>5. /\ \A i \in 1 .. Len(lines) : Transcript!Signs(i)' <=> Transcript!Signs(i)
      /\ \A i, j \in 1 .. Len(lines) :
           Transcript!Precedes(i, j)' <=> Transcript!Precedes(i, j)
  BY LineFacts DEF Transcript!TypeOK
<1>6. Transcript!TypeOK' /\ Transcript!CountersInOrder'
  BY <1>1, <1>3, <1>4 DEF Transcript!TypeOK, Transcript!CountersInOrder
<1>7. Transcript!RowsInOrder'
  <2>1. \A i \in Transcript!Rows : lines'[i] = lines[i] /\ (Transcript!Signs(i)' <=> Transcript!Signs(i))
    BY <1>4, <1>5
  <2>2. {i \in Transcript!Rows' : Transcript!Signs(i)' /\ Transcript!Met(lines'[i])}
          = {i \in Transcript!Rows : Transcript!Signs(i) /\ Transcript!Met(lines[i])}
    BY <1>4, <2>1
  <2>3. seen' = {Transcript!Identity(lines'[i]) : i \in
                   {i \in Transcript!Rows' : Transcript!Signs(i)' /\ Transcript!Met(lines'[i])}}
    BY <1>1, <2>1, <2>2 DEF Transcript!RowsInOrder
  <2> QED BY <1>1, <1>4, <2>1, <2>3 DEF Transcript!RowsInOrder
<1>8. Transcript!FindingsInOrder'
  <2>1. LinesFail'
    BY <1>1, UnusableFacts
  <2> QED BY <1>3, <2>1 DEF Transcript!FindingsInOrder, ChecksFail, LinesFail
<1>9. Transcript!OrderInOrder'
  BY <1>1, <1>3, <1>4, <1>5 DEF Transcript!OrderInOrder
<1> QED BY <1>6, <1>7, <1>8, <1>9

LEMMA RowStep ==
  ASSUME Transcript!Inductive, NEW l \in Entry, lines' = Append(lines, l),
         UNCHANGED <<known, outcome>>, Transcript!ReadRow(l)
  PROVE  Transcript!Inductive'
<1> USE DEF Transcript!Inductive
<1> PICK n \in Nat : n = Len(lines) + 1
  BY DEF Transcript!TypeOK
<1> DEFINE behind == priorSeq # Transcript!Nothing /\ l.seq <= priorSeq
           signed == Transcript!Case(l) = "signed"
<1>1. /\ l.form = "object" /\ l.shaped /\ rows' = rows + 1 /\ priorSeq' = l.seq
      /\ gaps' = IF priorSeq # Transcript!Nothing /\ l.seq > priorSeq + 1 THEN gaps + 1 ELSE gaps
      /\ previousTime' \in {l.time, previousTime}
      /\ checks' = Transcript!update(Transcript!Findings(l))
  BY DEF Transcript!ReadRow, Transcript!rowsAfter
<1>2. /\ unsignedContext' = IF Transcript!Case(l) = "context" THEN unsignedContext + 1
                            ELSE unsignedContext
      /\ legacyUnverifiable' = IF Transcript!Case(l) = "legacy" THEN legacyUnverifiable + 1
                               ELSE legacyUnverifiable
      /\ signedVerified' = IF signed /\ Transcript!Verifiable(l) /\ l.sig = "right"
                           THEN signedVerified + 1 ELSE signedVerified
      /\ seen' = IF signed /\ Transcript!Met(l) THEN seen \cup {Transcript!Identity(l)} ELSE seen
  BY DEF Transcript!ReadRow
<1>3. l.seq \in Nat /\ l.time \in Nat
  BY EntryAssumption DEF Transcript!LineRecord
<1>4. /\ Len(lines) \in Nat /\ Len(lines') = n /\ lines' \in Seq(Entry) /\ lines'[n] = l
      /\ \A i \in 1 .. Len(lines) : lines'[i] = lines[i]
      /\ Transcript!Rows \subseteq 1 .. Len(lines)
      /\ Transcript!Rows' = Transcript!Rows \cup {n}
  BY <1>1, LineFacts DEF Transcript!TypeOK
<1>5. /\ \A i \in 1 .. Len(lines) : Transcript!Signs(i)' <=> Transcript!Signs(i)
      /\ \A i, j \in 1 .. Len(lines) :
           Transcript!Precedes(i, j)' <=> Transcript!Precedes(i, j)
  BY LineFacts DEF Transcript!TypeOK
<1>6. /\ checks' \in [Transcript!Check -> Transcript!Status]
      /\ ChecksFail' <=> ChecksFail \/ Fails(Transcript!Findings(l))
      /\ ~ChecksFail' => (ChecksUnknown' <=> ChecksUnknown \/ Unknown(Transcript!Findings(l)))
      /\ checks'["SEQ_ORDER"] = "FAIL" <=>
           checks["SEQ_ORDER"] = "FAIL" \/ <<"SEQ_ORDER", "FAIL">> \in Transcript!Findings(l)
  BY <1>1, FoundFacts DEF Transcript!TypeOK
<1>7. /\ Fails(Transcript!Findings(l)) <=> RowFails(l) \/ behind
      /\ ~Fails(Transcript!Findings(l)) =>
           (Unknown(Transcript!Findings(l)) <=> l.extra \/ Transcript!Case(l) = "legacy")
      /\ <<"SEQ_ORDER", "FAIL">> \in Transcript!Findings(l) <=> behind
  BY FindingsFacts DEF Transcript!TypeOK
<1>8. Transcript!TypeOK'
  BY <1>1, <1>2, <1>3, <1>4, <1>6 DEF Transcript!TypeOK
<1>9. Transcript!CountersInOrder'
  <2>1. /\ rows \in Nat /\ signedVerified \in Nat /\ unsignedContext \in Nat
        /\ legacyUnverifiable \in Nat /\ gaps \in Nat /\ n = Len(lines) + 1
        /\ Len(lines) \in Nat /\ rows' = rows + 1 /\ Len(lines') = n
    BY <1>1, <1>4 DEF Transcript!TypeOK
  <2>2. \/ /\ signedVerified' \in {signedVerified, signedVerified + 1}
           /\ UNCHANGED <<unsignedContext, legacyUnverifiable>>
        \/ /\ unsignedContext' = unsignedContext + 1
           /\ UNCHANGED <<signedVerified, legacyUnverifiable>>
        \/ /\ legacyUnverifiable' = legacyUnverifiable + 1
           /\ UNCHANGED <<signedVerified, unsignedContext>>
    BY <1>2
  <2>3. gaps' \in {gaps, gaps + 1}
    BY <1>1
  <2>4. /\ signedVerified + unsignedContext + legacyUnverifiable <= rows
        /\ rows <= Len(lines) /\ gaps <= rows
    BY DEF Transcript!CountersInOrder
  <2>5. gaps' <= rows' /\ rows' <= Len(lines')
    BY <2>1, <2>3, <2>4
  <2>6. signedVerified' + unsignedContext' + legacyUnverifiable' <= rows'
    BY <2>1, <2>2, <2>4
  <2> QED BY <2>5, <2>6 DEF Transcript!CountersInOrder
<1>10. ASSUME NEW i \in Transcript!Rows
       PROVE  /\ i \in 1 .. Len(lines) /\ i < n /\ lines'[i] = lines[i]
              /\ Transcript!Signs(i)' <=> Transcript!Signs(i)
  BY <1>4, <1>5
<1>11. Transcript!Signs(n)' <=> signed
  BY <1>4 DEF Transcript!Signs
<1>12. Transcript!RowsInOrder'
  <2>1. priorSeq' = lines'[n].seq /\ \A k \in Transcript!Rows' : k <= n
    BY <1>1, <1>4, <1>10
  <2>2. seen' = {Transcript!Identity(lines'[i]) : i \in
                   {i \in Transcript!Rows' : Transcript!Signs(i)' /\ Transcript!Met(lines'[i])}}
    <3>1. seen = {Transcript!Identity(lines[i]) : i \in
                   {i \in Transcript!Rows : Transcript!Signs(i) /\ Transcript!Met(lines[i])}}
      BY DEF Transcript!RowsInOrder
    <3> HIDE DEF signed
    <3> QED BY <1>2, <1>4, <1>10, <1>11, <3>1
  <2>3. signedVerified' = 0 <=>
          \A i \in Transcript!Rows' :
            ~(Transcript!Signs(i)' /\ Transcript!Verifiable(lines'[i]) /\ lines'[i].sig = "right")
    <3>1. signedVerified = 0 <=>
            \A i \in Transcript!Rows :
              ~(Transcript!Signs(i) /\ Transcript!Verifiable(lines[i]) /\ lines[i].sig = "right")
      BY DEF Transcript!RowsInOrder
    <3>2. signedVerified \in Nat
      BY DEF Transcript!TypeOK
    <3>3. CASE signed /\ Transcript!Verifiable(l) /\ l.sig = "right"
      <4>1. signedVerified' # 0
        BY <1>2, <3>2, <3>3
      <4> HIDE DEF signed
      <4> QED BY <1>4, <1>11, <3>3, <4>1
    <3>4. CASE ~(signed /\ Transcript!Verifiable(l) /\ l.sig = "right")
      <4>1. signedVerified' = signedVerified
        BY <1>2, <3>4
      <4> HIDE DEF signed
      <4> QED BY <1>4, <1>10, <1>11, <3>1, <3>4, <4>1
    <3> QED BY <3>3, <3>4
  <2> QED BY <1>4, <2>1, <2>2, <2>3 DEF Transcript!RowsInOrder
<1>13. Transcript!FindingsInOrder'
  <2> SUFFICES ASSUME Transcript!Reading'
               PROVE  /\ ChecksFail' <=> LinesFail'
                      /\ ~ChecksFail' => (ChecksUnknown' <=> LinesUnsure')
    BY DEF Transcript!FindingsInOrder, ChecksFail, ChecksUnknown, LinesFail, LinesUnsure
  <2>1. /\ ChecksFail <=> LinesFail
        /\ ~ChecksFail => (ChecksUnknown <=> LinesUnsure)
    BY DEF Transcript!FindingsInOrder, Transcript!Reading, ChecksFail, ChecksUnknown, LinesFail,
       LinesUnsure
  <2>2. /\ LinesFail' <=> LinesFail \/ RowFails(l) \/ behind
        /\ LinesUnsure' <=> LinesUnsure \/ l.extra \/ Transcript!Case(l) = "legacy"
    BY <1>1, RowFacts
  <2> HIDE DEF behind
  <2> QED BY <1>6, <1>7, <2>1, <2>2
<1>14. Transcript!OrderInOrder'
  <2> SUFFICES ASSUME checks'["SEQ_ORDER"] # "FAIL", gaps' = 0,
                      NEW i \in Transcript!Rows', NEW j \in Transcript!Rows',
                      Transcript!Precedes(i, j)'
               PROVE  lines'[j].seq = lines'[i].seq + 1
    BY DEF Transcript!OrderInOrder
  <2>1. /\ checks["SEQ_ORDER"] # "FAIL" /\ ~behind /\ gaps = 0
        /\ priorSeq # Transcript!Nothing => l.seq = priorSeq + 1
    BY <1>1, <1>3, <1>6, <1>7 DEF Transcript!TypeOK
  <2>2. i < j /\ \A k \in Transcript!Rows' : ~(i < k /\ k < j)
    BY DEF Transcript!Precedes
  <2>3. i \in Transcript!Rows
    BY <1>4, <1>10, <2>2
  <2>4. CASE j = n
    <3>1. PICK m \in Transcript!Rows :
            priorSeq = lines[m].seq /\ \A k \in Transcript!Rows : k <= m
      BY <2>3 DEF Transcript!RowsInOrder
    <3>2. m = i
      BY <1>4, <1>10, <2>2, <2>3, <2>4, <3>1
    <3>3. lines[m].seq \in Nat
      <4>1. lines \in Seq(Entry) /\ m \in 1 .. Len(lines)
        BY <1>10 DEF Transcript!TypeOK
      <4>2. lines[m] \in Entry
        BY <4>1
      <4> QED BY <4>2, EntryAssumption DEF Transcript!LineRecord
    <3> QED BY <1>4, <1>10, <2>1, <2>4, <3>1, <3>2, <3>3 DEF Transcript!Nothing
  <2>5. CASE j \in Transcript!Rows
    BY <1>5, <1>10, <2>1, <2>3, <2>5 DEF Transcript!OrderInOrder
  <2> QED BY <1>4, <2>4, <2>5
<1> QED BY <1>8, <1>9, <1>12, <1>13, <1>14

\* The pass ends: nothing is read any more.
LEMMA FinishStep ==
  ASSUME Transcript!Inductive,
         Transcript!Finish \/ Transcript!FinishCut \/ Transcript!FinishFailed
  PROVE  Transcript!Inductive'
<1> USE DEF Transcript!Inductive
<1>1. /\ UNCHANGED <<lines, rows, signedVerified, unsignedContext, legacyUnverifiable, seen,
                     priorSeq, previousTime, gaps, known>>
      /\ outcome' \in Transcript!Verdicts \cup {"INTERNAL_ERROR"}
  BY DEF Transcript!Finish, Transcript!FinishCut, Transcript!FinishFailed, Transcript!counters,
     Transcript!Verdict, Transcript!Verdicts
<1>2. /\ checks' \in [Transcript!Check -> Transcript!Status]
      /\ checks'["SEQ_ORDER"] = "FAIL" <=> checks["SEQ_ORDER"] = "FAIL"
  <2>1. CASE Transcript!FinishCut
    <3>1. checks' = Transcript!update({<<"JSONL_FORM", "FAIL">>})
      BY <2>1 DEF Transcript!FinishCut
    <3>2. <<"SEQ_ORDER", "FAIL">> \notin {<<"JSONL_FORM", "FAIL">>}
      OBVIOUS
    <3> QED BY <3>1, <3>2, FoundFacts DEF Transcript!TypeOK
  <2>2. CASE Transcript!Finish \/ Transcript!FinishFailed
    BY <2>2 DEF Transcript!Finish, Transcript!FinishFailed, Transcript!TypeOK
  <2> QED BY <2>1, <2>2
<1>3. Transcript!TypeOK' /\ Transcript!CountersInOrder'
  BY <1>1, <1>2 DEF Transcript!TypeOK, Transcript!CountersInOrder
<1>4. Transcript!Rows' = Transcript!Rows
  BY <1>1 DEF Transcript!Rows
<1>5. Transcript!RowsInOrder' /\ Transcript!OrderInOrder'
  BY <1>1, <1>2, <1>4
     DEF Transcript!RowsInOrder, Transcript!OrderInOrder, Transcript!Precedes, Transcript!Signs
<1>6. Transcript!FindingsInOrder'
  BY <1>1 DEF Transcript!FindingsInOrder, Transcript!Reading, Transcript!Verdicts
<1> QED BY <1>3, <1>5, <1>6

\* What is reported of a check is what it found, unless nothing was there to find.
LEMMA ReportedFacts ==
  ASSUME NEW c \in Transcript!Check
  PROVE  /\ Transcript!Reported[c] \in {"NOT_APPLICABLE", checks[c]}
         /\ rows # 0 \/ lines # << >> => (Transcript!Reported[c] = "FAIL" <=> checks[c] = "FAIL")
         /\ rows # 0 \/ lines # << >> =>
              (Transcript!Reported[c] = "UNKNOWN" <=> checks[c] = "UNKNOWN")
BY DEF Transcript!Reported

LEMMA JudgedFacts == Transcript!Inductive => Transcript!VerdictIsMeaning
<1> SUFFICES ASSUME Transcript!Inductive, Transcript!Reading
             PROVE  Transcript!Verdict = Transcript!Meaning
  BY DEF Transcript!VerdictIsMeaning
<1> DEFINE reportedFail == \E c \in Transcript!CONTENT : Transcript!Reported[c] = "FAIL"
           reportedUnknown == \E c \in Transcript!CONTENT : Transcript!Reported[c] = "UNKNOWN"
<1>1. /\ ChecksFail <=> LinesFail
      /\ ~ChecksFail => (ChecksUnknown <=> LinesUnsure)
  BY DEF Transcript!Inductive, Transcript!FindingsInOrder, ChecksFail, ChecksUnknown, LinesFail,
     LinesUnsure
<1>2. Transcript!CONTENT \subseteq Transcript!Check
  BY DEF Transcript!Check
<1>3. /\ reportedFail <=> ChecksFail
      /\ ~ChecksFail => (reportedUnknown <=> ChecksUnknown)
  <2>1. CASE lines # << >>
    BY <1>2, <2>1, ReportedFacts DEF ChecksFail, ChecksUnknown
  <2>2. CASE lines = << >>
    <3>1. ~LinesFail /\ ~LinesUnsure
      BY <2>2 DEF LinesFail, LinesUnsure, Transcript!Rows
    <3>2. \A c \in Transcript!CONTENT : checks[c] # "FAIL" /\ checks[c] # "UNKNOWN"
      BY <1>1, <3>1 DEF ChecksFail, ChecksUnknown
    <3>3. \A c \in Transcript!CONTENT : Transcript!Reported[c] \in {"NOT_APPLICABLE", checks[c]}
      BY <1>2, ReportedFacts
    <3> QED BY <3>2, <3>3 DEF ChecksFail, ChecksUnknown
  <2> QED BY <2>1, <2>2
<1>4. ~LinesFail => (signedVerified = 0 <=> \A i \in Transcript!Rows : ~Transcript!Signs(i))
  <2>1. ASSUME ~LinesFail, NEW i \in Transcript!Rows, Transcript!Signs(i)
        PROVE  Transcript!Verifiable(lines[i]) /\ lines[i].sig = "right"
    <3>1. i \in 1 .. Len(lines) /\ ~Transcript!Wrong(i)
      BY <2>1 DEF LinesFail, Transcript!Rows
    <3> QED BY <2>1, <3>1 DEF Transcript!Wrong
  <2> QED BY <2>1 DEF Transcript!Inductive, Transcript!RowsInOrder
<1>5. Transcript!Verdict = IF reportedFail THEN "INVALID"
        ELSE IF signedVerified = 0 \/ reportedUnknown THEN "INDETERMINATE" ELSE "VALID"
  BY DEF Transcript!Verdict
<1>6. Transcript!Meaning = IF LinesFail THEN "INVALID"
        ELSE IF LinesUnsure \/ (\A i \in Transcript!Rows : ~Transcript!Signs(i))
             THEN "INDETERMINATE" ELSE "VALID"
  BY DEF Transcript!Meaning, LinesFail, LinesUnsure
<1> HIDE DEF reportedFail, reportedUnknown
<1> QED BY <1>1, <1>3, <1>4, <1>5, <1>6

LEMMA BoundedFacts == Transcript!Inductive => Transcript!BoundedIsContiguous
<1> SUFFICES ASSUME Transcript!Inductive, Transcript!windowStatus = "BOUNDED"
             PROVE  \A i, j \in Transcript!Rows :
                      Transcript!Precedes(i, j) => lines[j].seq = lines[i].seq + 1
  BY DEF Transcript!BoundedIsContiguous
<1>1. rows \in Nat /\ gaps \in Nat
  BY DEF Transcript!Inductive, Transcript!TypeOK
<1>2. rows # 0 /\ Transcript!Reported["SEQ_ORDER"] # "FAIL" /\ gaps = 0
  BY <1>1 DEF Transcript!windowStatus
<1>3. "SEQ_ORDER" \in Transcript!Check
  BY DEF Transcript!Check, Transcript!CONTENT
<1>4. checks["SEQ_ORDER"] # "FAIL"
  BY <1>2, <1>3, ReportedFacts
<1> QED BY <1>2, <1>4 DEF Transcript!Inductive, Transcript!OrderInOrder

LEMMA TranscriptStep ==
  ASSUME Transcript!Inductive, [Transcript!Next]_Transcript!vars
  PROVE  Transcript!Inductive'
<1>1. CASE Transcript!ReadLine
  <2>1. UNCHANGED <<known, outcome>>
    BY <1>1 DEF Transcript!ReadLine
  <2>2. PICK l \in Entry : /\ lines' = Append(lines, l)
                           /\ Transcript!ReadUnusable(l) \/ Transcript!ReadRow(l)
    BY <1>1 DEF Transcript!ReadLine
  <2> QED BY <2>1, <2>2, UnusableStep, RowStep
<1>2. CASE UNCHANGED Transcript!vars
  BY <1>2
     DEF Transcript!vars, Transcript!counters, Transcript!Inductive, Transcript!TypeOK,
         Transcript!CountersInOrder, Transcript!RowsInOrder, Transcript!FindingsInOrder,
         Transcript!OrderInOrder, Transcript!Reading, Transcript!Rows, Transcript!Signs,
         Transcript!Precedes, Transcript!Wrong, Transcript!Clash, Transcript!Unsure
<1> QED BY <1>1, <1>2, FinishStep DEF Transcript!Next

\* A check that failed stays failed, and what was reported stays reported.
LEMMA DecidedFacts ==
  ASSUME Transcript!Inductive, [Transcript!Next]_Transcript!vars
  PROVE  TranscriptDecided
<1>1. Transcript!Verdict = "INVALID" <=>
        \E c \in Transcript!CONTENT : Transcript!Reported[c] = "FAIL"
  BY DEF Transcript!Verdict
<1>2. Transcript!Verdict' = "INVALID" <=>
        \E c \in Transcript!CONTENT : Transcript!Reported'[c] = "FAIL"
  BY DEF Transcript!Verdict
<1>3. \/ \E found : checks' = Transcript!update(found)
      \/ checks' = checks
  BY DEF Transcript!Next, Transcript!ReadLine, Transcript!ReadUnusable, Transcript!ReadRow,
     Transcript!Finish, Transcript!FinishCut, Transcript!FinishFailed, Transcript!vars
<1>4. \/ lines' # << >>
      \/ lines' = lines /\ rows' = rows
  <2>1. CASE Transcript!ReadLine
    <3>1. PICK l \in Entry : lines' = Append(lines, l)
      BY <2>1 DEF Transcript!ReadLine
    <3>2. lines \in Seq(Entry)
      BY DEF Transcript!Inductive, Transcript!TypeOK
    <3> QED BY <3>1, <3>2
  <2>2. CASE ~Transcript!ReadLine
    BY <2>2
       DEF Transcript!Next, Transcript!Finish, Transcript!FinishCut, Transcript!FinishFailed,
           Transcript!vars, Transcript!counters
  <2> QED BY <2>1, <2>2
<1>5. ASSUME NEW c \in Transcript!CONTENT, Transcript!Reported[c] = "FAIL"
      PROVE  Transcript!Reported'[c] = "FAIL"
  <2>1. c \in Transcript!Check /\ checks \in [Transcript!Check -> Transcript!Status]
    BY DEF Transcript!Check, Transcript!Inductive, Transcript!TypeOK
  <2>2. checks[c] = "FAIL"
    BY <1>5, <2>1, ReportedFacts
  <2>3. checks'[c] = "FAIL"
    BY <1>3, <2>1, <2>2, UpdateFacts
  <2>4. ~(rows = 0 /\ lines = << >> /\ c \in {"JSONL_FORM", "RECORD_SHAPE", "SEQ_ORDER"})
    BY <1>5, <2>1 DEF Transcript!Reported
  <2>5. ~(rows' = 0 /\ lines' = << >> /\ c \in {"JSONL_FORM", "RECORD_SHAPE", "SEQ_ORDER"})
    BY <1>4, <2>4
  <2> QED BY <2>1, <2>3, <2>5 DEF Transcript!Reported
<1> QED BY <1>1, <1>2, <1>5 DEF TranscriptDecided

\* The verdict of the one pass is what the lines mean, and a window called
\* bounded has no gap (verifier.mjs).
THEOREM TranscriptHolds == Transcript!Spec => []TranscriptSound
<1>1. Transcript!Spec => []Transcript!Inductive
  BY TranscriptBegin, TranscriptStep, PTL DEF Transcript!Spec
<1>2. Transcript!Inductive => TranscriptSound
  BY JudgedFacts, BoundedFacts DEF TranscriptSound
<1> QED BY <1>1, <1>2, PTL

-----------------------------------------------------------------------------
(***************************************************************************)
(* The replay.                                                             *)
(***************************************************************************)
ReplaySound ==
  /\ Replay!Inductive
  /\ Replay!PathIsHistory /\ Replay!EndIsShown /\ Replay!AdvanceIsAChange
  /\ Replay!OneLockMark /\ Replay!FlatClockNeverRefunds

\* How far each status is: a status is entered from one before it, and two that
\* are as far have both ended.
LEMMA StatusRanks ==
  /\ \A s \in Replay!Status : /\ Replay!rank[s] \in 0 .. 4
                              /\ Replay!rank[s] = 4 <=> s \in Replay!TERMINAL
                              /\ Replay!Before(s) \subseteq Replay!Status
  /\ \A s \in Replay!Status : \A b \in Replay!Before(s) :
       Replay!rank[b] < Replay!rank[s] /\ b \notin Replay!TERMINAL
BY DEF Replay!rank, Replay!Status, Replay!TERMINAL, Replay!Before

\* What an accepted frame does to the contract, and a rejected one leaves.
LEMMA FrameFacts ==
  ASSUME Replay!TypeOK, NEW l \in Frame, NEW at \in Clock
  PROVE  LET after == Replay!After(l, at)
             ok == Replay!Accepted(l, at)
         IN  /\ after \in Replay!Status /\ ok \in BOOLEAN
             /\ ~ok => after = contract
             /\ \/ after = contract /\ ~(ok /\ l.type = "lock")
                \/ ok /\ contract \in Replay!Before(after) /\ (l.type = "lock" <=> after = "locked")
             /\ contract \in Replay!TERMINAL => after = contract
             /\ after = "locked" /\ contract # "locked" => at < RefundAfter
             /\ after = "refunded" /\ contract # "refunded" =>
                  contract = "locked" /\ at >= RefundAfter
<1>1. /\ l.type \in Replay!Types /\ l.good \in BOOLEAN /\ contract \in Replay!Status
  BY FrameAssumption DEF Replay!TypeOK
<1>2. CASE contract = "none"
  <2>1. Replay!Accepted(l, at) = (l.type = "offer")
    BY <1>2 DEF Replay!Accepted
  <2>2. Replay!After(l, at) = IF l.type = "offer" THEN "proposed" ELSE contract
    BY <2>1 DEF Replay!After, Replay!Outcome
  <2>3. CASE l.type = "offer"
    BY <1>2, <2>1, <2>2, <2>3 DEF Replay!Status, Replay!TERMINAL, Replay!Before
  <2>4. CASE l.type # "offer"
    BY <1>1, <1>2, <2>1, <2>2, <2>4
  <2> QED BY <2>3, <2>4
<1>3. CASE contract # "none" /\ ~Replay!Lawful(l, at)
  <2>1. Replay!Lawful(l, at) = FALSE
    BY <1>1, <1>3 DEF Replay!Lawful, Replay!Types
  <2>2. Replay!Accepted(l, at) = FALSE /\ Replay!After(l, at) = contract
    BY <1>3, <2>1 DEF Replay!After, Replay!Accepted
  <2> QED BY <1>1, <2>2
<1>4. CASE contract # "none" /\ Replay!Lawful(l, at)
  <2>1. Replay!After(l, at) = Replay!Outcome(l) /\ Replay!Accepted(l, at)
    BY <1>4 DEF Replay!After, Replay!Accepted
  <2>2. \/ l.type = "accept" /\ contract = "proposed"
        \/ l.type = "lock" /\ contract = "accepted" /\ at < RefundAfter
        \/ l.type = "reveal" /\ contract = "locked"
        \/ l.type = "refund" /\ contract = "locked" /\ at >= RefundAfter
        \/ l.type = "cancel" /\ contract \in {"proposed", "accepted"}
        \/ l.type \in {"receipt", "heartbeat"}
    BY <1>1, <1>4 DEF Replay!Lawful, Replay!Types
  <2>3. CASE l.type \in {"receipt", "heartbeat"}
    BY <1>1, <2>1, <2>3 DEF Replay!Outcome
  <2>4. CASE l.type \in {"accept", "lock"}
    BY <2>1, <2>2, <2>4 DEF Replay!Outcome, Replay!Status, Replay!TERMINAL, Replay!Before
  <2>5. CASE l.type \in {"reveal", "refund", "cancel"}
    BY <2>1, <2>2, <2>5 DEF Replay!Outcome, Replay!Status, Replay!TERMINAL, Replay!Before
  <2> QED BY <2>2, <2>3, <2>4, <2>5
<1> QED BY <1>2, <1>3, <1>4

LEMMA ReplayBegin == Replay!Init => Replay!Inductive
BY DEF Replay!Init, Replay!Inductive, Replay!TypeOK, Replay!Chain, Replay!HistoryInOrder,
   Replay!ClockInOrder, Replay!Frames, Replay!Status, Replay!Step

\* A line is read: the evidence is longer by a step that goes on from the contract.
LEMMA StepFacts ==
  ASSUME Replay!Inductive, Replay!Next
  PROVE  LET n == Len(steps) + 1
         IN  /\ Len(steps) \in Nat /\ Len(steps') = n /\ steps' \in Seq(Replay!Step)
             /\ \A i \in 1 .. Len(steps) : steps'[i] = steps[i]
             /\ steps'[n].before = contract /\ steps'[n].after = contract'
             /\ contract' \in Replay!Status
             /\ ~steps'[n].ok => contract' = contract
             /\ \/ contract' = contract /\ ~(steps'[n].ok /\ steps'[n].type = "lock")
                \/ Replay!Enters(steps'[n], contract')
             /\ contract \in Replay!TERMINAL => contract' = contract
             /\ nowMs' \in Clock /\ schedule' = schedule /\ (~schedule => nowMs' = nowMs)
             /\ contract' = "locked" /\ contract # "locked" => nowMs' < RefundAfter
             /\ contract' = "refunded" /\ contract # "refunded" =>
                  contract = "locked" /\ nowMs' >= RefundAfter
<1> USE DEF Replay!Inductive
<1> PICK l \in Frame, at \in Clock :
      /\ Replay!evaluationClock(at) /\ nowMs' = at /\ UNCHANGED schedule
      /\ contract' = Replay!After(l, at)
      /\ steps' = Append(steps, [type |-> l.type, actor |-> l.from, ok |-> Replay!Accepted(l, at),
                                 before |-> contract, after |-> contract'])
  BY DEF Replay!Next, Replay!replay
<1> DEFINE e == [type |-> l.type, actor |-> l.from, ok |-> Replay!Accepted(l, at),
                 before |-> contract, after |-> contract']
<1>1. /\ contract' \in Replay!Status /\ Replay!Accepted(l, at) \in BOOLEAN
      /\ ~Replay!Accepted(l, at) => contract' = contract
      /\ \/ contract' = contract /\ ~(Replay!Accepted(l, at) /\ l.type = "lock")
         \/ /\ Replay!Accepted(l, at) /\ contract \in Replay!Before(contract')
            /\ l.type = "lock" <=> contract' = "locked"
      /\ contract \in Replay!TERMINAL => contract' = contract
      /\ contract' = "locked" /\ contract # "locked" => at < RefundAfter
      /\ contract' = "refunded" /\ contract # "refunded" =>
           contract = "locked" /\ at >= RefundAfter
  BY FrameFacts
<1>2. e \in Replay!Step
  BY <1>1, FrameAssumption DEF Replay!Step, Replay!TypeOK
<1>3. /\ e.type = l.type /\ e.ok = Replay!Accepted(l, at)
      /\ e.before = contract /\ e.after = contract'
  OBVIOUS
<1>4. steps' = Append(steps, e)
  OBVIOUS
<1> HIDE DEF e
<1>5. /\ Len(steps) \in Nat /\ Len(steps') = Len(steps) + 1 /\ steps' \in Seq(Replay!Step)
      /\ \A i \in 1 .. Len(steps) : steps'[i] = steps[i]
      /\ steps'[Len(steps) + 1] = e
  BY <1>2, <1>4 DEF Replay!TypeOK
<1>6. ~schedule => nowMs' = nowMs
  BY DEF Replay!evaluationClock
<1> QED BY <1>1, <1>3, <1>5, <1>6 DEF Replay!Enters

LEMMA ReplayStep ==
  ASSUME Replay!Inductive, Replay!Next
  PROVE  Replay!Inductive'
<1> USE DEF Replay!Inductive, Replay!Frames
<1> DEFINE n == Len(steps) + 1
<1>1. /\ Len(steps) \in Nat /\ Len(steps') = n /\ steps' \in Seq(Replay!Step)
      /\ \A i \in 1 .. Len(steps) : steps'[i] = steps[i]
      /\ steps'[n].before = contract /\ steps'[n].after = contract'
      /\ contract' \in Replay!Status
      /\ ~steps'[n].ok => contract' = contract
      /\ \/ contract' = contract /\ ~(steps'[n].ok /\ steps'[n].type = "lock")
         \/ Replay!Enters(steps'[n], contract')
      /\ contract \in Replay!TERMINAL => contract' = contract
      /\ nowMs' \in Clock /\ schedule' = schedule /\ (~schedule => nowMs' = nowMs)
      /\ contract' = "locked" /\ contract # "locked" => nowMs' < RefundAfter
      /\ contract' = "refunded" /\ contract # "refunded" =>
           contract = "locked" /\ nowMs' >= RefundAfter
  BY StepFacts
<1> n \in Nat /\ n > 0 /\ 1 .. Len(steps') = 1 .. Len(steps) \cup {n}
  BY <1>1
<1>2. Replay!TypeOK'
  BY <1>1 DEF Replay!TypeOK
<1>3. contract = IF n = 1 THEN "none" ELSE steps[n - 1].after
  BY <1>1 DEF Replay!Chain, Replay!TypeOK
<1>4. Replay!Chain'
  <2>1. steps' # << >> /\ contract' = steps'[Len(steps')].after
    BY <1>1
  <2>2. ASSUME NEW i \in 1 .. Len(steps')
        PROVE  /\ steps'[i].before = IF i = 1 THEN "none" ELSE steps'[i - 1].after
               /\ ~steps'[i].ok => steps'[i].after = steps'[i].before
    <3>1. CASE i = n
      <4>1. n # 1 => steps'[n - 1] = steps[n - 1]
        BY <1>1
      <4> QED BY <1>1, <1>3, <3>1, <4>1
    <3>2. CASE i \in 1 .. Len(steps)
      <4>1. i # 1 => steps'[i - 1] = steps[i - 1]
        BY <1>1, <3>2
      <4> QED BY <1>1, <3>2, <4>1 DEF Replay!Chain
    <3> QED BY <3>1, <3>2
  <2> QED BY <2>1, <2>2 DEF Replay!Chain
<1>6. \A i \in 1 .. Len(steps') :
        \/ /\ steps'[i].after = steps'[i].before
           /\ ~(steps'[i].ok /\ steps'[i].type = "lock")
        \/ Replay!Enters(steps'[i], steps'[i].after)
  BY <1>1 DEF Replay!HistoryInOrder
<1>7. ASSUME NEW i \in 1 .. Len(steps'), steps'[i].after # "none"
      PROVE  \E j \in 1 .. i : Replay!Enters(steps'[j], steps'[i].after)
  <2>1. CASE i \in 1 .. Len(steps)
    <3>1. PICK j \in 1 .. i : Replay!Enters(steps[j], steps[i].after)
      BY <1>1, <1>7, <2>1 DEF Replay!HistoryInOrder
    <3> QED BY <1>1, <2>1, <3>1
  <2>2. CASE i = n /\ Replay!Enters(steps'[n], contract')
    BY <1>1, <2>2
  <2>3. CASE i = n /\ contract' = contract
    <3>1. n # 1 /\ n - 1 \in 1 .. Len(steps) /\ steps[n - 1].after = contract
      BY <1>1, <1>3, <1>7, <2>3
    <3>2. PICK j \in 1 .. n - 1 : Replay!Enters(steps[j], steps[n - 1].after)
      BY <1>1, <1>7, <2>3, <3>1 DEF Replay!HistoryInOrder
    <3>3. j \in 1 .. Len(steps) /\ j \in 1 .. i
      BY <1>1, <2>3
    <3> QED BY <1>1, <2>3, <3>1, <3>2, <3>3
  <2> QED BY <1>1, <2>1, <2>2, <2>3
<1>8. Replay!rank[contract] <= Replay!rank[contract']
  BY <1>1, StatusRanks DEF Replay!TypeOK, Replay!Enters
<1>9. ASSUME NEW i \in 1 .. Len(steps)
      PROVE  /\ Replay!rank[steps[i].after] <= Replay!rank[contract]
             /\ steps[i].after \in Replay!TERMINAL => contract = steps[i].after
             /\ steps[i].after \in Replay!Status
  <2>1. n # 1 /\ n - 1 \in 1 .. Len(steps) /\ i <= n - 1 /\ contract = steps[n - 1].after
    BY <1>1, <1>3
  <2>2. steps[i] \in Replay!Step
    BY <1>1 DEF Replay!TypeOK
  <2> QED BY <2>1, <2>2 DEF Replay!HistoryInOrder, Replay!Step
<1>10. ASSUME NEW i \in 1 .. Len(steps'), NEW j \in 1 .. Len(steps'), i <= j
       PROVE  /\ Replay!rank[steps'[i].after] <= Replay!rank[steps'[j].after]
              /\ steps'[i].after \in Replay!TERMINAL => steps'[j].after = steps'[i].after
  <2>1. CASE i \in 1 .. Len(steps) /\ j \in 1 .. Len(steps)
    BY <1>1, <1>10, <2>1 DEF Replay!HistoryInOrder
  <2>2. CASE i \in 1 .. Len(steps) /\ j = n
    BY <1>1, <1>8, <1>9, <2>2, StatusRanks DEF Replay!TypeOK
  <2>3. CASE i = n
    BY <1>1, <1>10, <2>3, StatusRanks
  <2> QED BY <2>1, <2>2, <2>3
<1>11. Replay!HistoryInOrder'
  BY <1>6, <1>7, <1>10 DEF Replay!HistoryInOrder
<1>12. Replay!ClockInOrder'
  BY <1>1, FrameAssumption DEF Replay!ClockInOrder, Replay!TypeOK
<1> QED BY <1>2, <1>4, <1>11, <1>12

\* The four routes of the flight path: each is a way a contract can go, and of a
\* cancelled one what lies between the proposal and the end is left out.
Route == {<<"proposed", "cancelled">>, <<"proposed", "accepted", "locked">>,
          <<"proposed", "accepted", "locked", "refunded">>,
          <<"proposed", "accepted", "locked", "claimed">>}

LEMMA RouteFacts ==
  ASSUME NEW route \in Route
  PROVE  /\ Len(route) \in 1 .. 4
         /\ \A k \in 1 .. Len(route) : route[k] \in Replay!Status \ {"none"}
         /\ \A k, m \in 1 .. Len(route) : k < m => Replay!rank[route[k]] < Replay!rank[route[m]]
         /\ \A k \in 2 .. Len(route) :
              \/ Replay!Before(route[k]) = {route[k - 1]}
              \/ /\ route[k - 1] = "proposed"
                 /\ Replay!Before(route[k]) = {"proposed", "accepted"}
<1>1. CASE route = <<"proposed", "cancelled">>
  BY <1>1 DEF Replay!Status, Replay!rank, Replay!Before
<1>2. CASE route = <<"proposed", "accepted", "locked">>
  BY <1>2 DEF Replay!Status, Replay!rank, Replay!Before
<1>3. CASE route = <<"proposed", "accepted", "locked", "refunded">>
  BY <1>3 DEF Replay!Status, Replay!rank, Replay!Before
<1>4. CASE route = <<"proposed", "accepted", "locked", "claimed">>
  BY <1>4 DEF Replay!Status, Replay!rank, Replay!Before
<1> QED BY <1>1, <1>2, <1>3, <1>4 DEF Route

LEMMA RouteChosen == Replay!routeFor(steps) \in Route
BY DEF Replay!routeFor, Route

\* What holds of every step of a history.
LEMMA EvidenceFacts ==
  ASSUME Replay!Inductive, NEW i \in 1 .. Len(steps)
  PROVE  /\ Len(steps) \in Nat /\ steps[i] \in Replay!Step
         /\ steps[i].before = IF i = 1 THEN "none" ELSE steps[i - 1].after
         /\ steps[i].after \in Replay!Status /\ steps[i].before \in Replay!Status
         /\ \A j \in 1 .. Len(steps) : i <= j =>
              Replay!rank[steps[i].after] <= Replay!rank[steps[j].after]
<1> USE DEF Replay!Inductive, Replay!Frames
<1>1. Len(steps) \in Nat /\ steps[i] \in Replay!Step
  BY DEF Replay!TypeOK
<1>2. steps[i].before = IF i = 1 THEN "none" ELSE steps[i - 1].after
  BY DEF Replay!Chain
<1>3. \A j \in 1 .. Len(steps) :
        i <= j => Replay!rank[steps[i].after] <= Replay!rank[steps[j].after]
  BY DEF Replay!HistoryInOrder
<1> QED BY <1>1, <1>2, <1>3 DEF Replay!Step

\* A status is entered once.
LEMMA EnteredOnce ==
  ASSUME Replay!Inductive, NEW i \in 1 .. Len(steps), NEW j \in 1 .. Len(steps), NEW s,
         Replay!Enters(steps[i], s), Replay!Enters(steps[j], s)
  PROVE  i = j
<1>1. ASSUME NEW a \in 1 .. Len(steps), NEW b \in 1 .. Len(steps), a < b,
             Replay!Enters(steps[a], s), Replay!Enters(steps[b], s)
      PROVE  FALSE
  <2>1. b - 1 \in 1 .. Len(steps) /\ a <= b - 1 /\ b # 1
    BY <1>1
  <2>2. /\ steps[b].before = steps[b - 1].after
        /\ Replay!rank[steps[a].after] <= Replay!rank[steps[b - 1].after]
        /\ steps[a].after = s /\ steps[b].before \in Replay!Before(s)
        /\ s \in Replay!Status /\ steps[b].before \in Replay!Status
    BY <1>1, <2>1, EvidenceFacts DEF Replay!Enters
  <2>3. /\ Replay!rank[s] <= Replay!rank[steps[b].before]
        /\ Replay!rank[steps[b].before] < Replay!rank[s]
    BY <2>2, StatusRanks
  <2>4. Replay!rank[s] \in 0 .. 4 /\ Replay!rank[steps[b].before] \in 0 .. 4
    BY <2>2, StatusRanks
  <2> QED BY <2>3, <2>4
<1> QED BY <1>1

\* A status that was reached by a frame was entered at the first that reached it.
LEMMA ReachedFacts ==
  ASSUME Replay!Inductive, NEW n \in 1 .. Len(steps), NEW s \in Replay!Status \ {"none"}
  PROVE  LET by == Replay!ReachedBy(steps, n, s)
         IN  /\ by # {} => \E j \in by : /\ Replay!Enters(steps[j], s)
                                          /\ j = CHOOSE i \in by : \A k \in by : i <= k
             /\ \A i \in 1 .. n : steps[i].after = s => by # {}
             /\ \A i \in by : i \in 1 .. n /\ i \in 1 .. Len(steps) /\ steps[i].after = s
<1> DEFINE by == Replay!ReachedBy(steps, n, s)
<1>1. \A i \in by : i \in 1 .. n /\ i \in 1 .. Len(steps) /\ steps[i].after = s
  BY EvidenceFacts DEF Replay!ReachedBy
<1>2. ASSUME NEW i \in 1 .. n, steps[i].after = s
      PROVE  \E j \in by : j <= i /\ Replay!Enters(steps[j], s)
  <2>1. i \in 1 .. Len(steps) /\ n \in Nat
    BY EvidenceFacts
  <2>2. PICK j \in 1 .. i : Replay!Enters(steps[j], s)
    BY <1>2, <2>1 DEF Replay!Inductive, Replay!HistoryInOrder, Replay!Frames
  <2> QED BY <2>1, <2>2 DEF Replay!ReachedBy, Replay!Enters
<1>3. ASSUME by # {}
      PROVE  \E j \in by : /\ Replay!Enters(steps[j], s)
                           /\ j = CHOOSE i \in by : \A k \in by : i <= k
  <2>1. PICK j \in by : Replay!Enters(steps[j], s)
    BY <1>1, <1>2, <1>3
  <2>2. \A k \in by : j <= k
    <3> SUFFICES ASSUME NEW k \in by PROVE j <= k
      OBVIOUS
    <3>1. PICK m \in by : m <= k /\ Replay!Enters(steps[m], s)
      BY <1>1, <1>2
    <3>2. m = j
      BY <1>1, <2>1, <3>1, EnteredOnce
    <3> QED BY <3>1, <3>2
  <2>3. \A i \in by : (\A k \in by : i <= k) => i = j
    BY <1>1, <2>2
  <2> HIDE DEF by
  <2>4. j = CHOOSE i \in by : \A k \in by : i <= k
    BY <2>2, <2>3
  <2> QED BY <2>1, <2>4
<1> HIDE DEF by
<1>4. \A i \in 1 .. n : steps[i].after = s => by # {}
  BY <1>2
<1> QED BY <1>1, <1>3, <1>4 DEF by

\* A node of the path that was reached stands at the frame that entered it.
LEMMA PathFacts ==
  ASSUME Replay!Inductive, NEW n \in 1 .. Len(steps),
         NEW k \in 1 .. Len(Replay!routeFor(steps))
  PROVE  LET s == Replay!routeFor(steps)[k]
             node == Replay!flightPath(steps, n)[k]
         IN  /\ s \in Replay!Status \ {"none"}
             /\ node.status = s /\ node.current = (s = steps[n].after)
             /\ node.reached = (Replay!ReachedBy(steps, n, s) # {})
             /\ node.reached => /\ node.at \in 1 .. n /\ node.at \in 1 .. Len(steps)
                                /\ Replay!Enters(steps[node.at], s)
             /\ \A i \in 1 .. n : steps[i].after = s => node.reached /\ node.at <= i
<1> DEFINE s == Replay!routeFor(steps)[k]
           by == Replay!ReachedBy(steps, n, s)
           node == Replay!flightPath(steps, n)[k]
<1>1. s \in Replay!Status \ {"none"}
  BY RouteChosen, RouteFacts
<1>2. /\ node.status = s /\ node.reached = (by # {}) /\ node.current = (s = steps[n].after)
      /\ by # {} => node.at = CHOOSE i \in by : \A j \in by : i <= j
  BY DEF Replay!flightPath
<1> HIDE DEF s, node
<1>3. by # {} => \E j \in by : /\ Replay!Enters(steps[j], s)
                               /\ j = CHOOSE i \in by : \A l \in by : i <= l
  BY <1>1, ReachedFacts
<1>4. /\ \A i \in 1 .. n : steps[i].after = s => by # {}
      /\ \A i \in by : i \in 1 .. n /\ i \in 1 .. Len(steps) /\ steps[i].after = s
  BY <1>1, ReachedFacts
<1> HIDE DEF by
<1>5. by # {} => node.at \in by /\ Replay!Enters(steps[node.at], s)
  BY <1>2, <1>3
<1>6. ASSUME NEW i \in 1 .. n, steps[i].after = s
      PROVE  node.reached /\ node.at <= i
  <2>1. by # {} /\ i \in 1 .. Len(steps)
    BY <1>4, <1>6, EvidenceFacts
  <2>2. PICK j \in 1 .. i : Replay!Enters(steps[j], s)
    BY <1>1, <1>6, <2>1 DEF Replay!Inductive, Replay!HistoryInOrder, Replay!Frames
  <2>3. j \in 1 .. Len(steps) /\ node.at \in 1 .. Len(steps)
    BY <1>4, <1>5, <2>1
  <2>4. node.at = j
    BY <1>5, <2>1, <2>2, <2>3, EnteredOnce
  <2>5. i \in Nat /\ j <= i
    BY EvidenceFacts
  <2> QED BY <1>2, <2>1, <2>4, <2>5
<1> QED BY <1>1, <1>2, <1>4, <1>5, <1>6 DEF s, by, node

\* Where a status was entered, the route's node before it had been reached.
LEMMA EnteredAfter ==
  ASSUME Replay!Inductive, NEW j \in 1 .. Len(steps), NEW s \in Replay!Status, NEW b,
         Replay!Enters(steps[j], s),
         \/ Replay!Before(s) = {b}
         \/ b = "proposed" /\ Replay!Before(s) = {"proposed", "accepted"},
         b # "none"
  PROVE  \E i \in 1 .. j - 1 : steps[i].after = b
<1>1. ASSUME NEW c \in 1 .. Len(steps), NEW a \in Replay!Status \ {"none"}, steps[c].before = a
      PROVE  c # 1 /\ c - 1 \in 1 .. Len(steps) /\ steps[c - 1].after = a
  BY <1>1, EvidenceFacts
<1>2. steps[j].before \in Replay!Before(s) /\ steps[j].before \in Replay!Status
  BY EvidenceFacts DEF Replay!Enters
<1>3. CASE steps[j].before = b
  <2>1. j # 1 /\ j - 1 \in 1 .. Len(steps) /\ steps[j - 1].after = b
    BY <1>1, <1>2, <1>3
  <2> QED BY <2>1
<1>4. CASE b = "proposed" /\ steps[j].before = "accepted"
  <2>1. j # 1 /\ j - 1 \in 1 .. Len(steps) /\ steps[j - 1].after = "accepted"
    BY <1>1, <1>2, <1>4
  <2>2. PICK i \in 1 .. j - 1 : Replay!Enters(steps[i], "accepted")
    BY <2>1 DEF Replay!Inductive, Replay!HistoryInOrder, Replay!Frames
  <2>3. i \in 1 .. Len(steps) /\ steps[i].before = "proposed"
    BY <2>1, <2>2 DEF Replay!Enters, Replay!Before
  <2>4. i # 1 /\ steps[i - 1].after = "proposed"
    BY <1>1, <2>3 DEF Replay!Status
  <2> QED BY <1>4, <2>1, <2>3, <2>4
<1> QED BY <1>2, <1>3, <1>4

LEMMA PathShown == Replay!Inductive => Replay!PathIsHistory
<1> SUFFICES ASSUME Replay!Inductive, NEW n \in 1 .. Len(steps)
             PROVE  LET path == Replay!flightPath(steps, n)
                    IN  \A k \in DOMAIN path :
                          /\ path[k].reached /\ k > 1 =>
                               path[k - 1].reached /\ path[k - 1].at < path[k].at
                          /\ path[k].current =>
                               /\ path[k].reached
                               /\ \A m \in DOMAIN path : m > k => ~path[m].reached
  BY DEF Replay!PathIsHistory, Replay!Frames
<1> DEFINE path == Replay!flightPath(steps, n)
           route == Replay!routeFor(steps)
<1>1. route \in Route /\ DOMAIN path = 1 .. Len(route) /\ Len(route) \in 1 .. 4
  BY RouteChosen, RouteFacts DEF Replay!flightPath
<1>2. n \in Nat /\ n <= Len(steps) /\ Len(steps) \in Nat
  BY EvidenceFacts
<1>3. \A k \in 1 .. Len(route) :
        /\ route[k] \in Replay!Status \ {"none"}
        /\ path[k].current = (route[k] = steps[n].after)
        /\ path[k].reached => /\ path[k].at \in 1 .. n /\ path[k].at \in 1 .. Len(steps)
                              /\ Replay!Enters(steps[path[k].at], route[k])
        /\ \A i \in 1 .. n : steps[i].after = route[k] => path[k].reached /\ path[k].at <= i
  BY PathFacts
<1> HIDE DEF path, route
<1>4. ASSUME NEW k \in 1 .. Len(route), path[k].reached, k > 1
      PROVE  path[k - 1].reached /\ path[k - 1].at < path[k].at
  <2>1. k - 1 \in 1 .. Len(route) /\ k \in 2 .. Len(route)
    BY <1>1, <1>4
  <2> DEFINE j == path[k].at
  <2>2. j \in 1 .. n /\ j \in 1 .. Len(steps) /\ Replay!Enters(steps[j], route[k])
    BY <1>3, <1>4
  <2> HIDE DEF j
  <2>3. \/ Replay!Before(route[k]) = {route[k - 1]}
        \/ route[k - 1] = "proposed" /\ Replay!Before(route[k]) = {"proposed", "accepted"}
    BY <1>1, <2>1, RouteFacts
  <2>4. route[k] \in Replay!Status /\ route[k - 1] # "none"
    BY <1>3, <2>1
  <2> PICK i \in 1 .. j - 1 : steps[i].after = route[k - 1]
    BY <2>2, <2>3, <2>4, EnteredAfter
  <2>5. i \in 1 .. n /\ i \in Nat /\ i < j
    BY <1>2, <2>2
  <2>6. path[k - 1].reached /\ path[k - 1].at <= i /\ path[k - 1].at \in 1 .. n
    BY <1>3, <2>1, <2>5
  <2> QED BY <1>2, <2>2, <2>5, <2>6 DEF j
<1>5. ASSUME NEW k \in 1 .. Len(route), path[k].current
      PROVE  path[k].reached /\ \A m \in 1 .. Len(route) : m > k => ~path[m].reached
  <2>1. steps[n].after = route[k]
    BY <1>3, <1>5
  <2>2. ASSUME NEW m \in 1 .. Len(route), m > k, path[m].reached
        PROVE  FALSE
    <3> DEFINE j == path[m].at
    <3>1. j \in 1 .. n /\ j \in 1 .. Len(steps) /\ steps[j].after = route[m]
      BY <1>3, <2>2 DEF Replay!Enters
    <3>2. Replay!rank[route[m]] <= Replay!rank[route[k]]
      BY <1>2, <2>1, <3>1, EvidenceFacts
    <3>3. Replay!rank[route[k]] < Replay!rank[route[m]]
      BY <1>1, <2>2, RouteFacts
    <3>4. Replay!rank[route[m]] \in 0 .. 4 /\ Replay!rank[route[k]] \in 0 .. 4
      BY <1>3, StatusRanks
    <3> QED BY <3>2, <3>3, <3>4
  <2>3. n \in 1 .. n
    BY <1>2
  <2> QED BY <1>3, <2>1, <2>2, <2>3
<1> QED BY <1>1, <1>4, <1>5 DEF path

LEMMA EndShown == Replay!Inductive => Replay!EndIsShown
<1> SUFFICES ASSUME Replay!Inductive, contract \in Replay!TERMINAL
             PROVE  LET path == Replay!flightPath(steps, Len(steps))
                    IN  path[Len(path)].status = contract /\ path[Len(path)].current
  BY DEF Replay!EndIsShown
<1>1. /\ Len(steps) \in 1 .. Len(steps) /\ Len(steps) \in Nat
      /\ steps[Len(steps)].after = contract
  BY DEF Replay!Inductive, Replay!TypeOK, Replay!Chain, Replay!TERMINAL
<1>2. Replay!Observed(steps) = {contract}
  <2>1. ASSUME NEW i \in 1 .. Len(steps), steps[i].after \in Replay!TERMINAL
        PROVE  steps[i].after = contract
    BY <1>1, <2>1 DEF Replay!Inductive, Replay!HistoryInOrder, Replay!Frames
  <2>2. \E j \in 1 .. Len(steps) : steps[j].ok /\ steps[j].after = contract
    BY <1>1 DEF Replay!Inductive, Replay!HistoryInOrder, Replay!Frames, Replay!Enters,
       Replay!TERMINAL
  <2> QED BY <2>1, <2>2 DEF Replay!Observed, Replay!Frames
<1> DEFINE route == Replay!routeFor(steps)
           path == Replay!flightPath(steps, Len(steps))
<1>3. route[Len(route)] = contract
  BY <1>2 DEF Replay!routeFor, Replay!TERMINAL
<1>4. Len(route) \in 1 .. Len(route) /\ Len(route) \in Nat
  BY RouteChosen, RouteFacts
<1>5. Len(path) = Len(route)
  BY <1>4 DEF Replay!flightPath
<1>6. /\ path[Len(route)].status = route[Len(route)]
      /\ path[Len(route)].current = (route[Len(route)] = steps[Len(steps)].after)
  BY <1>1, <1>4, PathFacts
<1> QED BY <1>1, <1>3, <1>5, <1>6

LEMMA LocksShown == Replay!Inductive => Replay!OneLockMark
<1> SUFFICES ASSUME Replay!Inductive, NEW n \in 1 .. Len(steps)
             PROVE  /\ \A i, j \in Replay!RailMarks(steps, n) : i = j
                    /\ Replay!RailMarks(steps, n) # {} <=>
                         \E i \in 1 .. n : steps[i].after = "locked"
  BY DEF Replay!OneLockMark, Replay!Frames
<1>1. Len(steps) \in Nat /\ 1 .. n \subseteq 1 .. Len(steps)
  BY EvidenceFacts
<1>2. \A i \in Replay!RailMarks(steps, n) : Replay!Enters(steps[i], "locked") /\ i \in 1 .. n
  BY <1>1
     DEF Replay!RailMarks, Replay!Inductive, Replay!HistoryInOrder, Replay!Frames, Replay!Enters
<1>3. ASSUME NEW i \in 1 .. n, steps[i].after = "locked"
      PROVE  Replay!RailMarks(steps, n) # {}
  <2>1. PICK j \in 1 .. i : Replay!Enters(steps[j], "locked")
    BY <1>1, <1>3 DEF Replay!Inductive, Replay!HistoryInOrder, Replay!Frames
  <2>2. j \in 1 .. n
    BY <1>1
  <2> QED BY <2>1, <2>2 DEF Replay!RailMarks, Replay!Enters
<1>4. \A i, j \in Replay!RailMarks(steps, n) : i = j
  BY <1>1, <1>2, EnteredOnce
<1>5. \A i \in Replay!RailMarks(steps, n) : steps[i].after = "locked"
  BY <1>2 DEF Replay!Enters
<1> QED BY <1>2, <1>3, <1>4, <1>5

LEMMA ReplayShown == Replay!Inductive => ReplaySound
<1> SUFFICES ASSUME Replay!Inductive PROVE ReplaySound
  OBVIOUS
<1>1. Replay!AdvanceIsAChange
  <2> SUFFICES ASSUME NEW n \in 1 .. Len(steps), n > 1
               PROVE  Replay!stateAdvanced(steps, n) <=> steps[n].after # steps[n - 1].after
    BY DEF Replay!AdvanceIsAChange, Replay!Frames
  <2>1. /\ steps[n].before = steps[n - 1].after
        /\ ~steps[n].ok => steps[n].after = steps[n].before
    BY DEF Replay!Inductive, Replay!Chain, Replay!Frames
  <2> QED BY <2>1 DEF Replay!stateAdvanced
<1>2. Replay!FlatClockNeverRefunds
  BY DEF Replay!FlatClockNeverRefunds, Replay!Inductive, Replay!ClockInOrder
<1> QED
  BY <1>1, <1>2, PathShown, EndShown, LocksShown DEF ReplaySound

LEMMA ReplayKept ==
  ASSUME Replay!Inductive, [Replay!Next]_Replay!vars
  PROVE  Replay!Inductive'
<1>1. CASE UNCHANGED Replay!vars
  BY <1>1
     DEF Replay!vars, Replay!Inductive, Replay!TypeOK, Replay!Chain, Replay!HistoryInOrder,
         Replay!ClockInOrder, Replay!Frames, Replay!Enters
<1> QED BY <1>1, ReplayStep

\* The history is in order, and the path, the marks and the boundary are drawn
\* after it, at every frame of a replay (replay.mjs, model.mjs).
THEOREM ReplayHolds == Replay!Spec => []ReplaySound
<1>1. Replay!Inductive /\ [Replay!Next]_Replay!vars => Replay!Inductive'
  <2>1. CASE UNCHANGED Replay!vars
    BY <2>1
       DEF Replay!vars, Replay!Inductive, Replay!TypeOK, Replay!Chain, Replay!HistoryInOrder,
           Replay!ClockInOrder, Replay!Frames, Replay!Enters
  <2> QED BY <2>1, ReplayStep
<1>2. Replay!Spec => []Replay!Inductive
  BY <1>1, ReplayBegin, PTL DEF Replay!Spec
<1> QED BY <1>2, ReplayShown, PTL

-----------------------------------------------------------------------------
(***************************************************************************)
(* The live import.                                                        *)
(***************************************************************************)
LiveSound == Live!Inductive /\ Live!GapMeansMissed /\ Live!ReplayedAsSaid

LEMMA RecordFacts ==
  ASSUME NEW e \in Seq(Live!Record)
  PROVE  /\ Len(e) \in Nat
         /\ \A i \in 1 .. Len(e) :
              /\ e[i].seq \in 1 .. MaxSeq /\ e[i].seq \in Nat
              /\ e[i].room \in Room /\ e[i].named \in BOOLEAN
              /\ e[i] = [room |-> e[i].room, named |-> e[i].named, seq |-> e[i].seq]
<1>1. Len(e) \in Nat /\ \A i \in 1 .. Len(e) : e[i] \in Live!Record
  OBVIOUS
<1>2. \A x \in Live!Record : /\ x.seq \in 1 .. MaxSeq /\ x.seq \in Nat
                             /\ x.room \in Room /\ x.named \in BOOLEAN
                             /\ x = [room |-> x.room, named |-> x.named, seq |-> x.seq]
  BY DEF Live!Record
<1> QED BY <1>1, <1>2

\* The numbers of an export that advances grow at least as fast as its positions.
LEMMA Spaced ==
  ASSUME NEW e \in Seq(Live!Record), Live!Advances(e), NEW i \in 1 .. Len(e)
  PROVE  \A j \in i .. Len(e) : e[i].seq + (j - i) <= e[j].seq
<1>1. Len(e) \in Nat /\ \A j \in 1 .. Len(e) : e[j].seq \in Nat
  BY RecordFacts
<1> DEFINE S == {j \in i .. Len(e) : ~(e[i].seq + (j - i) <= e[j].seq)}
<1> SUFFICES ASSUME S # {} PROVE FALSE
  OBVIOUS
<1>2. S \in SUBSET Nat
  BY <1>1
<1>3. PICK m \in S : \A k \in S : m <= k
  BY <1>2, Least
<1>4. i \in Nat /\ m \in i .. Len(e) /\ ~(e[i].seq + (m - i) <= e[m].seq)
  BY <1>1
<1>5. \A k \in i .. Len(e) : k \notin S => e[i].seq + (k - i) <= e[k].seq
  OBVIOUS
<1> HIDE DEF S
<1>6. /\ e[m].seq \in Nat /\ e[i].seq \in Nat /\ m \in Nat
      /\ m \in 1 .. Len(e)
  BY <1>1, <1>4
<1>7. m # i
  BY <1>4, <1>6
<1>8. i < m /\ m - 1 \in i .. Len(e) /\ m - 1 \in 1 .. Len(e) /\ m \in 2 .. Len(e)
  BY <1>1, <1>4, <1>6, <1>7
<1>9. m - 1 \notin S
  <2>1. ~(m <= m - 1)
    BY <1>6
  <2> QED BY <1>3, <2>1
<1>10. e[i].seq + (m - 1 - i) <= e[m - 1].seq
  BY <1>5, <1>8, <1>9
<1>11. e[m].seq > e[m - 1].seq
  BY <1>6, <1>8 DEF Live!Advances
<1>12. e[m - 1].seq \in Nat
  BY <1>1, <1>8
<1>13. e[i].seq + (m - i) <= e[m - 1].seq + 1
  BY <1>4, <1>6, <1>10, <1>12
<1>14. e[m - 1].seq + 1 <= e[m].seq
  BY <1>6, <1>11, <1>12
<1>15. e[i].seq + (m - i) \in Int /\ e[m - 1].seq + 1 \in Int
  BY <1>4, <1>6, <1>12
<1>16. e[i].seq + (m - i) <= e[m].seq
  BY <1>6, <1>13, <1>14, <1>15
<1> QED BY <1>4, <1>16

\* They do not fall.
LEMMA Ordered ==
  ASSUME NEW e \in Seq(Live!Record), Live!Advances(e),
         NEW i \in 1 .. Len(e), NEW j \in 1 .. Len(e), i <= j
  PROVE  e[i].seq <= e[j].seq
<1>1. Len(e) \in Nat /\ e[i].seq \in Nat /\ e[j].seq \in Nat
  BY RecordFacts
<1>2. j \in i .. Len(e) /\ i \in Nat /\ j \in Nat
  BY <1>1
<1>3. e[i].seq + (j - i) <= e[j].seq
  BY <1>2, Spaced
<1>4. \A a, b, k, m \in Nat : k <= m /\ a + (m - k) <= b => a <= b
  OBVIOUS
<1> QED BY <1>1, <1>2, <1>3, <1>4

\* Without a gap they grow exactly as fast.
LEMMA Unbroken ==
  ASSUME NEW e \in Seq(Live!Record), ~Live!gapsObserved(e)
  PROVE  \A j \in 1 .. Len(e) : e[j].seq = e[1].seq + (j - 1)
<1>1. Len(e) \in Nat /\ \A j \in 1 .. Len(e) : e[j].seq \in Nat
  BY RecordFacts
<1> DEFINE S == {j \in 1 .. Len(e) : e[j].seq # e[1].seq + (j - 1)}
<1> SUFFICES ASSUME S # {} PROVE FALSE
  OBVIOUS
<1>2. S \in SUBSET Nat
  BY <1>1
<1>3. PICK m \in S : \A k \in S : m <= k
  BY <1>2, Least
<1>4. m \in 1 .. Len(e) /\ e[m].seq # e[1].seq + (m - 1)
  OBVIOUS
<1>5. \A k \in 1 .. Len(e) : k \notin S => e[k].seq = e[1].seq + (k - 1)
  OBVIOUS
<1> HIDE DEF S
<1>6. m \in Nat /\ 1 \in 1 .. Len(e) /\ e[1].seq \in Nat
  BY <1>1, <1>4
<1>7. m # 1
  BY <1>4, <1>6
<1>8. m - 1 \in 1 .. Len(e) /\ m \in 2 .. Len(e)
  BY <1>1, <1>4, <1>6, <1>7
<1>9. m - 1 \notin S
  <2>1. ~(m <= m - 1)
    BY <1>6
  <2> QED BY <1>3, <2>1
<1>10. e[m - 1].seq = e[1].seq + (m - 1 - 1)
  BY <1>5, <1>8, <1>9
<1>11. e[m].seq = e[m - 1].seq + 1
  BY <1>6, <1>8 DEF Live!gapsObserved
<1>12. e[m - 1].seq + 1 = e[1].seq + (m - 1)
  BY <1>6, <1>10
<1> QED BY <1>4, <1>11, <1>12

LEMMA LiveBegin == Live!Init => Live!Inductive
BY RoomAssumption
   DEF Live!Init, Live!Inductive, Live!TypeOK, Live!Said, Live!DocumentInOrder, Live!LinesInOrder

\* A message is said: what was said before was said.
LEMMA SayStep ==
  ASSUME Live!Inductive, NEW r \in Room, Live!Say(r)
  PROVE  Live!Inductive'
<1> USE DEF Live!Inductive
<1>1. /\ latest' \in [Room -> 0 .. MaxSeq] /\ \A q \in Room : latest[q] <= latest'[q]
      /\ \A q \in Room : latest[q] \in 0 .. MaxSeq
      /\ UNCHANGED <<export, document, replayed>>
  BY RoomAssumption DEF Live!Say, Live!TypeOK
<1>2. ASSUME NEW e \in Seq(Live!Record), Live!Said(e)
      PROVE  Live!Said(e)'
  <2> SUFFICES ASSUME NEW i \in 1 .. Len(e) PROVE e[i].seq <= latest'[e[i].room]
    BY DEF Live!Said
  <2>1. e[i].room \in Room /\ e[i].seq \in 1 .. MaxSeq
    BY RecordFacts
  <2>2. e[i].seq <= latest[e[i].room]
    BY <1>2 DEF Live!Said
  <2>3. /\ latest[e[i].room] <= latest'[e[i].room]
        /\ latest[e[i].room] \in 0 .. MaxSeq /\ latest'[e[i].room] \in 0 .. MaxSeq
    BY <1>1, <2>1
  <2> QED BY <2>1, <2>2, <2>3, RoomAssumption
<1>3. Live!TypeOK'
  BY <1>1 DEF Live!TypeOK
<1>4. Live!Said(export)'
  BY <1>1, <1>2 DEF Live!TypeOK, Live!Said
<1>5. Live!DocumentInOrder'
  <2> SUFFICES ASSUME document # Live!Nothing PROVE Live!DocumentInOrder'
    BY <1>1 DEF Live!DocumentInOrder
  <2> DEFINE e == document.records
  <2>1. /\ e \in Seq(Live!Record) /\ Live!Readable(e) /\ Live!Said(e)
        /\ document.gapsObserved = Live!gapsObserved(e)
        /\ document.first = e[1].seq /\ document.last = e[Len(e)].seq
        /\ Len(e) <= document.last + 1 - document.first
    BY DEF Live!DocumentInOrder
  <2>2. Live!Said(e)'
    BY <1>1, <1>2, <2>1 DEF Live!Said
  <2> QED
    BY <1>1, <2>1, <2>2
       DEF Live!DocumentInOrder, Live!Readable, Live!Advances, Live!Absorbed, Live!gapsObserved,
           Live!Nothing
<1>6. Live!LinesInOrder'
  BY <1>1 DEF Live!LinesInOrder, Live!Nothing
<1> QED BY <1>3, <1>4, <1>5, <1>6

\* A window is appended: the records it adds were said.
LEMMA WindowStep ==
  ASSUME Live!Inductive, NEW r \in Room, NEW a \in 1 .. MaxSeq, NEW b \in 1 .. MaxSeq,
         NEW named \in BOOLEAN, Live!Read(r, a, b, named)
  PROVE  Live!Inductive'
<1> USE DEF Live!Inductive
<1> DEFINE w == [i \in 1 .. b + 1 - a |-> [room |-> r, named |-> named, seq |-> a + i - 1]]
<1>1. /\ a <= b /\ b <= latest[r] /\ Len(export) + (b + 1 - a) <= MaxRecords
      /\ export' = export \o w /\ UNCHANGED <<latest, document, replayed>>
  BY DEF Live!Read
<1>2. b + 1 - a \in Nat /\ latest[r] \in 0 .. MaxSeq /\ MaxSeq \in Nat
  BY <1>1, RoomAssumption DEF Live!TypeOK
<1>3. \A i \in 1 .. b + 1 - a :
        w[i] \in Live!Record /\ w[i].room = r /\ w[i].seq = a + i - 1 /\ a + i - 1 <= latest[r]
  BY <1>1, <1>2 DEF Live!Record
<1>4. w \in Seq(Live!Record) /\ Len(w) = b + 1 - a
  BY <1>2, <1>3
<1> HIDE DEF w
<1>5. export \in Seq(Live!Record) /\ Len(export) \in Nat
  BY DEF Live!TypeOK
<1>6. /\ export' \in Seq(Live!Record) /\ Len(export') = Len(export) + Len(w)
      /\ Len(export') \in Nat
      /\ \A i \in 1 .. Len(export) : export'[i] = export[i]
      /\ \A i \in Len(export) + 1 .. Len(export') : export'[i] = w[i - Len(export)]
  <2>1. /\ export \o w \in Seq(Live!Record) /\ Len(export \o w) = Len(export) + Len(w)
        /\ \A i \in 1 .. Len(export) : (export \o w)[i] = export[i]
        /\ \A i \in Len(export) + 1 .. Len(export) + Len(w) :
             (export \o w)[i] = w[i - Len(export)]
    BY <1>4, <1>5
  <2>2. Len(export) + Len(w) \in Nat
    BY <1>2, <1>4, <1>5
  <2> QED BY <1>1, <2>1, <2>2
<1>7. ASSUME NEW i \in 1 .. Len(export')
      PROVE  export'[i].seq <= latest[export'[i].room]
  <2>1. CASE i \in 1 .. Len(export)
    BY <1>6, <2>1 DEF Live!Said
  <2>2. CASE i \in Len(export) + 1 .. Len(export')
    <3>1. i - Len(export) \in 1 .. b + 1 - a
      BY <1>4, <1>5, <1>6, <2>2
    <3> QED BY <1>3, <1>6, <2>2, <3>1
  <2> QED BY <1>5, <1>6, <2>1, <2>2
<1>8. Live!TypeOK' /\ Live!Said(export)'
  BY <1>1, <1>4, <1>6, <1>7 DEF Live!TypeOK, Live!Said
<1>9. Live!DocumentInOrder' /\ Live!LinesInOrder'
  BY <1>1
     DEF Live!DocumentInOrder, Live!LinesInOrder, Live!Nothing, Live!Said, Live!Readable,
         Live!Advances, Live!Absorbed, Live!gapsObserved
<1> QED BY <1>8, <1>9

\* The import: what could be read exactly is as the export says.
LEMMA ImportStep ==
  ASSUME Live!Inductive, NEW activated \in BOOLEAN, Live!importLiveTranscript(activated)
  PROVE  Live!Inductive'
<1> USE DEF Live!Inductive
<1>1. replayed' = << >> /\ UNCHANGED <<latest, export>>
  BY DEF Live!importLiveTranscript
<1>2. Live!TypeOK' /\ Live!Said(export)' /\ Live!LinesInOrder'
  BY <1>1 DEF Live!TypeOK, Live!Said, Live!LinesInOrder
<1>3. export \in Seq(Live!Record) /\ Live!Said(export) /\ Len(export) \in Nat
  BY DEF Live!TypeOK
<1>4. CASE Live!Readable(export)
  <2>1. document' = [records |-> export, activated |-> activated,
                     gapsObserved |-> Live!gapsObserved(export),
                     first |-> export[1].seq, last |-> export[Len(export)].seq]
    BY <1>4 DEF Live!importLiveTranscript
  <2>2. 1 \in 1 .. Len(export) /\ Len(export) \in 1 .. Len(export) /\ Live!Advances(export)
    BY <1>3, <1>4 DEF Live!Readable
  <2>3. export[1].seq + (Len(export) - 1) <= export[Len(export)].seq
    BY <1>3, <2>2, Spaced
  <2>4. export[1].seq \in Nat /\ export[Len(export)].seq \in Nat
    BY <1>3, <2>2, RecordFacts
  <2>5. Len(export) <= export[Len(export)].seq + 1 - export[1].seq
    BY <1>3, <2>3, <2>4
  <2>6. /\ document'.records = export /\ document'.gapsObserved = Live!gapsObserved(export)
        /\ document'.first = export[1].seq /\ document'.last = export[Len(export)].seq
    BY <2>1
  <2>7. Live!Said(export)' <=> Live!Said(export)
    BY <1>1 DEF Live!Said
  <2> QED
    BY <1>1, <1>2, <1>3, <1>4, <2>5, <2>6, <2>7
       DEF Live!DocumentInOrder, Live!Readable, Live!Advances, Live!Absorbed, Live!gapsObserved,
           Live!Said
<1>5. CASE ~Live!Readable(export)
  BY <1>2, <1>5 DEF Live!importLiveTranscript, Live!DocumentInOrder, Live!Nothing
<1> QED BY <1>4, <1>5

LEMMA LiveStep ==
  ASSUME Live!Inductive, [Live!Next]_Live!vars
  PROVE  Live!Inductive'
<1>1. CASE Live!liveLinesForReplay
  BY <1>1
     DEF Live!liveLinesForReplay, Live!Inductive, Live!TypeOK, Live!DocumentInOrder,
         Live!LinesInOrder, Live!Nothing, Live!Said, Live!Readable, Live!Advances, Live!Absorbed,
         Live!gapsObserved
<1>2. CASE UNCHANGED Live!vars
  BY <1>2
     DEF Live!vars, Live!Inductive, Live!TypeOK, Live!DocumentInOrder,
         Live!LinesInOrder, Live!Nothing, Live!Said, Live!Readable, Live!Advances, Live!Absorbed,
         Live!gapsObserved
<1> QED BY <1>1, <1>2, SayStep, WindowStep, ImportStep DEF Live!Next

\* A gap is a number that was missed.
LEMMA GapsMissed == Live!Inductive => Live!GapMeansMissed
<1> SUFFICES ASSUME Live!Inductive, document # Live!Nothing, Live!Honest(document.records)
             PROVE  document.gapsObserved <=>
                      \E s \in document.first .. document.last :
                        ~\E i \in 1 .. Len(document.records) :
                           document.records[i] = [room |-> Declared, named |-> TRUE, seq |-> s]
  BY DEF Live!GapMeansMissed
<1> DEFINE e == document.records
<1>1. /\ e \in Seq(Live!Record) /\ Live!Readable(e)
      /\ document.gapsObserved = Live!gapsObserved(e)
      /\ document.first = e[1].seq /\ document.last = e[Len(e)].seq
  BY DEF Live!Inductive, Live!DocumentInOrder
<1>2. Live!Honest(e)
  OBVIOUS
<1> HIDE DEF e
<1>3. Len(e) \in Nat /\ Len(e) >= 1 /\ Live!Advances(e)
  BY <1>1 DEF Live!Readable
<1>4. ASSUME NEW i \in 1 .. Len(e)
      PROVE  e[i].seq \in Nat /\ e[i] = [room |-> Declared, named |-> TRUE, seq |-> e[i].seq]
  <2>1. e[i].named /\ (e[i].named => e[i].room = Declared)
    BY <1>1, <1>2 DEF Live!Readable, Live!Absorbed, Live!Honest
  <2>2. e[i].named \in BOOLEAN
    BY <1>1, RecordFacts
  <2> QED BY <1>1, <2>1, <2>2, RecordFacts
<1>5. ASSUME ~Live!gapsObserved(e), NEW s \in e[1].seq .. e[Len(e)].seq
      PROVE  \E i \in 1 .. Len(e) : e[i] = [room |-> Declared, named |-> TRUE, seq |-> s]
  <2>1. \A j \in 1 .. Len(e) : e[j].seq = e[1].seq + (j - 1)
    BY <1>1, <1>5, Unbroken
  <2>2. e[1].seq \in Nat /\ e[Len(e)].seq = e[1].seq + (Len(e) - 1)
    <3>1. 1 \in 1 .. Len(e) /\ Len(e) \in 1 .. Len(e)
      BY <1>3
    <3> QED BY <1>4, <2>1, <3>1
  <2> DEFINE i == s - e[1].seq + 1
  <2>3. i \in 1 .. Len(e) /\ s = e[1].seq + (i - 1)
    BY <1>3, <2>2
  <2> HIDE DEF i
  <2>4. e[i].seq = s
    BY <2>1, <2>3
  <2> QED BY <1>4, <2>3, <2>4
<1>6. ASSUME Live!gapsObserved(e)
      PROVE  \E s \in e[1].seq .. e[Len(e)].seq : \A i \in 1 .. Len(e) : e[i].seq # s
  <2>1. PICK i \in 2 .. Len(e) : e[i].seq # e[i - 1].seq + 1
    BY <1>6 DEF Live!gapsObserved
  <2>2. /\ i - 1 \in 1 .. Len(e) /\ i \in 1 .. Len(e) /\ 1 \in 1 .. Len(e)
        /\ Len(e) \in 1 .. Len(e) /\ i \in Nat
    BY <1>3
  <2>3. /\ e[i].seq \in Nat /\ e[i - 1].seq \in Nat /\ e[1].seq \in Nat /\ e[Len(e)].seq \in Nat
        /\ e[i].seq > e[i - 1].seq
    BY <1>3, <1>4, <2>2 DEF Live!Advances
  <2>4. e[1].seq <= e[i - 1].seq /\ e[i].seq <= e[Len(e)].seq
    <3>1. 1 <= i - 1 /\ i <= Len(e)
      BY <1>3
    <3> QED BY <1>1, <1>3, <2>2, <3>1, Ordered
  <2>5. ASSUME NEW j \in 1 .. Len(e) PROVE e[j].seq # e[i - 1].seq + 1
    <3>1. e[j].seq \in Nat /\ j \in Nat
      <4>1. e[j].seq \in Nat
        BY <1>1, RecordFacts
      <4> QED BY <1>3, <4>1
    <3>2. CASE j <= i - 1
      <4>1. e[j].seq <= e[i - 1].seq
        BY <1>1, <1>3, <2>2, <3>2, Ordered
      <4> QED BY <2>3, <3>1, <4>1
    <3>3. CASE j >= i
      <4>1. e[i].seq <= e[j].seq
        BY <1>1, <1>3, <2>2, <3>3, Ordered
      <4>2. e[i].seq > e[i - 1].seq + 1
        BY <2>1, <2>3
      <4> QED BY <2>3, <3>1, <4>1, <4>2
    <3> QED BY <2>2, <3>1, <3>2, <3>3
  <2>6. e[i - 1].seq + 1 \in e[1].seq .. e[Len(e)].seq
    <3>1. e[i - 1].seq + 1 <= e[i].seq
      BY <2>3
    <3>2. e[1].seq <= e[i - 1].seq + 1
      BY <2>3, <2>4
    <3>3. e[i - 1].seq + 1 <= e[Len(e)].seq
      BY <2>3, <2>4, <3>1
    <3> QED BY <2>3, <3>2, <3>3
  <2> QED BY <2>5, <2>6
<1>7. CASE Live!gapsObserved(e)
  <2>1. PICK s \in e[1].seq .. e[Len(e)].seq : \A i \in 1 .. Len(e) : e[i].seq # s
    BY <1>6, <1>7
  <2>2. \A i \in 1 .. Len(e) : e[i] # [room |-> Declared, named |-> TRUE, seq |-> s]
    BY <2>1
  <2> QED BY <1>1, <1>7, <2>2 DEF e
<1>8. CASE ~Live!gapsObserved(e)
  BY <1>1, <1>5, <1>8 DEF e
<1> QED BY <1>7, <1>8

LEMMA LinesReplayed == Live!Inductive => Live!ReplayedAsSaid
<1> SUFFICES ASSUME Live!Inductive, replayed # << >>, Live!Honest(document.records)
             PROVE  /\ document.activated
                    /\ \A i \in 1 .. Len(replayed) :
                         replayed[i][1] = Declared /\ replayed[i][2] <= latest[Declared]
                    /\ \A i, j \in 1 .. Len(replayed) : i < j => replayed[i][2] < replayed[j][2]
  BY DEF Live!ReplayedAsSaid
<1> DEFINE e == document.records
<1>1. /\ document # Live!Nothing /\ document.activated
      /\ replayed = [i \in 1 .. Len(e) |-> <<e[i].room, e[i].seq>>]
  BY DEF Live!Inductive, Live!LinesInOrder
<1>2. e \in Seq(Live!Record) /\ Live!Readable(e) /\ Live!Said(e) /\ Live!Honest(e)
  BY <1>1 DEF Live!Inductive, Live!DocumentInOrder
<1> HIDE DEF e
<1>3. Len(e) \in Nat /\ Live!Advances(e)
  BY <1>2 DEF Live!Readable
<1>4. Len(replayed) = Len(e)
  BY <1>1, <1>3
<1>5. ASSUME NEW i \in 1 .. Len(e)
      PROVE  /\ e[i].seq \in Nat /\ e[i].room = Declared /\ e[i].seq <= latest[Declared]
             /\ replayed[i][1] = e[i].room /\ replayed[i][2] = e[i].seq
  <2>1. e[i].named /\ (e[i].named => e[i].room = Declared) /\ e[i].seq <= latest[e[i].room]
    BY <1>2 DEF Live!Readable, Live!Absorbed, Live!Honest, Live!Said
  <2>2. e[i].seq \in Nat
    BY <1>2, RecordFacts
  <2>3. replayed[i] = <<e[i].room, e[i].seq>>
    BY <1>1
  <2> QED BY <2>1, <2>2, <2>3
<1>6. ASSUME NEW i \in 1 .. Len(e), NEW j \in 1 .. Len(e), i < j
      PROVE  e[i].seq < e[j].seq
  <2>1. e[i].seq + (j - i) <= e[j].seq
    BY <1>2, <1>3, <1>6, Spaced
  <2> QED BY <1>3, <1>5, <1>6, <2>1
<1> QED BY <1>1, <1>4, <1>5, <1>6

\* A gap that is reported is a message that was missed, and the lines of the
\* replay are what was said, in its order (live-import.mjs).
THEOREM LiveHolds == Live!Spec => []LiveSound
<1>1. Live!Spec => []Live!Inductive
  BY LiveBegin, LiveStep, PTL DEF Live!Spec
<1>2. Live!Inductive => LiveSound
  BY GapsMissed, LinesReplayed DEF LiveSound
<1> QED BY <1>1, <1>2, PTL

-----------------------------------------------------------------------------
(***************************************************************************)
(* The connector and the page that is paired with it.                      *)
(***************************************************************************)
ConnectorSound ==
  Connector!Inductive /\ Connector!BytesDropped /\ Connector!ShownIsRecorded

LEMMA ConnectorBegin == Connector!Init => ConnectorSound
<1> SUFFICES ASSUME Connector!Init PROVE ConnectorSound
  OBVIOUS
<1> USE DEF Connector!Init
<1>1. Connector!Idle \in Connector!Slot /\ Connector!Blank(Connector!None) \in Connector!Page
  BY DEF Connector!Idle, Connector!Slot, Connector!Stages, Connector!Ops, Connector!Id,
     Connector!Answers, Connector!Blank, Connector!Page
<1>2. Connector!TypeOK
  BY <1>1, ImportAssumption DEF Connector!TypeOK, Connector!Boot
<1>3. \A r \in Request : Connector!RequestInOrder(r)
  BY DEF Connector!RequestInOrder, Connector!Idle, Connector!Answered
<1> QED
  BY <1>2, <1>3
     DEF ConnectorSound, Connector!Inductive, Connector!ImportsInOrder, Connector!BytesDropped,
         Connector!ShownIsRecorded, Connector!Blank

\* A request that goes on as it was stays in order.
LEMMA RequestKept ==
  ASSUME NEW r \in Request, Connector!RequestInOrder(r), up' = up, boot' = boot,
         judged \subseteq judged', minted \subseteq minted', records \subseteq records',
         slot'[r].at = slot[r].at, slot'[r].op = slot[r].op, slot'[r].token = slot[r].token,
         slot'[r].id = slot[r].id, slot'[r].answer = slot[r].answer
  PROVE  Connector!RequestInOrder(r)'
BY DEF Connector!RequestInOrder, Connector!Answered

\* A request that is put aside, or sent, is in order.
LEMMA RequestSent ==
  ASSUME NEW r \in Request, NEW v \in Connector!Slot, slot'[r] = v, v.at \in {"IDLE", "SENT"},
         v.op \in {"describe", "validate"} => v.id \in minted'
  PROVE  Connector!RequestInOrder(r)'
BY DEF Connector!RequestInOrder, Connector!Answered

\* What a step of one request leaves as it was.
LEMMA PutFacts ==
  ASSUME Connector!TypeOK, NEW r \in Request, NEW v \in Connector!Slot, Connector!Put(r, v)
  PROVE  /\ slot' \in [Request -> Connector!Slot] /\ slot'[r] = v
         /\ \A q \in Request : q # r => slot'[q] = slot[q]
BY DEF Connector!TypeOK, Connector!Put

LEMMA SlotTyped ==
  ASSUME Connector!TypeOK, NEW r \in Request, NEW at \in Connector!Stages,
         NEW answer \in Connector!Answers
  PROVE  /\ [slot[r] EXCEPT !.at = at] \in Connector!Slot
         /\ [slot[r] EXCEPT !.at = at, !.answer = answer] \in Connector!Slot
         /\ Connector!Idle \in Connector!Slot
<1>1. slot[r] \in Connector!Slot
  BY DEF Connector!TypeOK
<1>2. [slot[r] EXCEPT !.at = at] \in Connector!Slot
  BY <1>1 DEF Connector!Slot
<1>3. [slot[r] EXCEPT !.at = at, !.answer = answer] \in Connector!Slot
  BY <1>1 DEF Connector!Slot
<1>4. Connector!Idle \in Connector!Slot
  BY DEF Connector!Slot, Connector!Idle, Connector!Stages, Connector!Ops, Connector!Id,
     Connector!Answers
<1> QED BY <1>2, <1>3, <1>4

\* A request whose handler has moved on.
Moved(old, at, answer) == [old EXCEPT !.at = at, !.answer = answer]

LEMMA MovedFacts ==
  ASSUME NEW old \in Connector!Slot, NEW at \in Connector!Stages, NEW answer \in Connector!Answers
  PROVE  /\ Moved(old, at, answer) \in Connector!Slot
         /\ Moved(old, at, answer).at = at /\ Moved(old, at, answer).answer = answer
         /\ Moved(old, at, answer).op = old.op /\ Moved(old, at, answer).id = old.id
         /\ Moved(old, at, answer).token = old.token
BY DEF Connector!Slot, Moved

LEMMA SentTyped ==
  ASSUME NEW op \in Connector!Ops, NEW token \in Connector!Boot \cup {Connector!None},
         NEW id \in Connector!Id
  PROVE  /\ Connector!Sent(op, token, id) \in Connector!Slot
         /\ Connector!Sent(op, token, id).at = "SENT" /\ Connector!Sent(op, token, id).op = op
         /\ Connector!Sent(op, token, id).id = id
BY DEF Connector!Sent, Connector!Slot, Connector!Stages, Connector!Answers

\* How the handler takes a request up.
LEMMA ArriveFacts ==
  ASSUME ConnectorSound, NEW r \in Request, Connector!Arrive(r)
  PROVE  /\ imports' \subseteq imports /\ used' \in 0 .. RateLimit
         /\ \E at \in {"ANSWER", "READING", "VERIFYING"}, answer \in Connector!Answers :
              /\ Connector!Put(r, [slot[r] EXCEPT !.at = at, !.answer = answer])
              /\ at # "ANSWER" => up /\ slot[r].token = boot
              /\ at = "READING" => slot[r].op = "import"
              /\ at = "VERIFYING" =>
                   /\ slot[r].op = "validate"
                   /\ \E i \in imports : i.id = slot[r].id /\ now - i.at < ImportTTL
              /\ at = "ANSWER" /\ answer = "ok" => slot[r].op \notin {"import", "validate"}
<1> USE DEF ConnectorSound, Connector!Inductive, Connector!TypeOK
<1> DEFINE Goal == \E at \in {"ANSWER", "READING", "VERIFYING"}, answer \in Connector!Answers :
              /\ Connector!Put(r, [slot[r] EXCEPT !.at = at, !.answer = answer])
              /\ at # "ANSWER" => up /\ slot[r].token = boot
              /\ at = "READING" => slot[r].op = "import"
              /\ at = "VERIFYING" =>
                   /\ slot[r].op = "validate"
                   /\ \E i \in imports : i.id = slot[r].id /\ now - i.at < ImportTTL
              /\ at = "ANSWER" /\ answer = "ok" => slot[r].op \notin {"import", "validate"}
<1>1. slot[r] \in Connector!Slot /\ slot[r].op \in Connector!Ops
  BY DEF Connector!Slot
<1>2. ASSUME NEW at \in {"READING", "VERIFYING"},
             Connector!Put(r, [slot[r] EXCEPT !.at = at])
      PROVE  Connector!Put(r, [slot[r] EXCEPT !.at = at, !.answer = slot[r].answer])
  <2>1. [slot[r] EXCEPT !.at = at] = [slot[r] EXCEPT !.at = at, !.answer = slot[r].answer]
    BY <1>1 DEF Connector!Slot
  <2> QED BY <1>2, <2>1
<1>3. slot[r].answer \in Connector!Answers
  BY <1>1 DEF Connector!Slot
<1>4. Connector!Purged \subseteq imports
  BY DEF Connector!Purged
<1>5. ASSUME NEW a \in Connector!Answers, Connector!Answer(r, a), a # "ok"
      PROVE  Goal
  BY <1>5 DEF Connector!Answer
<1>6. ASSUME Connector!Answer(r, "ok"), slot[r].op \notin {"import", "validate"}
      PROVE  Goal
  BY <1>6 DEF Connector!Answer, Connector!Answers
<1>7. ASSUME Connector!StartImport(r), slot[r].op = "import", up, slot[r].token = boot
      PROVE  Goal /\ imports' \subseteq imports
  <2>1. CASE Connector!Put(r, [slot[r] EXCEPT !.at = "READING"])
    <3>1. Connector!Put(r, [slot[r] EXCEPT !.at = "READING", !.answer = slot[r].answer])
      BY <2>1, <1>2
    <3> QED BY <3>1, <1>3, <1>4, <1>7 DEF Connector!StartImport
  <2>2. CASE Connector!Answer(r, "TOO_MANY_IMPORTS")
    BY <2>2, <1>4, <1>5, <1>7 DEF Connector!StartImport, Connector!Answers
  <2> QED BY <2>1, <2>2, <1>7 DEF Connector!StartImport
<1>8. ASSUME Connector!UseImport(r), slot[r].op \in {"describe", "validate"}, up,
             slot[r].token = boot
      PROVE  Goal /\ imports' \subseteq imports
  <2>1. imports' = Connector!Purged
    BY <1>8 DEF Connector!UseImport
  <2>2. CASE Connector!Answer(r, "IMPORT_EXPIRED")
    BY <2>1, <2>2, <1>4, <1>5 DEF Connector!Answers
  <2>3. CASE Connector!Answer(r, "ok") /\ slot[r].op = "describe"
    BY <2>1, <2>3, <1>4, <1>6
  <2>4. CASE /\ \E i \in Connector!Purged : i.id = slot[r].id
             /\ slot[r].op = "validate"
             /\ Connector!Put(r, [slot[r] EXCEPT !.at = "VERIFYING"])
    <3>1. Connector!Put(r, [slot[r] EXCEPT !.at = "VERIFYING", !.answer = slot[r].answer])
      BY <2>4, <1>2
    <3>2. \E i \in imports : i.id = slot[r].id /\ now - i.at < ImportTTL
      BY <2>4 DEF Connector!Purged
    <3> QED BY <3>1, <3>2, <2>1, <2>4, <1>3, <1>4, <1>8
  <2> QED BY <2>2, <2>3, <2>4, <1>8 DEF Connector!UseImport
<1>9. CASE ~up /\ Connector!Unreachable(r) /\ UNCHANGED <<used, imports>>
  BY <1>9, <1>5 DEF Connector!Unreachable, Connector!Answers
<1>10. CASE Connector!Answer(r, "PAIRING_REQUIRED") /\ UNCHANGED <<used, imports>>
  BY <1>10, <1>5 DEF Connector!Answers
<1>11. CASE Connector!Answer(r, "RATE_LIMITED") /\ UNCHANGED <<used, imports>>
  BY <1>11, <1>5 DEF Connector!Answers
<1>12. CASE /\ up /\ slot[r].token = boot /\ used # RateLimit
            /\ used' = used + 1
            /\ \/ /\ slot[r].op \in {"confirm", "status"}
                  /\ Connector!Answer(r, "ok") /\ imports' = Connector!Purged
               \/ slot[r].op = "import" /\ Connector!StartImport(r)
               \/ slot[r].op \in {"describe", "validate"} /\ Connector!UseImport(r)
  <2>1. used' \in 0 .. RateLimit
    BY <1>12, ImportAssumption
  <2> HIDE DEF Goal
  <2> SUFFICES Goal /\ imports' \subseteq imports
    BY <2>1 DEF Goal
  <2> QED BY <1>4, <1>6, <1>7, <1>8, <1>12
<1> QED
  BY <1>1, <1>9, <1>10, <1>11, <1>12 DEF Connector!Arrive, Connector!Ops

LEMMA ArriveStep ==
  ASSUME ConnectorSound, NEW r \in Request, Connector!Arrive(r)
  PROVE  ConnectorSound'
<1> USE DEF ConnectorSound, Connector!Inductive, Connector!TypeOK
<1>1. UNCHANGED <<now, up, boot, born, records, page, window, minted, judged>>
  BY DEF Connector!Arrive, Connector!history
<1> PICK at \in {"ANSWER", "READING", "VERIFYING"}, answer \in Connector!Answers :
      /\ Connector!Put(r, [slot[r] EXCEPT !.at = at, !.answer = answer])
      /\ at # "ANSWER" => up /\ slot[r].token = boot
      /\ at = "READING" => slot[r].op = "import"
      /\ at = "VERIFYING" =>
           /\ slot[r].op = "validate"
           /\ \E i \in imports : i.id = slot[r].id /\ now - i.at < ImportTTL
      /\ at = "ANSWER" /\ answer = "ok" => slot[r].op \notin {"import", "validate"}
  BY ArriveFacts
<1>2. at \in Connector!Stages /\ slot[r] \in Connector!Slot
  BY DEF Connector!Stages
<1> PICK v \in Connector!Slot :
      /\ v = Moved(slot[r], at, answer)
      /\ v.at = at /\ v.answer = answer
      /\ v.op = slot[r].op /\ v.id = slot[r].id /\ v.token = slot[r].token
  BY <1>2, MovedFacts
<1>3. /\ slot' \in [Request -> Connector!Slot] /\ slot'[r] = v
      /\ \A q \in Request : q # r => slot'[q] = slot[q]
  <2>1. Connector!Put(r, v)
    BY DEF Moved
  <2> QED BY <2>1, PutFacts
<1>4. Connector!RequestInOrder(r)'
  BY <1>1, <1>2, <1>3 DEF Connector!RequestInOrder, Connector!Answered
<1>5. \A q \in Request : Connector!RequestInOrder(q)'
  BY <1>1, <1>3, <1>4, RequestKept
<1>6. imports' \subseteq imports /\ used' \in 0 .. RateLimit
  BY ArriveFacts
<1>7. ConnectorSound'
  BY <1>1, <1>3, <1>5, <1>6
     DEF Connector!ImportsInOrder, Connector!BytesDropped, Connector!ShownIsRecorded
<1> QED BY <1>7

LEMMA ReadStep ==
  ASSUME ConnectorSound, NEW r \in Request, Connector!ReadTranscript(r)
  PROVE  ConnectorSound'
<1> USE DEF ConnectorSound, Connector!Inductive, Connector!TypeOK
<1>1. UNCHANGED <<now, up, boot, born, used, records, page, window, judged>>
  BY DEF Connector!ReadTranscript
<1>2. slot[r] \in Connector!Slot /\ slot[r].at = "READING" /\ slot[r].op = "import" /\ up
  BY DEF Connector!ReadTranscript, Connector!RequestInOrder
<1>3. CASE \E id \in Import \ minted :
             /\ imports' = imports \cup {[id |-> id, at |-> now, boot |-> boot]}
             /\ minted' = minted \cup {id}
             /\ Connector!Put(r, [slot[r] EXCEPT !.at = "ANSWER", !.answer = "ok", !.id = id])
  <2> PICK id \in Import \ minted :
        /\ imports' = imports \cup {[id |-> id, at |-> now, boot |-> boot]}
        /\ minted' = minted \cup {id}
        /\ Connector!Put(r, [slot[r] EXCEPT !.at = "ANSWER", !.answer = "ok", !.id = id])
    BY <1>3
  <2> DEFINE v == [slot[r] EXCEPT !.at = "ANSWER", !.answer = "ok", !.id = id]
  <2>1. /\ v \in Connector!Slot /\ v.at = "ANSWER" /\ v.op = "import" /\ v.id = id
    BY <1>2 DEF Connector!Slot, Connector!Stages, Connector!Answers, Connector!Id
  <2>2. /\ slot' \in [Request -> Connector!Slot] /\ slot'[r] = v
        /\ \A q \in Request : q # r => slot'[q] = slot[q]
    BY <2>1, PutFacts
  <2>3. Connector!RequestInOrder(r)'
    BY <2>1, <2>2 DEF Connector!RequestInOrder, Connector!Answered
  <2>4. \A q \in Request : Connector!RequestInOrder(q)'
    BY <1>1, <2>2, <2>3, RequestKept
  <2>5. Connector!ImportsInOrder' /\ Connector!BytesDropped'
    BY <1>1, <1>2 DEF Connector!ImportsInOrder, Connector!BytesDropped
  <2>6. Connector!TypeOK'
    BY <1>1, <2>2
  <2> QED BY <1>1, <2>4, <2>5, <2>6 DEF Connector!ShownIsRecorded
<1>4. CASE Connector!Answer(r, "REJECTED") /\ UNCHANGED <<imports, minted>>
  <2> "ANSWER" \in Connector!Stages /\ "REJECTED" \in Connector!Answers
    BY DEF Connector!Stages, Connector!Answers
  <2>1. PICK v \in Connector!Slot :
          /\ v = Moved(slot[r], "ANSWER", "REJECTED")
          /\ v.at = "ANSWER" /\ v.answer = "REJECTED" /\ v.op = "import"
    BY <1>2, MovedFacts
  <2>2. /\ slot' \in [Request -> Connector!Slot] /\ slot'[r] = v
        /\ \A q \in Request : q # r => slot'[q] = slot[q]
    <3>1. Connector!Put(r, v)
      BY <1>4, <2>1 DEF Moved, Connector!Answer
    <3> QED BY <3>1, PutFacts
  <2>3. Connector!RequestInOrder(r)'
    BY <2>1, <2>2 DEF Connector!RequestInOrder, Connector!Answered
  <2>4. \A q \in Request : Connector!RequestInOrder(q)'
    BY <1>1, <1>4, <2>2, <2>3, RequestKept
  <2> QED
    BY <1>1, <1>4, <2>2, <2>4
       DEF Connector!ImportsInOrder, Connector!BytesDropped, Connector!ShownIsRecorded
<1> QED BY <1>3, <1>4 DEF Connector!ReadTranscript

LEMMA VerifiedStep ==
  ASSUME ConnectorSound, NEW r \in Request, Connector!Verified(r)
  PROVE  ConnectorSound'
<1> USE DEF ConnectorSound, Connector!Inductive, Connector!TypeOK
<1>1. /\ UNCHANGED <<now, up, boot, born, used, records, page, window, minted>>
      /\ judged' = judged \cup {slot[r].id} /\ imports' = imports \ Connector!Held(slot[r].id)
  BY DEF Connector!Verified, Connector!Drop
<1>2. /\ slot[r] \in Connector!Slot /\ slot[r].op = "validate" /\ up /\ slot[r].token = boot
      /\ slot[r].id \in minted
  BY DEF Connector!Verified, Connector!RequestInOrder
<1>3. PICK at \in {"SAVING", "ANSWER"} : \E answer \in {slot[r].answer, "REJECTED"} :
        /\ Connector!Put(r, [slot[r] EXCEPT !.at = at, !.answer = answer])
        /\ at = "ANSWER" => answer = "REJECTED"
  <2>1. CASE Connector!Answer(r, "REJECTED")
    BY <2>1 DEF Connector!Answer
  <2>2. CASE Connector!Put(r, [slot[r] EXCEPT !.at = "SAVING"])
    <3>1. [slot[r] EXCEPT !.at = "SAVING"]
            = [slot[r] EXCEPT !.at = "SAVING", !.answer = slot[r].answer]
      BY <1>2 DEF Connector!Slot
    <3> QED BY <2>2, <3>1
  <2> QED BY <2>1, <2>2 DEF Connector!Verified
<1> PICK answer \in {slot[r].answer, "REJECTED"} :
      /\ Connector!Put(r, [slot[r] EXCEPT !.at = at, !.answer = answer])
      /\ at = "ANSWER" => answer = "REJECTED"
  BY <1>3
<1>4. answer \in Connector!Answers /\ at \in Connector!Stages
  BY <1>2 DEF Connector!Slot, Connector!Answers, Connector!Stages
<1>5. PICK v \in Connector!Slot :
        /\ v = Moved(slot[r], at, answer)
        /\ v.at = at /\ v.answer = answer /\ v.op = "validate"
        /\ v.id = slot[r].id /\ v.token = slot[r].token
  BY <1>2, <1>4, MovedFacts
<1>6. /\ slot' \in [Request -> Connector!Slot] /\ slot'[r] = v
      /\ \A q \in Request : q # r => slot'[q] = slot[q]
  <2>1. Connector!Put(r, v)
    BY <1>5 DEF Moved
  <2> QED BY <2>1, PutFacts
<1>7. Connector!RequestInOrder(r)'
  BY <1>1, <1>2, <1>5, <1>6 DEF Connector!RequestInOrder, Connector!Answered
<1>8. \A q \in Request : Connector!RequestInOrder(q)'
  BY <1>1, <1>6, <1>7, RequestKept
<1>9. Connector!ImportsInOrder' /\ Connector!BytesDropped'
  BY <1>1 DEF Connector!ImportsInOrder, Connector!BytesDropped, Connector!Held
<1>10. Connector!TypeOK'
  BY <1>1, <1>2, <1>6
<1> QED BY <1>1, <1>2, <1>8, <1>9, <1>10 DEF Connector!ShownIsRecorded

LEMMA SaveStep ==
  ASSUME ConnectorSound, NEW r \in Request, Connector!Save(r) \/ Connector!Write(r)
  PROVE  ConnectorSound'
<1> USE DEF ConnectorSound, Connector!Inductive, Connector!TypeOK
<1>1. UNCHANGED <<now, up, boot, born, used, imports, page, window, minted, judged>>
  BY DEF Connector!Save, Connector!Write
<1>2. /\ slot[r] \in Connector!Slot /\ slot[r].op = "validate"
      /\ up /\ slot[r].token = boot
      /\ slot[r].id \in judged /\ slot[r].id \in minted
  BY DEF Connector!Save, Connector!Write, Connector!RequestInOrder
<1>3. PICK at \in {"WRITING", "ANSWER"}, answer \in Connector!Answers :
        /\ Connector!Put(r, Moved(slot[r], at, answer))
        /\ records' \in {records, records \cup {<<slot[r].id, "created">>},
                        records \cup {<<slot[r].id, "written">>}}
        /\ at = "ANSWER" /\ answer = "ok" => <<slot[r].id, "written">> \in records'
  <2>1. CASE Connector!Put(r, [slot[r] EXCEPT !.at = "WRITING"])
    <3>1. slot[r].answer \in Connector!Answers
      BY <1>2 DEF Connector!Slot
    <3>2. [slot[r] EXCEPT !.at = "WRITING"] = Moved(slot[r], "WRITING", slot[r].answer)
      BY <1>2 DEF Connector!Slot, Moved
    <3>3. records' \in {records, records \cup {<<slot[r].id, "created">>},
                        records \cup {<<slot[r].id, "written">>}}
      BY DEF Connector!Save, Connector!Write
    <3> QED BY <2>1, <3>1, <3>2, <3>3
  <2>2. CASE Connector!Answer(r, "ok") /\ records' = records \cup {<<slot[r].id, "written">>}
    BY <2>2 DEF Connector!Answer, Connector!Answers, Moved
  <2>3. CASE Connector!Answer(r, "INTERNAL_ERROR") /\ records' = records
    BY <2>3 DEF Connector!Answer, Connector!Answers, Moved
  <2> QED BY <2>1, <2>2, <2>3 DEF Connector!Save, Connector!Write
<1> at \in Connector!Stages
  BY DEF Connector!Stages
<1>4. PICK v \in Connector!Slot :
        /\ v = Moved(slot[r], at, answer)
        /\ v.at = at /\ v.answer = answer /\ v.op = "validate" /\ v.id = slot[r].id
        /\ v.token = slot[r].token
  BY <1>2, MovedFacts
<1>5. /\ slot' \in [Request -> Connector!Slot] /\ slot'[r] = v
      /\ \A q \in Request : q # r => slot'[q] = slot[q]
  BY <1>3, <1>4, PutFacts
<1>6. records \subseteq records'
  BY <1>3
<1>7. Connector!RequestInOrder(r)'
  BY <1>1, <1>2, <1>3, <1>4, <1>5 DEF Connector!RequestInOrder, Connector!Answered
<1>8. \A q \in Request : Connector!RequestInOrder(q)'
  BY <1>1, <1>5, <1>6, <1>7, RequestKept
<1>9. Connector!TypeOK' /\ \A f \in records' : f[1] \in judged'
  BY <1>1, <1>2, <1>3, <1>5
<1> QED
  BY <1>1, <1>6, <1>8, <1>9
     DEF Connector!ImportsInOrder, Connector!BytesDropped, Connector!ShownIsRecorded

\* The connector dies, is started again, or a minute passes.
LEMMA OutsideStep ==
  ASSUME ConnectorSound, Connector!Crash \/ Connector!createConnector \/ Connector!Tick
  PROVE  ConnectorSound'
<1> USE DEF ConnectorSound, Connector!Inductive, Connector!TypeOK
<1>1. CASE Connector!Crash
  <2>1. /\ UNCHANGED <<now, boot, born, used, records, page, window, minted, judged>>
        /\ up' = FALSE /\ imports' = {}
    BY <1>1 DEF Connector!Crash, Connector!history
  <2>2. slot' \in [Request -> Connector!Slot]
    BY <1>1, SlotTyped DEF Connector!Crash, Connector!Stages, Connector!Answers
  <2>3. ASSUME NEW q \in Request PROVE Connector!RequestInOrder(q)' /\ slot'[q].at # "VERIFYING"
    <3>1. CASE Connector!Interrupted(q)
      <4>1. slot'[q] = [slot[q] EXCEPT !.at = "ANSWER", !.answer = "lost"]
        BY <1>1, <3>1 DEF Connector!Crash
      <4>2. slot[q] \in Connector!Slot
        OBVIOUS
      <4>3. /\ slot'[q].at = "ANSWER" /\ slot'[q].answer = "lost" /\ slot'[q].op = slot[q].op
            /\ slot'[q].id = slot[q].id
        BY <4>1, <4>2 DEF Connector!Slot
      <4> QED BY <2>1, <4>3 DEF Connector!RequestInOrder, Connector!Answered
    <3>2. CASE ~Connector!Interrupted(q)
      <4>1. slot'[q] = slot[q] /\ slot[q].at \notin {"READING", "VERIFYING", "SAVING", "WRITING"}
        BY <1>1, <3>2 DEF Connector!Crash, Connector!Interrupted
      <4> QED BY <2>1, <4>1 DEF Connector!RequestInOrder, Connector!Answered
    <3> QED BY <3>1, <3>2
  <2> QED
    BY <2>1, <2>2, <2>3
       DEF Connector!ImportsInOrder, Connector!BytesDropped, Connector!ShownIsRecorded
<1>2. CASE Connector!createConnector
  <2>1. /\ UNCHANGED <<now, imports, records, slot, page, window, minted, judged>>
        /\ ~up /\ boot < MaxBoots /\ up' = TRUE /\ boot' = boot + 1 /\ used' = 0
        /\ born' = [born EXCEPT ![boot + 1] = now]
    BY <1>2 DEF Connector!createConnector, Connector!history
  <2>2. \A q \in Request : Connector!RequestInOrder(q)'
    BY <2>1 DEF Connector!RequestInOrder, Connector!Answered
  <2>3. Connector!TypeOK'
    BY <2>1, ImportAssumption DEF Connector!Boot
  <2> QED
    BY <2>1, <2>2, <2>3
       DEF Connector!ImportsInOrder, Connector!BytesDropped, Connector!ShownIsRecorded
<1>3. CASE Connector!Tick
  <2>1. /\ UNCHANGED <<up, boot, born, imports, records, slot, page, window, minted, judged>>
        /\ now < MaxNow /\ now' = now + 1 /\ used' = 0
    BY <1>3 DEF Connector!Tick, Connector!history
  <2>2. \A q \in Request : Connector!RequestInOrder(q)'
    BY <2>1 DEF Connector!RequestInOrder, Connector!Answered
  <2>3. Connector!TypeOK'
    BY <2>1, ImportAssumption
  <2> QED
    BY <2>1, <2>2, <2>3
       DEF Connector!ImportsInOrder, Connector!BytesDropped, Connector!ShownIsRecorded
<1> QED BY <1>1, <1>2, <1>3

\* What the page does: it puts a request in order, and what it shows of imports
\* and verdicts was given out and is on disk.
LEMMA PageChange ==
  ASSUME ConnectorSound, UNCHANGED <<now, up, boot, born, used, imports, records, minted, judged>>,
         slot' \in [Request -> Connector!Slot], page' \in Connector!Page,
         window' \in Connector!Boot \cup {Connector!None},
         \A q \in Request : Connector!RequestInOrder(q)',
         \A q \in Request : slot'[q].at = "VERIFYING" => slot[q].at = "VERIFYING",
         page'.importId \in minted \cup {Connector!None},
         page'.result # Connector!None => <<page'.result, "written">> \in records
  PROVE  ConnectorSound'
BY DEF ConnectorSound, Connector!Inductive, Connector!TypeOK, Connector!ImportsInOrder,
   Connector!BytesDropped, Connector!ShownIsRecorded

\* One request of the page goes on, the others stay as they are.
LEMMA PageStep ==
  ASSUME ConnectorSound, UNCHANGED <<now, up, boot, born, used, imports, records, minted, judged>>,
         NEW r \in Request, NEW v \in Connector!Slot, Connector!Put(r, v),
         v.at \in {"IDLE", "SENT"}, v.op \in {"describe", "validate"} => v.id \in minted,
         page' \in Connector!Page, window' \in Connector!Boot \cup {Connector!None},
         page'.importId \in minted \cup {Connector!None},
         page'.result # Connector!None => <<page'.result, "written">> \in records
  PROVE  ConnectorSound'
<1> USE DEF ConnectorSound, Connector!Inductive
<1>1. /\ slot' \in [Request -> Connector!Slot] /\ slot'[r] = v
      /\ \A q \in Request : q # r => slot'[q] = slot[q]
  BY PutFacts
<1>2. Connector!RequestInOrder(r)'
  BY <1>1, RequestSent
<1>3. \A q \in Request : Connector!RequestInOrder(q)'
  BY <1>1, <1>2, RequestKept
<1>4. \A q \in Request : slot'[q].at = "VERIFYING" => slot[q].at = "VERIFYING"
  BY <1>1
<1> QED BY <1>1, <1>3, <1>4, PageChange

LEMMA IdleFacts ==
  /\ Connector!Idle \in Connector!Slot /\ Connector!Idle.at = "IDLE" /\ Connector!Idle.op = "status"
BY DEF Connector!Idle, Connector!Slot, Connector!Stages, Connector!Ops, Connector!Id,
   Connector!Answers

\* A request is sent with the pairing that is stored, or the pairing goes.
LEMMA SendFacts ==
  ASSUME Connector!TypeOK, NEW r \in Request, NEW op \in Connector!Ops, NEW id \in Connector!Id,
         NEW next \in Connector!Page, NEW refused \in Connector!Page,
         Connector!Send(r, op, id, next, refused)
  PROVE  \E v \in Connector!Slot :
           /\ Connector!Put(r, v) /\ v.at \in {"IDLE", "SENT"}
           /\ v = Connector!Idle \/ (v.op = op /\ v.id = id)
           /\ page' = next \/ page' = [refused EXCEPT !.pairing = Connector!None]
<1>1. CASE Connector!storedPairing
  <2>1. page.pairing \in Connector!Boot \cup {Connector!None}
    BY DEF Connector!TypeOK, Connector!Page
  <2>2. PICK v \in Connector!Slot :
          /\ v = Connector!Sent(op, page.pairing, id)
          /\ v.at = "SENT" /\ v.op = op /\ v.id = id
    BY <2>1, SentTyped
  <2> QED BY <1>1, <2>2 DEF Connector!Send
<1>2. CASE ~Connector!storedPairing
  <2>1. PICK v \in Connector!Slot : v = Connector!Idle /\ v.at = "IDLE"
    BY IdleFacts
  <2> QED BY <1>2, <2>1 DEF Connector!Send
<1> QED BY <1>1, <1>2

LEMMA PageFacts ==
  ASSUME NEW p \in Connector!Page
  PROVE  /\ [p EXCEPT !.pairing = Connector!None] \in Connector!Page
         /\ [p EXCEPT !.pairing = Connector!None].importId = p.importId
         /\ [p EXCEPT !.pairing = Connector!None].result = p.result
BY DEF Connector!Page

LEMMA ReceiveStep ==
  ASSUME ConnectorSound, NEW r \in Request, Connector!Receive(r)
  PROVE  ConnectorSound'
<1> USE DEF ConnectorSound, Connector!Inductive
<1>1. /\ UNCHANGED <<now, up, boot, born, used, imports, records, minted, judged>>
      /\ window' = window /\ window \in Connector!Boot \cup {Connector!None}
      /\ slot[r] \in Connector!Slot /\ slot[r].at = "ANSWER"
  BY DEF Connector!Receive, Connector!connector, Connector!history, Connector!TypeOK
<1>2. /\ page \in Connector!Page /\ slot[r].id \in Connector!Id /\ slot[r].op \in Connector!Ops
      /\ page.importId \in minted \cup {Connector!None}
      /\ page.result # Connector!None => <<page.result, "written">> \in records
  BY <1>1 DEF Connector!TypeOK, Connector!Slot, Connector!ShownIsRecorded
<1>3. ASSUME Connector!Put(r, Connector!Idle), page' \in Connector!Page,
             page'.importId \in minted \cup {Connector!None},
             page'.result # Connector!None => <<page'.result, "written">> \in records
      PROVE  ConnectorSound'
  BY <1>1, <1>3, IdleFacts, PageStep
<1>4. ASSUME NEW op \in Connector!Ops, NEW id \in Connector!Id, NEW refused \in Connector!Page,
             Connector!Send(r, op, id, page, refused), refused.importId = page.importId,
             refused.result = page.result, op \in {"describe", "validate"} => id \in minted
      PROVE  ConnectorSound'
  <2>1. PICK v \in Connector!Slot :
           /\ Connector!Put(r, v) /\ v.at \in {"IDLE", "SENT"}
           /\ v = Connector!Idle \/ (v.op = op /\ v.id = id)
           /\ page' = page \/ page' = [refused EXCEPT !.pairing = Connector!None]
    BY <1>2, <1>4, SendFacts
  <2>2. v.op \in {"describe", "validate"} => v.id \in minted
    BY <1>4, <2>1, IdleFacts
  <2>3. /\ page' \in Connector!Page /\ page'.importId = page.importId
        /\ page'.result = page.result
    BY <1>2, <1>4, <2>1, PageFacts
  <2> QED BY <1>1, <1>2, <2>1, <2>2, <2>3, PageStep
<1>5. CASE Connector!Put(r, Connector!Idle) /\ UNCHANGED page
  BY <1>2, <1>3, <1>5
<1>6. CASE Connector!Paired(r)
  <2>1. CASE Connector!Send(r, "status", Connector!None, page, [page EXCEPT !.connected = FALSE])
    <3>1. /\ [page EXCEPT !.connected = FALSE] \in Connector!Page
          /\ [page EXCEPT !.connected = FALSE].importId = page.importId
          /\ [page EXCEPT !.connected = FALSE].result = page.result
      BY <1>2 DEF Connector!Page
    <3>2. Connector!None \in Connector!Id /\ "status" \in Connector!Ops
      BY DEF Connector!Id, Connector!Ops
    <3> QED BY <2>1, <3>1, <3>2, <1>4
  <2>2. CASE /\ Connector!Put(r, Connector!Idle)
             /\ \/ page' = [page EXCEPT !.connected = TRUE]
                \/ page' = [page EXCEPT !.pairing = Connector!None, !.connected = FALSE]
    <3>1. /\ page' \in Connector!Page /\ page'.importId = page.importId
          /\ page'.result = page.result
      BY <1>2, <2>2 DEF Connector!Page
    <3> QED BY <1>2, <1>3, <2>2, <3>1
  <2> QED BY <1>6, <2>1, <2>2 DEF Connector!Paired
<1>7. CASE Connector!Imported(r) /\ slot[r].op = "import"
  <2>1. CASE /\ slot[r].answer = "ok"
             /\ Connector!Send(r, "describe", slot[r].id, page, page)
    <3>1. slot[r].id \in minted
      BY <1>1, <1>7, <2>1 DEF Connector!RequestInOrder, Connector!Answered
    <3>2. "describe" \in Connector!Ops
      BY DEF Connector!Ops
    <3> QED BY <2>1, <3>1, <3>2, <1>2, <1>4
  <2> QED BY <1>5, <1>7, <2>1 DEF Connector!Imported
<1>8. CASE Connector!Described(r) /\ slot[r].op = "describe"
  <2>1. slot[r].id \in minted
    BY <1>8 DEF Connector!RequestInOrder
  <2>2. /\ page' \in Connector!Page /\ page'.importId \in minted \cup {Connector!None}
        /\ page'.result # Connector!None => <<page'.result, "written">> \in records
    BY <1>2, <1>8, <2>1 DEF Connector!Described, Connector!Page, Connector!Id
  <2> QED BY <1>3, <1>8, <2>2 DEF Connector!Described
<1>9. CASE Connector!Result(r) /\ slot[r].op = "validate"
  <2>1. slot[r].answer = "ok" => <<slot[r].id, "written">> \in records
    BY <1>1, <1>9 DEF Connector!RequestInOrder, Connector!Answered
  <2>2. /\ page' \in Connector!Page /\ page'.importId = page.importId
        /\ page'.result # Connector!None => <<page'.result, "written">> \in records
    BY <1>2, <1>9, <2>1 DEF Connector!Result, Connector!Page
  <2> QED BY <1>2, <1>3, <1>9, <2>2 DEF Connector!Result
<1> QED
  BY <1>2, <1>5, <1>6, <1>7, <1>8, <1>9 DEF Connector!Receive, Connector!Ops

\* What the operator does on the page and in the import window.
LEMMA OperatorStep ==
  ASSUME ConnectorSound, NEW r \in Request,
         Connector!importPairing(r) \/ Connector!SubmitImport(r) \/ Connector!ClickValidate(r)
  PROVE  ConnectorSound'
<1> USE DEF ConnectorSound, Connector!Inductive
<1>1. /\ UNCHANGED <<now, up, boot, born, used, imports, records, minted, judged>>
      /\ window' = window /\ window \in Connector!Boot \cup {Connector!None}
      /\ page \in Connector!Page /\ page.importId \in minted \cup {Connector!None}
      /\ page.importId \in Connector!Id
      /\ page.result # Connector!None => <<page.result, "written">> \in records
  BY DEF Connector!importPairing, Connector!SubmitImport, Connector!ClickValidate,
     Connector!connector, Connector!history, Connector!TypeOK, Connector!ShownIsRecorded,
     Connector!Page
<1>2. CASE Connector!importPairing(r)
  <2>1. PICK b \in 1 .. boot :
          /\ page' = [page EXCEPT !.pairing = b]
          /\ Connector!Put(r, Connector!Sent("confirm", b, Connector!None))
    BY <1>2 DEF Connector!importPairing
  <2>2. b \in Connector!Boot /\ "confirm" \in Connector!Ops /\ Connector!None \in Connector!Id
    BY ImportAssumption DEF Connector!TypeOK, Connector!Boot, Connector!Ops, Connector!Id
  <2>3. /\ page' \in Connector!Page /\ page'.importId = page.importId
        /\ page'.result = page.result
    BY <1>1, <2>1, <2>2 DEF Connector!Page
  <2>4. /\ Connector!Sent("confirm", b, Connector!None) \in Connector!Slot
        /\ Connector!Sent("confirm", b, Connector!None).at = "SENT"
        /\ Connector!Sent("confirm", b, Connector!None).op = "confirm"
    BY <2>2, SentTyped
  <2> QED BY <1>1, <2>1, <2>3, <2>4, PageStep
<1>3. CASE Connector!SubmitImport(r)
  <2>1. /\ Connector!Put(r, Connector!Sent("import", window, Connector!None)) /\ page' = page
    BY <1>3 DEF Connector!SubmitImport
  <2>2. "import" \in Connector!Ops /\ Connector!None \in Connector!Id
    BY DEF Connector!Ops, Connector!Id
  <2>3. /\ Connector!Sent("import", window, Connector!None) \in Connector!Slot
        /\ Connector!Sent("import", window, Connector!None).at = "SENT"
        /\ Connector!Sent("import", window, Connector!None).op = "import"
    BY <1>1, <2>2, SentTyped
  <2> QED BY <1>1, <2>1, <2>3, PageStep
<1>4. CASE Connector!ClickValidate(r)
  <2>1. /\ [page EXCEPT !.disabled = TRUE] \in Connector!Page
        /\ [page EXCEPT !.disabled = TRUE].importId = page.importId
        /\ [page EXCEPT !.disabled = TRUE].result = page.result
    BY <1>1 DEF Connector!Page
  <2>2. page.importId \in minted /\ "validate" \in Connector!Ops
    BY <1>1, <1>4 DEF Connector!ClickValidate, Connector!Ops
  <2>3. Connector!Send(r, "validate", page.importId, [page EXCEPT !.disabled = TRUE], page)
    BY <1>4 DEF Connector!ClickValidate
  <2>4. PICK v \in Connector!Slot :
          /\ Connector!Put(r, v) /\ v.at \in {"IDLE", "SENT"}
          /\ v = Connector!Idle \/ (v.op = "validate" /\ v.id = page.importId)
          /\ \/ page' = [page EXCEPT !.disabled = TRUE]
             \/ page' = [page EXCEPT !.pairing = Connector!None]
    BY <1>1, <2>1, <2>2, <2>3, SendFacts
  <2>5. /\ page' \in Connector!Page /\ page'.importId = page.importId
        /\ page'.result = page.result
    BY <1>1, <2>1, <2>4, PageFacts
  <2>6. v.op \in {"describe", "validate"} => v.id \in minted
    BY <2>2, <2>4, IdleFacts
  <2> QED BY <1>1, <2>4, <2>5, <2>6, PageStep
<1> QED BY <1>2, <1>3, <1>4

\* What a request loses when the page loads again is its reader.
LEMMA HeardFields ==
  ASSUME NEW v \in Connector!Slot, NEW heard \in BOOLEAN
  PROVE  /\ [v EXCEPT !.heard = heard] \in Connector!Slot
         /\ [v EXCEPT !.heard = heard].at = v.at /\ [v EXCEPT !.heard = heard].op = v.op
         /\ [v EXCEPT !.heard = heard].token = v.token /\ [v EXCEPT !.heard = heard].id = v.id
         /\ [v EXCEPT !.heard = heard].answer = v.answer
BY DEF Connector!Slot

LEMMA UnheardFacts ==
  ASSUME ConnectorSound, UNCHANGED <<now, up, boot, born, used, imports, records, minted, judged>>,
         NEW q \in Request,
         slot'[q] = [slot[q] EXCEPT !.heard = @ /\ slot[q].op = "import"]
  PROVE  /\ slot'[q] \in Connector!Slot /\ Connector!RequestInOrder(q)'
         /\ slot'[q].at = "VERIFYING" => slot[q].at = "VERIFYING"
<1>1. slot[q] \in Connector!Slot /\ slot[q].heard \in BOOLEAN /\ Connector!RequestInOrder(q)
  BY DEF ConnectorSound, Connector!Inductive, Connector!TypeOK, Connector!Slot
<1> DEFINE heard == slot[q].heard /\ slot[q].op = "import"
<1>2. slot'[q] = [slot[q] EXCEPT !.heard = heard]
  OBVIOUS
<1> HIDE DEF heard
<1>3. heard \in BOOLEAN
  BY <1>1 DEF heard
<1>4. /\ slot'[q] \in Connector!Slot /\ slot'[q].at = slot[q].at /\ slot'[q].op = slot[q].op
      /\ slot'[q].token = slot[q].token /\ slot'[q].id = slot[q].id
      /\ slot'[q].answer = slot[q].answer
  BY <1>1, <1>2, <1>3, HeardFields
<1> QED BY <1>1, <1>4, RequestKept

LEMMA BlankFacts ==
  ASSUME NEW pairing \in Connector!Boot \cup {Connector!None}
  PROVE  /\ Connector!Blank(pairing) \in Connector!Page
         /\ Connector!Blank(pairing).importId = Connector!None
         /\ Connector!Blank(pairing).result = Connector!None
BY DEF Connector!Blank, Connector!Page, Connector!Id

\* The page loads, with or without its pairing, or its import window opens.
LEMMA LoadStep ==
  ASSUME ConnectorSound, NEW r \in Request, Connector!Load(r)
  PROVE  ConnectorSound'
<1>1. /\ UNCHANGED <<now, up, boot, born, used, imports, records, minted, judged>>
      /\ window' = window /\ window \in Connector!Boot \cup {Connector!None}
      /\ page.pairing \in Connector!Boot \cup {Connector!None}
  BY DEF Connector!Load, Connector!connector, Connector!history, ConnectorSound,
     Connector!Inductive, Connector!TypeOK, Connector!Page
<1>2. \E pairing \in Connector!Boot \cup {Connector!None}, next \in Connector!Slot :
        /\ page' = Connector!Blank(pairing) /\ Connector!Reloaded(r, next)
        /\ next.at \in {"IDLE", "SENT"} /\ next.op = "status"
  <2>1. CASE Connector!storedPairing
    <3>1. "status" \in Connector!Ops /\ Connector!None \in Connector!Id
      BY DEF Connector!Ops, Connector!Id
    <3>2. PICK next \in Connector!Slot :
            /\ next = Connector!Sent("status", page.pairing, Connector!None)
            /\ next.at = "SENT" /\ next.op = "status"
      BY <1>1, <3>1, SentTyped
    <3> QED BY <1>1, <2>1, <3>2 DEF Connector!Load
  <2>2. CASE ~Connector!storedPairing
    <3>1. PICK next \in Connector!Slot :
            next = Connector!Idle /\ next.at = "IDLE" /\ next.op = "status"
      BY IdleFacts
    <3> QED BY <2>2, <3>1 DEF Connector!Load
  <2> QED BY <2>1, <2>2
<1> PICK pairing \in Connector!Boot \cup {Connector!None}, next \in Connector!Slot :
      /\ page' = Connector!Blank(pairing) /\ Connector!Reloaded(r, next)
      /\ next.at \in {"IDLE", "SENT"} /\ next.op = "status"
  BY <1>2
<1>3. /\ slot'[r] = next
      /\ \A q \in Request \ {r} :
           slot'[q] = [slot[q] EXCEPT !.heard = @ /\ slot[q].op = "import"]
  BY DEF Connector!Reloaded
<1>4. Connector!RequestInOrder(r)'
  BY <1>3, RequestSent
<1>5. \A q \in Request : /\ slot'[q] \in Connector!Slot /\ Connector!RequestInOrder(q)'
                         /\ slot'[q].at = "VERIFYING" => slot[q].at = "VERIFYING"
  BY <1>1, <1>3, <1>4, UnheardFacts
<1>6. slot' \in [Request -> Connector!Slot]
  BY <1>5 DEF Connector!Reloaded
<1>7. /\ page' \in Connector!Page /\ page'.importId \in minted \cup {Connector!None}
      /\ page'.result = Connector!None
  BY BlankFacts
<1> QED BY <1>1, <1>5, <1>6, <1>7, PageChange

LEMMA ForgetStep ==
  ASSUME ConnectorSound, Connector!Forget
  PROVE  ConnectorSound'
<1>1. /\ UNCHANGED <<now, up, boot, born, used, imports, records, minted, judged>>
      /\ window' = window /\ window \in Connector!Boot \cup {Connector!None}
      /\ page' = Connector!Blank(Connector!None)
  BY DEF Connector!Forget, Connector!connector, Connector!history, ConnectorSound,
     Connector!Inductive, Connector!TypeOK
<1>2. \A q \in Request :
        slot'[q] = [slot[q] EXCEPT !.heard = @ /\ slot[q].op = "import"]
  BY DEF Connector!Forget
<1>3. \A q \in Request : /\ slot'[q] \in Connector!Slot /\ Connector!RequestInOrder(q)'
                         /\ slot'[q].at = "VERIFYING" => slot[q].at = "VERIFYING"
  BY <1>1, <1>2, UnheardFacts
<1>4. slot' \in [Request -> Connector!Slot]
  BY <1>3 DEF Connector!Forget
<1>5. /\ page' \in Connector!Page /\ page'.importId \in minted \cup {Connector!None}
      /\ page'.result = Connector!None
  BY <1>1, BlankFacts
<1> QED BY <1>1, <1>3, <1>4, <1>5, PageChange

LEMMA OpenWindowStep ==
  ASSUME ConnectorSound, Connector!OpenWindow
  PROVE  ConnectorSound'
<1>1. /\ UNCHANGED <<now, up, boot, born, used, imports, records, minted, judged>>
      /\ slot' = slot /\ slot \in [Request -> Connector!Slot] /\ page \in Connector!Page
      /\ window' = page.pairing /\ page' = [page EXCEPT !.opened = TRUE]
      /\ page.importId \in minted \cup {Connector!None}
      /\ page.result # Connector!None => <<page.result, "written">> \in records
  BY DEF Connector!OpenWindow, Connector!connector, Connector!history, ConnectorSound,
     Connector!Inductive, Connector!TypeOK, Connector!ShownIsRecorded
<1>2. \A q \in Request : Connector!RequestInOrder(q)
  BY DEF ConnectorSound, Connector!Inductive
<1>3. \A q \in Request : Connector!RequestInOrder(q)'
  BY <1>1, <1>2, RequestKept
<1>4. /\ page' \in Connector!Page /\ page'.importId = page.importId
      /\ page'.result = page.result /\ window' \in Connector!Boot \cup {Connector!None}
  BY <1>1 DEF Connector!Page
<1> QED BY <1>1, <1>3, <1>4, PageChange

\* Every step keeps what is known of the connector and its page.
LEMMA ConnectorStep ==
  ASSUME ConnectorSound, [Connector!Next]_Connector!vars
  PROVE  ConnectorSound'
<1>1. CASE UNCHANGED Connector!vars
  BY <1>1
     DEF Connector!vars, Connector!connector, Connector!history, ConnectorSound,
         Connector!Inductive, Connector!TypeOK, Connector!ImportsInOrder,
         Connector!RequestInOrder, Connector!Answered, Connector!BytesDropped,
         Connector!ShownIsRecorded
<1>2. ASSUME NEW r \in Request, Connector!Handle(r)
      PROVE  ConnectorSound'
  BY <1>2, ArriveStep, ReadStep, VerifiedStep, SaveStep, ReceiveStep DEF Connector!Handle
<1>3. ASSUME NEW r \in Request,
             \/ Connector!importPairing(r) \/ Connector!Load(r)
             \/ Connector!SubmitImport(r) \/ Connector!ClickValidate(r)
      PROVE  ConnectorSound'
  BY <1>3, OperatorStep, LoadStep
<1> QED
  BY <1>1, <1>2, <1>3, ForgetStep, OpenWindowStep, OutsideStep DEF Connector!Next

\* The inductive invariant of the connector holds, the bytes of an import go with
\* its verdict and a verdict that is shown is on disk, whenever it crashes
\* (connector.mjs, hub-app.js).
THEOREM ConnectorHolds == Connector!Spec => []ConnectorSound
BY ConnectorBegin, ConnectorStep, PTL DEF Connector!Spec

-----------------------------------------------------------------------------
(***************************************************************************)
(* The publication page.                                                   *)
(***************************************************************************)
\* How far each state is.
LEMMA Ranks ==
  /\ \A s \in Publication!States \cup {"NONE"} :
       /\ Publication!rank[s] \in 0 .. 4
       /\ s = "NONE" => Publication!rank[s] = 0
       /\ s = "APPROVAL_PENDING" => Publication!rank[s] = 1
       /\ s \in Publication!Decided => Publication!rank[s] = 2
       /\ s \in Publication!Posted => Publication!rank[s] = 3
       /\ s = "COMPLETE" => Publication!rank[s] = 4
  /\ "none" \notin Publication!States /\ "ERROR" \notin Publication!States
  /\ "NONE" \notin Publication!States
BY DEF Publication!rank, Publication!States, Publication!Decided, Publication!Posted

\* The kinds of states are disjoint.
LEMMA StateKinds ==
  /\ Publication!States =
       Publication!Decided \cup Publication!Posted \cup {"APPROVAL_PENDING", "COMPLETE"}
  /\ Publication!Decided \cap (Publication!Posted \cup {"APPROVAL_PENDING", "COMPLETE"}) = {}
  /\ Publication!Posted \cap {"APPROVAL_PENDING", "COMPLETE"} = {}
  /\ "CANCELLED_NONCE_BURNED" \in Publication!Decided
BY DEF Publication!States, Publication!Decided, Publication!Posted

\* The requests are those of the buttons and a second one of Cancel.
LEMMA RequestsOfButtons ==
  /\ Publication!Asks = {"prepare", "sign", "cancel", "submit", "observe", "cancel again"}
  /\ Publication!Button("cancel again") = "cancel"
  /\ \A r \in Publication!Asks : r # "cancel again" => Publication!Button(r) = r
  /\ \A r \in Publication!Asks : Publication!Button(r) \in Publication!Buttons
BY DEF Publication!Asks, Publication!Buttons, Publication!Button

PublicationSound ==
  Publication!Inductive /\ Publication!AskedOnce /\ Publication!OfferExpires

PublicationForward == Publication!rank[shown] <= Publication!rank[shown']

LEMMA PublicationBegin == Publication!Init => PublicationSound
<1> SUFFICES ASSUME Publication!Init PROVE PublicationSound
  OBVIOUS
<1> USE DEF Publication!Init
<1>1. \A r \in Publication!Asks : answers[r] = "none" /\ ~Publication!Pending(r)
  BY DEF Publication!Pending
<1>2. Publication!TypeOK
  BY DEF Publication!TypeOK, Publication!Buttons, Publication!Asks
<1>3. Publication!AsksInOrder /\ Publication!CancelsAtMostTwice
  BY <1>1, RequestsOfButtons DEF Publication!AsksInOrder, Publication!CancelsAtMostTwice
<1>4. Publication!AnswersInOrder
  <2>1. /\ answers["prepare"] = "none" /\ answers["sign"] = "none" /\ answers["cancel"] = "none"
        /\ answers["submit"] = "none" /\ answers["observe"] = "none"
        /\ answers["cancel again"] = "none"
    BY <1>1, RequestsOfButtons
  <2>2. ledger = "NONE" /\ shown = "NONE"
    OBVIOUS
  <2>3. Publication!rank[shown] <= Publication!rank[ledger]
    BY <2>2, Ranks
  <2>4. shown \notin Publication!Posted \cup {"COMPLETE"}
    BY <2>2, StateKinds, Ranks
  <2> HIDE DEF Publication!Init
  <2> QED
    BY <1>1, <2>1, <2>3, <2>4, Ranks DEF Publication!AnswersInOrder
<1> QED
  BY <1>2, <1>3, <1>4
     DEF PublicationSound, Publication!Inductive, Publication!AskedOnce, Publication!OfferExpires

\* What a request may be answered, by what the ledger says.
LEMMA ServedFacts ==
  ASSUME NEW b \in Publication!Buttons, NEW s \in Publication!Served(b)
  PROVE  /\ s \in Publication!States /\ ledger \in Publication!States \cup {"NONE"}
         /\ b = "prepare" => s = "APPROVAL_PENDING"
         /\ b = "sign" => s \in Publication!Decided
         /\ b = "cancel" => s = "CANCELLED_NONCE_BURNED"
         /\ b = "submit" => s \in Publication!Posted
         /\ b = "observe" => s \in Publication!Posted \cup {"COMPLETE"}
         /\ ledger # "CANCELLED_NONCE_BURNED"
         /\ Publication!rank[ledger] <= Publication!rank[s]
<1>1. /\ s \in Publication!States /\ ledger \in Publication!States \cup {"NONE"}
      /\ b = "prepare" => s = "APPROVAL_PENDING" /\ ledger \in {"NONE", "APPROVAL_PENDING"}
      /\ b = "sign" => s \in Publication!Decided /\ ledger = "APPROVAL_PENDING"
      /\ b = "cancel" => s = "CANCELLED_NONCE_BURNED" /\ ledger = "APPROVAL_PENDING"
      /\ b = "submit" => s \in Publication!Posted /\ ledger = "SIGNED"
      /\ b = "observe" => /\ s \in Publication!Posted \cup {"COMPLETE"}
                          /\ ledger \in Publication!Posted \cup {"COMPLETE"}
                          /\ s \in {ledger, "COMPLETE"}
      /\ ledger # "CANCELLED_NONCE_BURNED"
  BY DEF Publication!Served, Publication!Buttons, Publication!States, Publication!Decided,
     Publication!Posted
<1>2. "SIGNED" \in Publication!Decided
  BY DEF Publication!Decided
<1>3. /\ b = "prepare" => Publication!rank[ledger] \in {0, 1} /\ Publication!rank[s] = 1
      /\ b = "sign" => Publication!rank[ledger] = 1 /\ Publication!rank[s] = 2
      /\ b = "cancel" => Publication!rank[ledger] = 1 /\ Publication!rank[s] = 2
      /\ b = "submit" => Publication!rank[ledger] = 2 /\ Publication!rank[s] = 3
  BY <1>1, <1>2, Ranks, StateKinds
<1>4. b = "observe" => s = ledger \/ Publication!rank[s] = 4
  BY <1>1, Ranks
<1>5. Publication!rank[ledger] \in 0 .. 4 /\ Publication!rank[s] \in 0 .. 4
  BY <1>1, Ranks
<1>6. Publication!rank[ledger] <= Publication!rank[s]
  BY <1>3, <1>4, <1>5 DEF Publication!Buttons
<1> QED BY <1>1, <1>6

\* The page that shows the same does not go back.
LEMMA ShownKept ==
  ASSUME shown \in Publication!States \cup {"NONE"}, shown' = shown
  PROVE  PublicationForward
BY Ranks DEF PublicationForward

\* A step that gives no new answer and draws nothing keeps the answers in order.
LEMMA AnswersKept ==
  ASSUME Publication!AnswersInOrder, UNCHANGED <<ledger, shown>>, pressed \subseteq pressed',
         \A r \in Publication!Asks :
           answers'[r] = answers[r] \/ answers'[r] \in {"none", "ERROR"},
         shown \in Publication!Posted \cup {"COMPLETE"} =>
           (Publication!Pending("submit")' => Publication!Pending("submit"))
  PROVE  Publication!AnswersInOrder'
<1>1. \A r \in Publication!Asks : answers'[r] \in Publication!States => answers'[r] = answers[r]
  BY Ranks
<1>2. /\ "prepare" \in Publication!Asks /\ "sign" \in Publication!Asks
      /\ "submit" \in Publication!Asks /\ "observe" \in Publication!Asks
      /\ {"cancel", "cancel again"} \subseteq Publication!Asks
  BY RequestsOfButtons
<1> QED BY <1>1, <1>2 DEF Publication!AnswersInOrder

\* A step that asks and draws nothing, and after which the same requests are
\* on their way, keeps what is known of what may be asked.
LEMMA AsksKept ==
  ASSUME Publication!AsksInOrder, Publication!CancelsAtMostTwice,
         UNCHANGED <<shown, blind, enabled, timer, pressed, twice>>,
         \A r \in Publication!Asks :
           /\ Publication!Pending(r)' <=> Publication!Pending(r)
           /\ r \in sent' => r \in sent /\ answers'[r] = answers[r]
  PROVE  Publication!AsksInOrder' /\ Publication!CancelsAtMostTwice'
<1>1. Publication!AsksInOrder'
  BY RequestsOfButtons DEF Publication!AsksInOrder, Publication!Pending
<1>2. Publication!CancelsAtMostTwice'
  BY RequestsOfButtons DEF Publication!CancelsAtMostTwice
<1> QED BY <1>1, <1>2

LEMMA ServeStep ==
  ASSUME PublicationSound, NEW r \in Publication!Asks, Publication!Serve(r)
  PROVE  PublicationSound' /\ PublicationForward
<1> USE DEF PublicationSound, Publication!Inductive, Publication!TypeOK
<1> PICK s \in Publication!Served(Publication!Button(r)) :
      ledger' = s /\ answers' = [answers EXCEPT ![r] = s]
  BY DEF Publication!Serve
<1>1. /\ sent' = sent \ {r} /\ r \in sent
      /\ UNCHANGED <<bound, expired, blind, shown, stage, enabled, timer, pressed, twice>>
  BY DEF Publication!Serve, Publication!history, Publication!face
<1>2. answers'[r] = s /\ \A q \in Publication!Asks : q # r => answers'[q] = answers[q]
  OBVIOUS
<1>3. Publication!Button(r) \in Publication!Buttons /\ s \in Publication!States
  BY RequestsOfButtons, ServedFacts
<1>4. \A q \in Publication!Asks : Publication!Pending(q)' <=> Publication!Pending(q)
  BY <1>1, <1>2, <1>3, Ranks DEF Publication!Pending
<1>5. Publication!TypeOK'
  BY <1>1, <1>3
<1>6. Publication!AsksInOrder' /\ Publication!CancelsAtMostTwice'
  BY <1>1, <1>2, <1>4, AsksKept
<1>7. Publication!AnswersInOrder'
  <2>1. /\ Publication!rank[shown'] <= Publication!rank[ledger']
        /\ \A q \in Publication!Asks : answers'[q] \in Publication!States =>
             Publication!rank[answers'[q]] <= Publication!rank[ledger']
    <3>1. Publication!rank[ledger] <= Publication!rank[s]
      BY <1>3, ServedFacts
    <3>2. /\ Publication!rank[ledger] \in 0 .. 4 /\ Publication!rank[s] \in 0 .. 4
          /\ Publication!rank[shown] \in 0 .. 4
          /\ \A q \in Publication!Asks : answers[q] \in Publication!States =>
               Publication!rank[answers[q]] \in 0 .. 4
      BY <1>3, Ranks
    <3>3. Publication!rank[shown'] <= Publication!rank[ledger']
      <4>1. Publication!rank[shown] <= Publication!rank[ledger]
        BY DEF Publication!AnswersInOrder
      <4>2. ledger' = s /\ shown' = shown
        BY <1>1
      <4> HIDE DEF Publication!TypeOK, PublicationSound, Publication!Inductive
      <4> QED BY <3>1, <3>2, <4>1, <4>2
    <3>4. ASSUME NEW q \in Publication!Asks, answers'[q] \in Publication!States
          PROVE  Publication!rank[answers'[q]] <= Publication!rank[ledger']
      <4>1. CASE q = r
        BY <1>2, <3>2, <4>1
      <4>2. CASE q # r
        <5>1. answers'[q] = answers[q]
          BY <1>2, <4>2
        <5>2. /\ Publication!rank[answers[q]] \in 0 .. 4
              /\ Publication!rank[answers[q]] <= Publication!rank[ledger]
          BY <3>2, <3>4, <5>1 DEF Publication!AnswersInOrder
        <5> QED BY <3>1, <3>2, <5>1, <5>2
      <4> QED BY <4>1, <4>2
    <3> QED BY <3>3, <3>4
  <2>2. shown' \in Publication!Posted \cup {"COMPLETE"} =>
          "submit" \in pressed' /\ ~Publication!Pending("submit")'
    BY <1>1, <1>4, RequestsOfButtons DEF Publication!AnswersInOrder
  <2>3. ledger # "CANCELLED_NONCE_BURNED"
    BY <1>3, ServedFacts
  <2>4. CASE r \in {"cancel", "cancel again"}
    <3>1. s = "CANCELLED_NONCE_BURNED"
      BY <1>3, <2>4, RequestsOfButtons, ServedFacts
    <3> QED
      BY <1>1, <1>2, <2>1, <2>2, <2>3, <2>4, <3>1, RequestsOfButtons
         DEF Publication!AnswersInOrder
  <2>5. CASE r \notin {"cancel", "cancel again"}
    <3>1. Publication!Button(r) = r
      BY <2>5, RequestsOfButtons
    <3>2. /\ r = "prepare" => s = "APPROVAL_PENDING"
          /\ r = "sign" => s \in Publication!Decided
          /\ r = "submit" => s \in Publication!Posted
          /\ r = "observe" => s \in Publication!Posted \cup {"COMPLETE"}
          /\ Publication!rank[shown] <= Publication!rank[s]
      BY <1>3, <2>1, <1>1, <3>1, ServedFacts
    <3> QED
      BY <1>1, <1>2, <2>1, <2>2, <2>3, <2>5, <3>2, RequestsOfButtons
         DEF Publication!AnswersInOrder
  <2> QED BY <2>4, <2>5
<1>8. Publication!AskedOnce' /\ Publication!OfferExpires'
  BY <1>1 DEF Publication!AskedOnce, Publication!OfferExpires
<1>9. PublicationForward
  BY <1>1, ShownKept
<1> QED BY <1>5, <1>6, <1>7, <1>8, <1>9

LEMMA RefuseStep ==
  ASSUME PublicationSound, NEW r \in Publication!Asks,
         Publication!Refuse(r) \/ Publication!LoseAnswer(r)
  PROVE  PublicationSound' /\ PublicationForward
<1> USE DEF PublicationSound, Publication!Inductive, Publication!TypeOK
<1>1. /\ answers' = [answers EXCEPT ![r] = "ERROR"] /\ sent' = sent \ {r}
      /\ UNCHANGED <<ledger, bound, expired, blind, shown, stage, enabled, timer, pressed, twice>>
      /\ Publication!Pending(r)
  BY DEF Publication!Refuse, Publication!LoseAnswer, Publication!history, Publication!service,
     Publication!face, Publication!Pending, Publication!AsksInOrder, Publication!States,
     Publication!Decided, Publication!Posted
<1>2. answers'[r] = "ERROR" /\ \A q \in Publication!Asks : q # r => answers'[q] = answers[q]
  BY <1>1
<1>3. \A q \in Publication!Asks : Publication!Pending(q)' <=> Publication!Pending(q)
  BY <1>1, <1>2 DEF Publication!Pending
<1>4. Publication!TypeOK'
  BY <1>1
<1>5. Publication!AsksInOrder' /\ Publication!CancelsAtMostTwice'
  BY <1>1, <1>2, <1>3, AsksKept
<1>6. Publication!AnswersInOrder'
  BY <1>1, <1>2, <1>3, RequestsOfButtons, AnswersKept
<1>7. Publication!AskedOnce' /\ Publication!OfferExpires'
  BY <1>1 DEF Publication!AskedOnce, Publication!OfferExpires
<1>8. PublicationForward
  BY <1>1, ShownKept
<1> QED BY <1>4, <1>5, <1>6, <1>7, <1>8

LEMMA PressStep ==
  ASSUME PublicationSound, NEW b \in Publication!Buttons, Publication!Press(b)
  PROVE  PublicationSound' /\ PublicationForward
<1> USE DEF PublicationSound, Publication!Inductive
<1> PICK r \in Publication!Asks :
      /\ r = Publication!RequestOf(b) /\ Publication!Button(r) = b
      /\ r # b => r = "cancel again" /\ b = "cancel" /\ Publication!Pending("cancel")
  BY RequestsOfButtons DEF Publication!RequestOf, Publication!Buttons
<1>1. /\ b \in enabled /\ enabled' = enabled \ {b} /\ sent' = sent \cup {r}
      /\ b = "prepare" \/ shown # "NONE"
      /\ ~Publication!Pending(r)
      /\ pressed' = pressed \cup {b} /\ twice' = twice \cup ({b} \cap pressed)
      /\ UNCHANGED <<ledger, bound, expired, answers, blind, shown, stage, timer>>
  BY DEF Publication!Press, Publication!service, Publication!face
<1>2. \A q \in Publication!Asks : Publication!Pending(q)' <=> q = r \/ Publication!Pending(q)
  BY <1>1 DEF Publication!Pending
<1>3. Publication!TypeOK'
  BY <1>1 DEF Publication!TypeOK
\* What was offered was not asked yet.
<1>4. /\ b = "prepare" => shown = "NONE"
      /\ b \in {"sign", "submit"} => b \notin pressed
      /\ "submit" \in enabled \cup pressed => b # "sign"
      /\ "observe" \in enabled \cup pressed => b # "submit"
      /\ shown \in Publication!Posted \cup {"COMPLETE"} => b # "submit"
  BY <1>1 DEF Publication!AsksInOrder, Publication!AnswersInOrder
<1>5. Publication!AsksInOrder'
  <2>1. \A q \in Publication!Asks : Publication!Pending(q)' =>
          /\ Publication!Button(q) \in pressed' /\ (q \in sent' => answers'[q] = "none")
          /\ Publication!Button(q) # "cancel" => q \notin enabled'
    BY <1>1, <1>2, RequestsOfButtons DEF Publication!AsksInOrder, Publication!Pending
  <2>2. Publication!Pending("prepare")' => b = "prepare" \/ Publication!Pending("prepare")
    BY <1>2, RequestsOfButtons
  <2>3. Publication!Pending("sign")' => b = "sign" \/ Publication!Pending("sign")
    BY <1>2, RequestsOfButtons
  <2>4. Publication!Pending("submit")' => b = "submit" \/ Publication!Pending("submit")
    BY <1>2, RequestsOfButtons
  <2> QED BY <1>1, <1>4, <2>1, <2>2, <2>3, <2>4 DEF Publication!AsksInOrder
<1>6. Publication!CancelsAtMostTwice'
  <2>1. CASE b = "cancel"
    <3>1. "cancel" \in blind => ~Publication!Pending("cancel") /\ ~Publication!Pending("cancel again")
      BY <1>1, <2>1 DEF Publication!CancelsAtMostTwice
    <3>2. "cancel" \in blind => r = "cancel" /\ ~Publication!Pending("cancel again")'
      BY <2>1, <3>1, <1>2, RequestsOfButtons
    <3> QED BY <1>1, <2>1, <3>2 DEF Publication!CancelsAtMostTwice
  <2>2. CASE b # "cancel"
    <3>1. r \notin {"cancel", "cancel again"}
      BY <2>2, RequestsOfButtons
    <3>2. /\ Publication!Pending("cancel")' <=> Publication!Pending("cancel")
          /\ Publication!Pending("cancel again")' <=> Publication!Pending("cancel again")
      BY <1>2, <3>1, RequestsOfButtons
    <3> QED BY <1>1, <3>2 DEF Publication!CancelsAtMostTwice
  <2> QED BY <2>1, <2>2
<1>7. Publication!AnswersInOrder'
  <2>1. Publication!Pending("submit")' => b = "submit" \/ Publication!Pending("submit")
    BY <1>2, RequestsOfButtons
  <2> QED BY <1>1, <1>4, <2>1, AnswersKept
<1>8. Publication!AskedOnce' /\ Publication!OfferExpires'
  BY <1>1, <1>4 DEF Publication!AskedOnce, Publication!OfferExpires
<1>9. PublicationForward
  BY <1>1, ShownKept DEF Publication!TypeOK
<1> QED BY <1>3, <1>5, <1>6, <1>7, <1>8, <1>9

\* A button of the stage is pressed before there is an operation, and its request
\* fails, then or later.
LEMMA BlindStep ==
  ASSUME PublicationSound, NEW b \in Publication!Buttons,
         Publication!PressBlind(b) \/ Publication!BlindFails(b)
  PROVE  PublicationSound' /\ PublicationForward
<1> USE DEF PublicationSound, Publication!Inductive
<1>1. UNCHANGED <<ledger, bound, expired, sent, answers, shown, stage, timer, pressed, twice>>
  BY DEF Publication!PressBlind, Publication!BlindFails, Publication!service,
     Publication!face, Publication!history
<1>2. \A q \in Publication!Asks : Publication!Pending(q)' <=> Publication!Pending(q)
  BY <1>1 DEF Publication!Pending
<1>3. \/ /\ b \in enabled /\ b \in {"sign", "cancel"} /\ shown = "NONE"
         /\ enabled' = enabled \ {b} /\ blind' = blind \cup {b}
      \/ /\ b \in blind /\ blind' = blind \ {b} /\ b \in {"sign", "cancel"}
         /\ enabled' = enabled \cup ({b} \cap {"cancel"})
  BY DEF Publication!PressBlind, Publication!BlindFails, Publication!AsksInOrder,
     Publication!AfterFailure, Publication!TypeOK
<1>4. Publication!TypeOK'
  BY <1>1, <1>3 DEF Publication!TypeOK
<1>5. Publication!AsksInOrder'
  <2>1. /\ Publication!Pending("prepare")' <=> Publication!Pending("prepare")
        /\ Publication!Pending("sign")' <=> Publication!Pending("sign")
        /\ Publication!Pending("submit")' <=> Publication!Pending("submit")
    BY <1>2, RequestsOfButtons
  <2>2. enabled' \subseteq enabled \cup {"cancel"}
    BY <1>3
  <2>3. shown = "NONE" =>
          enabled' \subseteq {"prepare", "sign", "cancel"} /\ enabled' \cap blind' = {}
    BY <1>3 DEF Publication!AsksInOrder
  <2>4. \A q \in Publication!Asks : Publication!Pending(q)' =>
          /\ Publication!Button(q) \in pressed' /\ (q \in sent' => answers'[q] = "none")
          /\ Publication!Button(q) # "cancel" => q \notin enabled'
    BY <1>1, <1>2, <2>2, RequestsOfButtons DEF Publication!AsksInOrder
  <2> QED BY <1>1, <2>1, <2>2, <2>3, <2>4 DEF Publication!AsksInOrder
<1>6. Publication!CancelsAtMostTwice'
  <2>1. /\ Publication!Pending("cancel")' <=> Publication!Pending("cancel")
        /\ Publication!Pending("cancel again")' <=> Publication!Pending("cancel again")
    BY <1>2, RequestsOfButtons
  <2>2. shown = "NONE" => ~Publication!Pending("cancel")
    BY RequestsOfButtons DEF Publication!AsksInOrder
  <2> QED BY <1>3, <2>1, <2>2 DEF Publication!CancelsAtMostTwice, Publication!AsksInOrder
<1>7. Publication!AnswersInOrder'
  BY <1>1, <1>2, RequestsOfButtons, AnswersKept
<1>8. Publication!AskedOnce' /\ Publication!OfferExpires'
  BY <1>1, <1>3 DEF Publication!AskedOnce, Publication!OfferExpires
<1>9. PublicationForward
  BY <1>1, ShownKept DEF Publication!TypeOK
<1> QED BY <1>4, <1>5, <1>6, <1>7, <1>8, <1>9

\* A failure gives back what may be asked again.
LEMMA FailedStep ==
  ASSUME PublicationSound, NEW r \in Publication!Asks, Publication!Answered(r),
         answers[r] = "ERROR"
  PROVE  PublicationSound' /\ PublicationForward
<1> USE DEF PublicationSound, Publication!Inductive
<1> PICK b \in Publication!Buttons : b = Publication!Button(r)
  BY RequestsOfButtons
<1>1. /\ answers' = [answers EXCEPT ![r] = "none"]
      /\ enabled' = enabled \cup ({b} \cap {"prepare", "cancel", "observe"})
      /\ stage' \in BOOLEAN
      /\ UNCHANGED <<ledger, bound, expired, sent, blind, shown, timer, pressed, twice>>
  BY DEF Publication!Answered, Publication!AfterFailure, Publication!history, Publication!TypeOK
<1>2. answers'[r] = "none" /\ \A q \in Publication!Asks : q # r => answers'[q] = answers[q]
  BY <1>1 DEF Publication!TypeOK
<1>3. Publication!Pending(r) /\ b \in pressed /\ r \notin sent
  BY DEF Publication!AsksInOrder, Publication!Pending
<1>4. \A q \in Publication!Asks : Publication!Pending(q)' <=> Publication!Pending(q) /\ q # r
  BY <1>1, <1>2, <1>3 DEF Publication!Pending
<1>5. Publication!TypeOK'
  BY <1>1 DEF Publication!TypeOK
<1>6. Publication!AsksInOrder'
  <2>1. \A q \in Publication!Asks : Publication!Pending(q)' =>
          /\ Publication!Button(q) \in pressed' /\ (q \in sent' => answers'[q] = "none")
          /\ Publication!Button(q) # "cancel" => q \notin enabled'
    BY <1>1, <1>2, <1>4, RequestsOfButtons DEF Publication!AsksInOrder
  <2>2. /\ Publication!Pending("prepare")' => Publication!Pending("prepare")
        /\ Publication!Pending("sign")' => Publication!Pending("sign")
        /\ Publication!Pending("submit")' => Publication!Pending("submit")
    BY <1>4, RequestsOfButtons
  <2>3. shown # "NONE" => b # "prepare"
    BY <1>3, RequestsOfButtons DEF Publication!AsksInOrder
  <2>4. shown = "NONE" => b = "prepare"
    BY <1>3 DEF Publication!AsksInOrder
  <2>5. shown = "NONE" =>
          enabled' \subseteq {"prepare", "sign", "cancel"} /\ enabled' \cap blind' = {}
    BY <1>1, <2>4 DEF Publication!AsksInOrder, Publication!TypeOK
  <2>6. /\ enabled' \subseteq enabled \cup {"prepare", "cancel", "observe"}
        /\ "observe" \in enabled' => "observe" \in enabled \cup pressed
        /\ "prepare" \in enabled' => "prepare" \in enabled \/ b = "prepare"
    BY <1>1, <1>3
  <2> QED BY <1>1, <2>1, <2>2, <2>3, <2>5, <2>6 DEF Publication!AsksInOrder
<1>7. Publication!CancelsAtMostTwice'
  <2>1. /\ Publication!Pending("cancel")' <=> Publication!Pending("cancel") /\ r # "cancel"
        /\ Publication!Pending("cancel again")' <=>
             Publication!Pending("cancel again") /\ r # "cancel again"
    BY <1>4, RequestsOfButtons
  <2>2. "cancel" \in enabled' => "cancel" \in enabled \/ r \in {"cancel", "cancel again"}
    BY <1>1, RequestsOfButtons
  <2> QED BY <1>1, <1>3, <2>1, <2>2 DEF Publication!CancelsAtMostTwice
<1>8. Publication!AnswersInOrder'
  BY <1>1, <1>2, <1>4, RequestsOfButtons, AnswersKept
<1>9. Publication!AskedOnce' /\ Publication!OfferExpires'
  BY <1>1 DEF Publication!AskedOnce, Publication!OfferExpires
<1>10. PublicationForward
  BY <1>1, ShownKept DEF Publication!TypeOK
<1> QED BY <1>5, <1>6, <1>7, <1>8, <1>9, <1>10

\* An answer is rendered.
LEMMA RenderStep ==
  ASSUME PublicationSound, NEW r \in Publication!Asks, Publication!Answered(r),
         answers[r] # "ERROR"
  PROVE  PublicationSound' /\ PublicationForward
<1> USE DEF PublicationSound, Publication!Inductive
<1> PICK s : s = answers[r]
  OBVIOUS
<1>1. /\ s \in Publication!States
      /\ answers' = [answers EXCEPT ![r] = "none"]
      /\ shown' = s /\ stage' = TRUE /\ timer' = (s = "APPROVAL_PENDING" /\ ~expired)
      /\ enabled' = Publication!Offers(s) \cup Publication!refreshApprovalExpiry(s)
      /\ UNCHANGED <<ledger, bound, expired, sent, blind, pressed, twice>>
  BY DEF Publication!Answered, Publication!Render, Publication!Setup, Publication!Armed,
     Publication!history, Publication!TypeOK
<1>2. answers'[r] = "none" /\ \A q \in Publication!Asks : q # r => answers'[q] = answers[q]
  BY <1>1 DEF Publication!TypeOK
<1>3. Publication!Pending(r) /\ Publication!Button(r) \in pressed /\ r \notin sent
  BY <1>1, Ranks DEF Publication!AsksInOrder, Publication!Pending
<1>4. \A q \in Publication!Asks : Publication!Pending(q)' <=> Publication!Pending(q) /\ q # r
  BY <1>1, <1>2, <1>3 DEF Publication!Pending
\* What was pressed, and how far the ledger is.
<1>5. /\ r = "prepare" => s = "APPROVAL_PENDING" /\ pressed \subseteq {"prepare"} /\ shown = "NONE"
      /\ r = "sign" => /\ s \in Publication!Decided
                       /\ "submit" \notin pressed /\ "observe" \notin pressed
                       /\ shown \in Publication!Decided \cup {"NONE", "APPROVAL_PENDING"}
      /\ r \in {"cancel", "cancel again"} =>
           s = "CANCELLED_NONCE_BURNED" /\ shown \in Publication!Decided \cup {"NONE", "APPROVAL_PENDING"}
      /\ r = "submit" => /\ s \in Publication!Posted
                         /\ "observe" \notin pressed /\ shown \in Publication!Decided \cup {"NONE", "APPROVAL_PENDING"}
                         /\ "sign" \in pressed /\ ~Publication!Pending("sign")
      /\ r = "observe" => /\ s \in Publication!Posted \cup {"COMPLETE"}
                          /\ Publication!rank[shown] <= Publication!rank[s]
                          /\ "submit" \in pressed /\ ~Publication!Pending("submit")
                          /\ "sign" \in pressed /\ ~Publication!Pending("sign")
  <2>1. CASE r = "prepare"
    BY <1>1, <1>3, <2>1, RequestsOfButtons DEF Publication!AsksInOrder, Publication!AnswersInOrder
  <2>2. CASE r = "sign"
    <3>1. "submit" \notin pressed /\ "observe" \notin pressed
      BY <1>3, <2>2, RequestsOfButtons DEF Publication!AsksInOrder
    <3>2. s \in Publication!Decided
      BY <1>1, <2>2, Ranks, StateKinds DEF Publication!AnswersInOrder
    <3>3. shown \in Publication!Decided \cup {"NONE", "APPROVAL_PENDING"}
      BY <3>1, Ranks, StateKinds DEF Publication!AnswersInOrder, Publication!TypeOK
    <3> QED BY <2>2, <3>1, <3>2, <3>3
  <2>3. CASE r \in {"cancel", "cancel again"}
    <3>1. s = "CANCELLED_NONCE_BURNED" /\ ledger = "CANCELLED_NONCE_BURNED"
      BY <1>1, <2>3 DEF Publication!AnswersInOrder
    <3>2. Publication!rank[ledger] = 2 /\ Publication!rank[shown] <= Publication!rank[ledger]
      BY <3>1, Ranks, StateKinds DEF Publication!AnswersInOrder
    <3>3. shown \notin Publication!Posted \cup {"COMPLETE"}
      BY <3>2, Ranks, StateKinds
    <3> QED BY <2>3, <3>1, <3>3, StateKinds DEF Publication!TypeOK
  <2>4. CASE r = "submit"
    <3>1. /\ "submit" \in pressed /\ "observe" \notin pressed
          /\ "sign" \in pressed /\ ~Publication!Pending("sign")
      BY <1>3, <2>4, RequestsOfButtons DEF Publication!AsksInOrder
    <3>2. s \in Publication!Posted
      BY <1>1, <2>4, Ranks, StateKinds DEF Publication!AnswersInOrder
    <3>3. shown \in Publication!Decided \cup {"NONE", "APPROVAL_PENDING"}
      BY <1>3, <2>4, Ranks, StateKinds DEF Publication!AnswersInOrder, Publication!TypeOK
    <3> QED BY <2>4, <3>1, <3>2, <3>3
  <2>5. CASE r = "observe"
    <3>1. /\ "submit" \in pressed /\ ~Publication!Pending("submit")
          /\ "sign" \in pressed /\ ~Publication!Pending("sign")
      BY <1>3, <2>5, RequestsOfButtons DEF Publication!AsksInOrder
    <3> QED
      BY <1>1, <2>5, <3>1, Ranks, StateKinds DEF Publication!AnswersInOrder
  <2> QED BY <2>1, <2>2, <2>3, <2>4, <2>5, RequestsOfButtons
\* What the answer offers.
<1>6. /\ enabled' \subseteq {"cancel", "sign", "submit", "observe"} /\ shown' # "NONE"
      /\ "cancel" \in enabled' => r = "prepare"
      /\ "sign" \in enabled' => r = "prepare" /\ timer'
      /\ "submit" \in enabled' => r = "sign"
      /\ "observe" \in enabled' => r \in {"submit", "observe"}
  BY <1>1, <1>5, RequestsOfButtons
     DEF Publication!States, Publication!Decided, Publication!Posted, Publication!Offers,
         Publication!refreshApprovalExpiry
<1>7. Publication!TypeOK'
  <2>1. timer' \in BOOLEAN /\ answers' \in [Publication!Asks -> Publication!States \cup {"none", "ERROR"}]
    BY <1>1 DEF Publication!TypeOK
  <2>2. enabled' \subseteq Publication!Buttons
    BY <1>6 DEF Publication!Buttons
  <2> QED BY <1>1, <2>1, <2>2 DEF Publication!TypeOK
<1>8. PublicationForward
  <2>1. Publication!rank[s] \in 1 .. 4
    BY <1>1, Ranks, StateKinds
  <2>2. r = "prepare" => Publication!rank[shown] = 0
    BY <1>5, Ranks
  <2>3. r \in {"sign", "cancel", "cancel again", "submit"} =>
          Publication!rank[s] \in {2, 3} /\ Publication!rank[shown] \in {0, 1, 2}
    BY <1>1, <1>5, Ranks, StateKinds
  <2>4. Publication!rank[shown] \in 0 .. 4
    BY Ranks DEF Publication!TypeOK
  <2>5. r = "observe" => Publication!rank[shown] <= Publication!rank[s]
    BY <1>5
  <2>6. shown' = s
    BY <1>1
  <2>7. Publication!rank[shown] <= Publication!rank[s]
    <3> HIDE DEF PublicationSound, Publication!Inductive
    <3>1. CASE r = "prepare"
      BY <2>1, <2>2, <3>1
    <3>2. CASE r \in {"sign", "cancel", "cancel again", "submit"}
      <4>1. PICK m \in {2, 3} : m = Publication!rank[s]
        BY <2>3, <3>2
      <4>2. PICK n \in {0, 1, 2} : n = Publication!rank[shown]
        BY <2>3, <3>2
      <4>3. n <= m
        OBVIOUS
      <4> QED BY <4>1, <4>2, <4>3
    <3>3. CASE r = "observe"
      BY <2>5, <3>3
    <3> QED BY <3>1, <3>2, <3>3, RequestsOfButtons
  <2> QED BY <2>6, <2>7 DEF PublicationForward
<1>9. Publication!AsksInOrder'
  <2>1. ASSUME NEW q \in Publication!Asks, Publication!Pending(q)'
        PROVE  /\ Publication!Button(q) \in pressed' /\ (q \in sent' => answers'[q] = "none")
               /\ Publication!Button(q) # "cancel" => q \notin enabled'
    <3>1. Publication!Pending(q) /\ q # r /\ Publication!Button(q) \in pressed
      BY <1>4, <2>1 DEF Publication!AsksInOrder
    <3>2. q \in sent' => answers'[q] = "none"
      BY <1>1, <1>2, <3>1 DEF Publication!AsksInOrder
    <3>3. Publication!Button(q) # "cancel" => q \notin enabled'
      BY <1>5, <1>6, <3>1, RequestsOfButtons
    <3> QED BY <1>1, <3>1, <3>2, <3>3
  <2>2. ~Publication!Pending("prepare")'
    BY <1>3, <1>4, <1>5, RequestsOfButtons DEF Publication!AsksInOrder
  <2>3. r = "sign" => "sign" \in pressed /\ ~Publication!Pending("sign")'
    BY <1>3, <1>4, RequestsOfButtons
  <2>4. r = "submit" => "submit" \in pressed /\ ~Publication!Pending("submit")'
    BY <1>3, <1>4, RequestsOfButtons
  <2>5. /\ Publication!Pending("sign")' => Publication!Pending("sign")
        /\ Publication!Pending("submit")' => Publication!Pending("submit")
    BY <1>4, RequestsOfButtons
  <2>6. "submit" \in pressed =>
          "sign" \in pressed /\ ~Publication!Pending("sign") /\ r # "prepare"
    BY <1>5 DEF Publication!AsksInOrder
  <2>7. "observe" \in pressed => "submit" \in pressed /\ ~Publication!Pending("submit")
    BY DEF Publication!AsksInOrder
  <2>8. "sign" \in enabled' => timer' /\ "sign" \notin pressed'
    BY <1>1, <1>5, <1>6
  <2>9. "submit" \in enabled' => "submit" \notin pressed'
    BY <1>1, <1>5, <1>6
  <2>10. "submit" \in enabled' \cup pressed' =>
           "sign" \in pressed' \ enabled' /\ ~Publication!Pending("sign")'
    BY <1>1, <1>6, <2>3, <2>5, <2>6
  <2>11. "observe" \in enabled' \cup pressed' =>
           "submit" \in pressed' /\ ~Publication!Pending("submit")'
    BY <1>1, <1>5, <1>6, <2>4, <2>5, <2>7
  <2> QED BY <1>6, <2>1, <2>2, <2>8, <2>9, <2>10, <2>11 DEF Publication!AsksInOrder
<1>10. Publication!CancelsAtMostTwice'
  <2>1. /\ Publication!Pending("cancel")' => Publication!Pending("cancel")
        /\ Publication!Pending("cancel again")' => Publication!Pending("cancel again")
    BY <1>4, RequestsOfButtons
  <2>2. r = "prepare" => ~Publication!Pending("cancel") /\ ~Publication!Pending("cancel again")
    BY <1>5, RequestsOfButtons DEF Publication!AsksInOrder
  <2> QED BY <1>1, <1>6, <2>1, <2>2 DEF Publication!CancelsAtMostTwice
<1>11. Publication!AnswersInOrder'
  <2>1. /\ Publication!rank[shown'] <= Publication!rank[ledger']
        /\ \A q \in Publication!Asks : answers'[q] \in Publication!States =>
             q # r /\ answers'[q] = answers[q]
    BY <1>1, <1>2, Ranks DEF Publication!AnswersInOrder
  <2>2. s \in Publication!Posted \cup {"COMPLETE"} =>
          "submit" \in pressed /\ ~Publication!Pending("submit")'
    <3>1. s \in Publication!Posted \cup {"COMPLETE"} => r \in {"submit", "observe"}
      BY <1>5, StateKinds, RequestsOfButtons
    <3>2. r = "submit" => "submit" \in pressed /\ ~Publication!Pending("submit")'
      BY <1>3, <1>4, RequestsOfButtons
    <3>3. Publication!Pending("submit")' => Publication!Pending("submit")
      BY <1>4, RequestsOfButtons
    <3> QED BY <1>5, <3>1, <3>2, <3>3
  <2>3. answers'["observe"] \in Publication!States =>
          Publication!rank[s] <= Publication!rank[answers'["observe"]]
    <3>1. answers'["observe"] \in Publication!States =>
            /\ r # "observe" /\ answers'["observe"] = answers["observe"]
            /\ "observe" \in pressed
      <4>1. "observe" \in Publication!Asks /\ Publication!Button("observe") = "observe"
        BY RequestsOfButtons
      <4>2. answers["observe"] \in Publication!States => "observe" \in pressed
        BY <4>1, Ranks DEF Publication!AsksInOrder, Publication!Pending
      <4> QED BY <2>1, <4>1, <4>2
    <3>2. r # "observe" /\ "observe" \in pressed =>
            s \in Publication!Decided \cup {"APPROVAL_PENDING"}
      BY <1>5, StateKinds, RequestsOfButtons
    <3>3. answers["observe"] \in Publication!States =>
            Publication!rank[answers["observe"]] \in {3, 4}
      BY Ranks, StateKinds DEF Publication!AnswersInOrder
    <3>4. s \in Publication!Decided \cup {"APPROVAL_PENDING"} => Publication!rank[s] \in {1, 2}
      BY <1>1, Ranks, StateKinds
    <3> QED BY <3>1, <3>2, <3>3, <3>4
  <2> QED BY <1>1, <2>1, <2>2, <2>3, RequestsOfButtons DEF Publication!AnswersInOrder
<1>12. Publication!AskedOnce' /\ Publication!OfferExpires'
  BY <1>1, <1>6 DEF Publication!AskedOnce, Publication!OfferExpires
<1> QED BY <1>7, <1>8, <1>9, <1>10, <1>11, <1>12

\* The approval expires, and the timer withdraws what it offered.
LEMMA ClockStep ==
  ASSUME PublicationSound, Publication!Expire \/ Publication!TimerFires
  PROVE  PublicationSound' /\ PublicationForward
<1> USE DEF PublicationSound, Publication!Inductive
<1>1. /\ UNCHANGED <<ledger, bound, sent, answers, blind, shown, stage, pressed, twice>>
      /\ expired' \in BOOLEAN /\ timer' \in BOOLEAN
      /\ \/ enabled' = enabled /\ timer' = timer
         \/ enabled' = enabled \ {"sign"}
  BY DEF Publication!Expire, Publication!TimerFires, Publication!refreshApprovalExpiry,
     Publication!history, Publication!service, Publication!face, Publication!TypeOK
<1>2. \A q \in Publication!Asks : Publication!Pending(q)' <=> Publication!Pending(q)
  BY <1>1 DEF Publication!Pending
<1>3. Publication!TypeOK'
  BY <1>1 DEF Publication!TypeOK
<1>4. Publication!AsksInOrder' /\ Publication!CancelsAtMostTwice'
  <2>1. /\ enabled' \subseteq enabled /\ ("sign" \in enabled' => timer' = timer)
        /\ shown' = shown /\ blind' = blind /\ pressed' = pressed /\ answers' = answers
    BY <1>1
  <2>2. \A q \in Publication!Asks : Publication!Pending(q)' =>
          /\ Publication!Button(q) \in pressed' /\ (q \in sent' => answers'[q] = "none")
          /\ Publication!Button(q) # "cancel" => q \notin enabled'
    BY <1>1, <1>2, <2>1 DEF Publication!AsksInOrder
  <2>3. /\ Publication!Pending("prepare")' <=> Publication!Pending("prepare")
        /\ Publication!Pending("sign")' <=> Publication!Pending("sign")
        /\ Publication!Pending("submit")' <=> Publication!Pending("submit")
        /\ Publication!Pending("cancel")' <=> Publication!Pending("cancel")
        /\ Publication!Pending("cancel again")' <=> Publication!Pending("cancel again")
    BY <1>2, RequestsOfButtons
  <2>4. Publication!AsksInOrder'
    <3>1. shown' # "NONE" /\ "sign" \in enabled' => timer' /\ "sign" \notin pressed'
      BY <1>1, <2>1 DEF Publication!AsksInOrder
    <3>2. shown' = "NONE" => enabled' \cap blind' = {}
      BY <2>1 DEF Publication!AsksInOrder
    <3> QED BY <2>1, <2>2, <2>3, <3>1, <3>2 DEF Publication!AsksInOrder
  <2>5. Publication!CancelsAtMostTwice'
    BY <1>1, <2>1, <2>3 DEF Publication!CancelsAtMostTwice
  <2> QED BY <2>4, <2>5
<1>5. Publication!AnswersInOrder'
  BY <1>1, <1>2, RequestsOfButtons, AnswersKept
<1>6. Publication!AskedOnce' /\ Publication!OfferExpires'
  BY <1>1 DEF Publication!AskedOnce, Publication!OfferExpires, Publication!AsksInOrder
<1>7. PublicationForward
  BY <1>1, ShownKept DEF Publication!TypeOK
<1> QED BY <1>3, <1>4, <1>5, <1>6, <1>7

LEMMA PublicationStep ==
  ASSUME PublicationSound, [Publication!Next]_(Publication!vars)
  PROVE  PublicationSound' /\ (PublicationForward \/ UNCHANGED shown)
<1>1. CASE Publication!Next
  BY <1>1, ServeStep, RefuseStep, PressStep, BlindStep, FailedStep, RenderStep, ClockStep
     DEF Publication!Next
<1>2. CASE UNCHANGED Publication!vars
  <2>1. UNCHANGED <<ledger, bound, expired, sent, answers, blind, shown, stage, enabled, timer,
                    pressed, twice>>
    BY <1>2 DEF Publication!vars, Publication!service, Publication!history, Publication!face
  <2>2. \A q \in Publication!Asks : Publication!Pending(q)' <=> Publication!Pending(q)
    BY <2>1 DEF Publication!Pending
  <2> USE DEF PublicationSound, Publication!Inductive
  <2>3. Publication!AsksInOrder' /\ Publication!CancelsAtMostTwice'
    BY <2>1, <2>2, AsksKept
  <2>4. Publication!TypeOK' /\ Publication!AnswersInOrder'
    BY <2>1, <2>2, RequestsOfButtons DEF Publication!TypeOK, Publication!AnswersInOrder
  <2> QED
    BY <2>1, <2>3, <2>4 DEF Publication!AskedOnce, Publication!OfferExpires
<1> QED BY <1>1, <1>2

\* Whatever order the answers come in, which are late and which are lost, and
\* whatever is pressed before there is an operation, the page asks for a signature
\* and for a submission of the operation it shows once, and an offer whose approval
\* has expired has a timer that withdraws it (workload-record.js).
THEOREM PageHolds == Publication!Spec => []PublicationSound
BY PublicationBegin, PublicationStep, PTL DEF Publication!Spec

-----------------------------------------------------------------------------
(***************************************************************************)
(* The five side by side: only one of them runs, so a step of its own keeps*)
(* what it has and the others stutter.                                     *)
(***************************************************************************)
AllSound ==
  /\ Transcript!Inductive /\ Replay!Inductive /\ Live!Inductive
  /\ ConnectorSound /\ PublicationSound

LEMMA ReadersBegin == Init => AllSound
BY TranscriptBegin, ReplayBegin, LiveBegin, ConnectorBegin, PublicationBegin DEF Init, AllSound

LEMMA OneRuns ==
  ASSUME [Next]_<<part, transcript, replay, live, connector, publication>>
  PROVE  /\ [Transcript!Next]_(Transcript!vars)
         /\ [Replay!Next]_(Replay!vars)
         /\ [Live!Next]_(Live!vars)
         /\ [Connector!Next]_(Connector!vars)
         /\ [Publication!Next]_(Publication!vars)
<1>1. /\ UNCHANGED transcript => UNCHANGED Transcript!vars
      /\ UNCHANGED replay => UNCHANGED Replay!vars
      /\ UNCHANGED live => UNCHANGED Live!vars
  BY DEF transcript, Transcript!vars, Transcript!counters, replay, Replay!vars, live, Live!vars
<1>2. /\ UNCHANGED connector => UNCHANGED Connector!vars
      /\ UNCHANGED publication => UNCHANGED Publication!vars
  BY DEF connector, Connector!vars, Connector!connector, Connector!history, publication,
     Publication!vars, Publication!service, Publication!face, Publication!history
<1> QED BY <1>1, <1>2 DEF Next

LEMMA ReadersStep ==
  AllSound /\ [Next]_<<part, transcript, replay, live, connector, publication>> => AllSound'
BY OneRuns, TranscriptStep, ReplayKept, LiveStep, ConnectorStep, PublicationStep DEF AllSound

LEMMA ReadersHold == Spec => []AllSound
BY ReadersBegin, ReadersStep, PTL DEF Spec

\* One pass over a transcript finds what all its lines together say, for any
\* lines and however it is cut or ends, and no window with a gap is bounded
\* (verifier.mjs).
THEOREM EveryTranscriptIsJudged == Spec => []TranscriptIsJudged
<1>1. AllSound => TranscriptIsJudged
  BY JudgedFacts, BoundedFacts DEF AllSound, TranscriptIsJudged
<1> QED BY <1>1, ReadersHold, PTL

\* Every frame of a replay shows a history and marks its advances and its lock
\* where they are, and a live import replays what was said or reports a gap
\* (replay.mjs, model.mjs, live-import.mjs).
THEOREM EveryReplayIsHistory == Spec => []ReplayIsHistory
<1>1. AllSound => ReplaySound /\ Live!GapMeansMissed /\ Live!ReplayedAsSaid
  BY ReplayShown, GapsMissed, LinesReplayed DEF AllSound
<1>2. AllSound => ReplayIsHistory
  BY <1>1 DEF AllSound, ReplaySound, ReplayIsHistory
<1> QED BY <1>2, ReadersHold, PTL

\* The bytes of an import go with its verdict, and a verdict shown is on disk; the
\* publication page asks for a signature and a submission of the operation it shows
\* once, and has a timer for every offer whose approval has expired (connector.mjs,
\* hub-app.js, workload-record.js).
THEOREM EveryPageIsTrue == Spec => []PagesAreTrue
<1>1. AllSound => PagesAreTrue
  BY DEF AllSound, ConnectorSound, PublicationSound, PagesAreTrue
<1> QED BY <1>1, ReadersHold, PTL

\* An invalid transcript stays invalid, and the publication page does not return to
\* an earlier state (verifier.mjs, workload-record.js).
THEOREM EveryStepForward == Spec => NothingGoesBack
<1>1. AllSound /\ [Next]_<<part, transcript, replay, live, connector, publication>>
        => /\ [TranscriptDecided]_(Transcript!vars)
           /\ [PublicationForward]_shown
  BY OneRuns, DecidedFacts, PublicationStep DEF AllSound
<1>2. Spec => /\ [][TranscriptDecided]_(Transcript!vars)
              /\ [][PublicationForward]_shown
  BY <1>1, ReadersHold, PTL DEF Spec
<1> QED
  BY <1>2
     DEF NothingGoesBack, Transcript!InvalidIsDecisive, Publication!ShowsForward,
         TranscriptDecided, PublicationForward
=============================================================================
