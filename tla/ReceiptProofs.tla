---------------------------- MODULE ReceiptProofs ----------------------------
(***************************************************************************)
(* Proofs about the builder and its replay, for all records a caller can   *)
(* declare, all sinks, and any number of receipts and declarations; and    *)
(* that the bytes a digest is taken of determine the receipt, for every    *)
(* radix and hash length and every length of its names, contents and       *)
(* sections.                                                               *)
(*                                                                         *)
(* The argument for the bytes: a string that starts with the code of a     *)
(* value starts with the code of no other (Code), a LEB128 number does,    *)
(* and so does every record and section made of such parts.                *)
(***************************************************************************)
EXTENDS ReceiptBinding, SeqLemmas

\* The place of a section in the replay.
Place == [inputs |-> 1, ops |-> 2, activations |-> 3, interventions |-> 4, outputs |-> 5]

Buffers == [Sections -> UNION {Seq(Record[s]) : s \in Sections}]
RecordsIn(b) == b \in Buffers /\ \A s \in Sections : b[s] \in Seq(Record[s])

\* What the runtime has been given of a section while a replay runs: all of it,
\* the records before the current one, or none yet.
Given(s) ==
  IF s \notin Forwards(replay.kind) \/ Place[s] > replay.at THEN << >>
  ELSE IF Place[s] < replay.at THEN builder[s]
  ELSE SubSeq(builder[s], 1, replay.i)

Replaying ==
  /\ replay \in [kind : SinkKinds, at : 1..6, i : 0..MaxDecls]
  /\ receipts =< MaxReceipts
  /\ \A s \in Sections : Place[s] = replay.at => replay.i =< Len(builder[s])
  /\ replay.at = 6 => replay.i = 0
  /\ \A s \in Sections : kernel[s] = Given(s)

\* Inductive: types, no section longer than the declarations made, and what a
\* replay in progress has given the runtime.
CertInv ==
  /\ RecordsIn(builder) /\ RecordsIn(kernel)
  /\ \A s \in Sections : Len(builder[s]) =< decls
  /\ next_index \in [Numbered -> Index] /\ sealed \in BOOLEAN
  /\ decls \in 0..MaxDecls /\ receipts \in 1..MaxReceipts+1
  /\ replay = NoReplay \/ Replaying
  /\ RuntimeHoldsWhatSinkForwards
-----------------------------------------------------------------------------
\* The order of the replay has every section once.
LEMMA OrderPlaces ==
  /\ DOMAIN Order = 1..5 /\ Len(Order) = 5
  /\ \A s \in Sections : Place[s] \in 1..5 /\ Order[Place[s]] = s
  /\ \A k \in 1..5 : Order[k] \in Sections /\ Place[Order[k]] = k
<1>1. Len(Order) = 5 /\ DOMAIN Order = 1..5
  BY DEF Order
<1>2. /\ Order[1] = "inputs" /\ Order[2] = "ops" /\ Order[3] = "activations"
      /\ Order[4] = "interventions" /\ Order[5] = "outputs"
  BY DEF Order
<1>3. \A s \in Sections : Place[s] \in 1..5 /\ Order[Place[s]] = s
  BY <1>2 DEF Sections, Place
<1>4. ASSUME NEW k \in 1..5 PROVE Order[k] \in Sections /\ Place[Order[k]] = k
  <2>1. k = 1 \/ k = 2 \/ k = 3 \/ k = 4 \/ k = 5
    OBVIOUS
  <2> QED
    BY <1>2, <2>1 DEF Sections, Place
<1> QED
  BY <1>1, <1>3, <1>4

\* What the sections hold.
LEMMA RecordOf ==
  /\ Record["inputs"] = InputArgs /\ Record["outputs"] = OutputArgs
  /\ Record["ops"] = {OpRecord(a, n) : a \in OpArgs, n \in Index}
  /\ Record["activations"] = {ActivationRecord(a, n) : a \in ActivationArgs, n \in Index}
  /\ Record["interventions"] = {InterventionRecord(a, n) : a \in InterventionArgs, n \in Index}
BY DEF Record, Sections

\* Empty sections hold records.
LEMMA EmptyRecords == RecordsIn(Empty) /\ \A s \in Sections : Len(Empty[s]) = 0
<1>1. \A s \in Sections : Empty[s] = << >> /\ Empty[s] \in Seq(Record[s])
  BY DEF Empty
<1>2. Empty \in Buffers
  BY <1>1 DEF Empty, Buffers
<1> QED
  BY <1>1, <1>2 DEF RecordsIn

\* A record appended to its section.
Appended(b, t, r) == [b EXCEPT ![t] = Append(@, r)]

LEMMA RecordAppended ==
  ASSUME NEW b, RecordsIn(b), NEW t \in Sections, NEW r \in Record[t]
  PROVE  /\ RecordsIn(Appended(b, t, r))
         /\ Appended(b, t, r)[t] = Append(b[t], r)
         /\ Len(Appended(b, t, r)[t]) = Len(b[t]) + 1
         /\ \A s \in Sections \ {t} : Appended(b, t, r)[s] = b[s]
<1> DEFINE c == Appended(b, t, r)
<1>0. c = [b EXCEPT ![t] = Append(@, r)]
  BY DEF Appended
<1> HIDE DEF c
<1>1. DOMAIN b = Sections /\ b[t] \in Seq(Record[t])
  BY DEF RecordsIn, Buffers
<1>2. c[t] = Append(b[t], r) /\ \A s \in Sections \ {t} : c[s] = b[s]
  BY <1>0, <1>1
<1>3. c[t] \in Seq(Record[t]) /\ Len(c[t]) = Len(b[t]) + 1
  BY <1>1, <1>2
<1>4. DOMAIN c = Sections /\ c = [s \in Sections |-> c[s]]
  BY <1>0, <1>1
<1>5. \A s \in Sections : c[s] \in Seq(Record[s])
  BY <1>2, <1>3 DEF RecordsIn
<1>6. c \in Buffers
  BY <1>4, <1>5 DEF Buffers
<1> QED
  BY <1>2, <1>3, <1>5, <1>6 DEF RecordsIn, c
-----------------------------------------------------------------------------
\* The counters of a new builder.
LEMMA NoneYetTyped == NoneYet \in [Numbered -> Index] /\ 0 \in Index
<1>1. 0 \in Index
  BY CertBuilderAssumption DEF CertBuilderAssumption, Index
<1> QED
  BY <1>1 DEF NoneYet

\* A new builder satisfies the invariant.
LEMMA CertStarts == Init => CertInv
<1> SUFFICES ASSUME Init PROVE CertInv
  OBVIOUS
<1>1. RecordsIn(builder) /\ RecordsIn(kernel) /\ \A s \in Sections : Len(builder[s]) =< decls
  BY EmptyRecords DEF Init
<1>2. sealed \in BOOLEAN /\ decls \in 0..MaxDecls /\ receipts \in 1..MaxReceipts+1
  <2>1. sealed = FALSE /\ decls = 0 /\ receipts = 1
    BY DEF Init
  <2>2. MaxDecls \in Nat /\ MaxReceipts \in Nat
    BY CertBuilderAssumption DEF CertBuilderAssumption
  <2>3. sealed \in BOOLEAN
    BY <2>1
  <2>4. decls \in 0..MaxDecls /\ receipts \in 1..MaxReceipts+1
    BY <2>1, <2>2
  <2> QED
    BY <2>3, <2>4
<1>3. replay = NoReplay /\ RuntimeHoldsWhatSinkForwards /\ next_index \in [Numbered -> Index]
  BY NoneYetTyped DEF Init, RuntimeHoldsWhatSinkForwards
<1> QED
  BY <1>1, <1>2, <1>3 DEF CertInv

\* A declaration appends one record to one section.
LEMMA DeclareStep ==
  ASSUME CertInv, NEW t \in Sections, NEW r \in Record[t], Declare(t, r), sealed' \in BOOLEAN,
         next_index' \in [Numbered -> Index]
  PROVE  CertInv'
<1>1. /\ replay = NoReplay /\ decls < MaxDecls /\ decls' = decls + 1
      /\ builder' = [builder EXCEPT ![t] = Append(@, r)]
      /\ UNCHANGED <<replay, kernel, software, both, receipts>>
  BY DEF Declare, Building
<1>2. RecordsIn(builder) /\ decls \in 0..MaxDecls /\ \A s \in Sections : Len(builder[s]) =< decls
  BY DEF CertInv
<1>3. /\ RecordsIn(builder') /\ Len(builder'[t]) = Len(builder[t]) + 1
      /\ \A s \in Sections \ {t} : builder'[s] = builder[s]
  <2>1. builder' = Appended(builder, t, r)
    BY <1>1 DEF Appended
  <2>2. /\ RecordsIn(Appended(builder, t, r))
        /\ Len(Appended(builder, t, r)[t]) = Len(builder[t]) + 1
        /\ \A s \in Sections \ {t} : Appended(builder, t, r)[s] = builder[s]
    BY <1>2, RecordAppended
  <2> QED
    BY <2>1, <2>2 DEF RecordsIn
<1>4. decls' \in 0..MaxDecls
  BY <1>1, <1>2, CertBuilderAssumption DEF CertBuilderAssumption
<1>5. \A s \in Sections : Len(builder[s]) \in Nat
  BY <1>2 DEF RecordsIn
<1>6. ASSUME NEW s \in Sections PROVE Len(builder'[s]) =< decls'
  <2>1. Len(builder[s]) \in Nat /\ Len(builder[s]) =< decls /\ decls \in Nat
    BY <1>2, <1>5
  <2>2. Len(builder'[s]) = Len(builder[s]) \/ Len(builder'[s]) = Len(builder[s]) + 1
    BY <1>3
  <2> QED
    BY <1>1, <2>1, <2>2
<1>7. RecordsIn(kernel') /\ receipts' \in 1..MaxReceipts+1 /\ replay' = NoReplay
  BY <1>1 DEF CertInv, RecordsIn
<1>8. RuntimeHoldsWhatSinkForwards'
  BY <1>1 DEF CertInv, RuntimeHoldsWhatSinkForwards
<1> QED
  BY <1>3, <1>4, <1>6, <1>7, <1>8 DEF CertInv

\* The counters stay in their width.
LEMMA IncrementedTyped ==
  ASSUME CertInv, NEW t \in Numbered
  PROVE  next_index[t] \in Index /\ [next_index EXCEPT ![t] = Incremented(@)] \in [Numbered -> Index]
<1>1. next_index \in [Numbered -> Index] /\ IndexMod \in Nat \ {0}
  BY CertBuilderAssumption DEF CertInv, CertBuilderAssumption
<1>2. next_index[t] + 1 \in Nat
  BY <1>1 DEF Index
<1> DEFINE n == next_index[t] + 1
<1> HIDE DEF n
<1>3. n % IndexMod \in 0..IndexMod-1
  BY <1>1, <1>2, DivNat DEF n
<1>4. Incremented(next_index[t]) \in Index
  BY <1>3 DEF Incremented, Index, n
<1> QED
  BY <1>1, <1>4

\* A record declared in a numbered section takes the number of its counter.
LEMMA DeclareNumberedStep ==
  ASSUME CertInv, NEW t \in Numbered, NEW r \in Record[t], DeclareNumbered(t, r)
  PROVE  CertInv'
<1>1. Declare(t, r) /\ next_index' = [next_index EXCEPT ![t] = Incremented(@)] /\ sealed' = sealed
  BY DEF DeclareNumbered
<1>2. next_index' \in [Numbered -> Index] /\ sealed' \in BOOLEAN
  BY <1>1, IncrementedTyped DEF CertInv
<1>3. t \in Sections
  BY DEF Numbered, Sections
<1> QED
  BY <1>1, <1>2, <1>3, DeclareStep

\* The end of a builder: it is empty, what the runtime holds is kept.
LEMMA ConsumeStep ==
  ASSUME CertInv, Consume, receipts =< MaxReceipts, replay' = NoReplay,
         UNCHANGED <<kernel, decls>>, RuntimeHoldsWhatSinkForwards'
  PROVE  CertInv'
<1>1. builder' = Empty /\ next_index' = NoneYet /\ sealed' = FALSE /\ receipts' = receipts + 1
  BY DEF Consume
<1>2. decls \in 0..MaxDecls /\ receipts \in 1..MaxReceipts+1 /\ RecordsIn(kernel)
  BY DEF CertInv
<1>3. receipts' \in 1..MaxReceipts+1
  BY <1>1, <1>2, CertBuilderAssumption DEF CertBuilderAssumption
<1>4. RecordsIn(builder') /\ \A s \in Sections : Len(builder'[s]) = 0
  BY <1>1, EmptyRecords
<1>5. \A s \in Sections : Len(builder'[s]) =< decls'
  BY <1>2, <1>4
<1>6. RecordsIn(kernel') /\ sealed' \in BOOLEAN /\ decls' \in 0..MaxDecls /\ next_index' \in [Numbered -> Index]
  BY <1>1, <1>2, NoneYetTyped DEF RecordsIn
<1> QED
  BY <1>3, <1>4, <1>5, <1>6 DEF CertInv

\* on_request opens an empty receipt.
LEMMA RequestStep == ASSUME CertInv, OnRequest PROVE CertInv'
<1>1. PICK k \in SinkKinds :
        /\ replay = NoReplay /\ receipts =< MaxReceipts
        /\ replay' = [kind |-> k, at |-> 1, i |-> 0] /\ kernel' = Empty
        /\ UNCHANGED <<builder, next_index, sealed, software, both, decls, receipts>>
  BY DEF OnRequest, Building
<1>2. RecordsIn(kernel') /\ RecordsIn(builder')
  BY <1>1, EmptyRecords DEF CertInv, RecordsIn
<1>3. replay'.kind = k /\ replay'.at = 1 /\ replay'.i = 0
  BY <1>1
<1>4. replay' \in [kind : SinkKinds, at : 1..6, i : 0..MaxDecls]
  BY <1>1, CertBuilderAssumption DEF CertBuilderAssumption
<1>5. \A s \in Sections : builder'[s] \in Seq(Record[s]) /\ Len(builder'[s]) \in Nat
  BY <1>2 DEF RecordsIn
<1>6. ASSUME NEW s \in Sections PROVE kernel'[s] = Given(s)'
  <2>1. kernel'[s] = << >>
    BY <1>1 DEF Empty
  <2>2. Place[s] \in 1..5
    BY OrderPlaces
  <2>3. SubSeq(builder'[s], 1, 0) = << >>
    BY <1>5
  <2> QED
    BY <1>3, <2>1, <2>2, <2>3 DEF Given
<1>7. Replaying'
  <2>1. \A s \in Sections : Place[s] = replay'.at => replay'.i =< Len(builder'[s])
    BY <1>3, <1>5
  <2> QED
    BY <1>1, <1>3, <1>4, <1>6, <2>1 DEF Replaying
<1>8. RuntimeHoldsWhatSinkForwards'
  BY <1>1 DEF CertInv, RuntimeHoldsWhatSinkForwards
<1>9. /\ \A s \in Sections : Len(builder'[s]) =< decls'
      /\ sealed' \in BOOLEAN /\ decls' \in 0..MaxDecls /\ receipts' \in 1..MaxReceipts+1
      /\ next_index' \in [Numbered -> Index]
  BY <1>1 DEF CertInv
<1> QED
  BY <1>2, <1>7, <1>8, <1>9 DEF CertInv

\* A replay that is in progress.
LEMMA IsReplaying ==
  ASSUME CertInv, replay # NoReplay
  PROVE  /\ Replaying
         /\ replay.kind \in SinkKinds /\ replay.at \in 1..6 /\ replay.i \in 0..MaxDecls
         /\ replay = [kind |-> replay.kind, at |-> replay.at, i |-> replay.i]
         /\ receipts =< MaxReceipts
BY DEF CertInv, Replaying

\* A sink call passes the next record on, or does nothing.
LEMMA RecordStep == ASSUME CertInv, OnRecord PROVE CertInv'
<1> DEFINE t == Order[replay.at]
           r == builder[t][replay.i + 1]
<1>1. /\ replay.at \in DOMAIN Order /\ replay.i < Len(builder[t])
      /\ replay' = [replay EXCEPT !.i = @ + 1]
      /\ kernel' = IF t \in Forwards(replay.kind) THEN [kernel EXCEPT ![t] = Append(@, r)]
                   ELSE kernel
      /\ UNCHANGED <<builder, next_index, sealed, software, both, decls, receipts>>
  BY DEF OnRecord
<1>2. replay.at \in 1..5 /\ t \in Sections /\ Place[t] = replay.at
  BY <1>1, OrderPlaces
<1>3. replay # NoReplay
  BY <1>2 DEF NoReplay
<1>4. /\ Replaying
      /\ replay.kind \in SinkKinds /\ replay.at \in 1..6 /\ replay.i \in 0..MaxDecls
      /\ replay = [kind |-> replay.kind, at |-> replay.at, i |-> replay.i]
      /\ receipts =< MaxReceipts
  BY <1>3, IsReplaying
<1> HIDE DEF t
<1>5. /\ RecordsIn(builder) /\ RecordsIn(kernel) /\ decls \in 0..MaxDecls
      /\ builder[t] \in Seq(Record[t]) /\ Len(builder[t]) \in Nat /\ Len(builder[t]) =< decls
  BY <1>2 DEF CertInv, RecordsIn
<1>6. replay.i + 1 \in 1..Len(builder[t]) /\ replay.i + 1 \in 0..MaxDecls
  <2>1. MaxDecls \in Nat
    BY CertBuilderAssumption DEF CertBuilderAssumption
  <2> QED
    BY <1>1, <1>4, <1>5, <2>1
<1>7. replay'.kind = replay.kind /\ replay'.at = replay.at /\ replay'.i = replay.i + 1
  BY <1>1, <1>4
<1>8. replay' \in [kind : SinkKinds, at : 1..6, i : 0..MaxDecls]
  BY <1>1, <1>4, <1>6
<1>9. r \in Record[t]
  BY <1>5, <1>6
<1>10. t \in Forwards(replay.kind) => kernel' = Appended(kernel, t, r)
  BY <1>1 DEF Appended
<1> HIDE DEF r
<1>11. /\ RecordsIn(Appended(kernel, t, r))
       /\ Appended(kernel, t, r)[t] = Append(kernel[t], r)
       /\ \A s \in Sections \ {t} : Appended(kernel, t, r)[s] = kernel[s]
  BY <1>2, <1>5, <1>9, RecordAppended
<1>12. /\ RecordsIn(kernel')
       /\ kernel'[t] = IF t \in Forwards(replay.kind) THEN Append(kernel[t], r) ELSE kernel[t]
       /\ \A s \in Sections \ {t} : kernel'[s] = kernel[s]
  BY <1>1, <1>5, <1>10, <1>11 DEF RecordsIn
<1>13. ASSUME NEW s \in Sections PROVE kernel'[s] = Given(s)'
  <2>1. kernel[s] = Given(s) /\ Place[s] \in 1..5
    BY <1>4, OrderPlaces DEF Replaying
  <2>2. CASE s = t
    <3>1. CASE t \in Forwards(replay.kind)
      <4>1. kernel[t] = SubSeq(builder[t], 1, replay.i)
        <5>1. kernel[t] = Given(t) /\ Place[t] = replay.at
          BY <1>2, <2>1, <2>2
        <5>2. replay.at \in 1..5 => ~ (Place[t] > replay.at) /\ ~ (Place[t] < replay.at)
          BY <5>1
        <5> QED
          BY <1>2, <3>1, <5>1, <5>2 DEF Given
      <4>2. Append(SubSeq(builder[t], 1, replay.i), builder[t][replay.i + 1])
              = SubSeq(builder[t], 1, replay.i + 1)
        <5>1. replay.i \in 0..Len(builder[t])-1
          <6>1. replay.i < Len(builder[t]) /\ replay.i \in Nat /\ Len(builder[t]) \in Nat
            BY <1>1, <1>4, <1>5 DEF t
          <6> QED
            BY <6>1
        <5> QED
          BY <1>5, <5>1, PrefixExtended
      <4>3. kernel'[t] = SubSeq(builder[t], 1, replay.i + 1)
        BY <1>12, <3>1, <4>1, <4>2 DEF r
      <4>4. builder' = builder /\ replay'.at = Place[s] /\ replay'.i = replay.i + 1
        BY <1>1, <1>2, <1>7, <2>2
      <4>5. ~ (Place[s] > replay'.at) /\ ~ (Place[s] < replay'.at)
        BY <2>1, <4>4
      <4>6. s \in Forwards(replay'.kind)
        BY <1>7, <2>2, <3>1
      <4>7. Given(s)' = SubSeq(builder[s], 1, replay.i + 1)
        BY <4>4, <4>5, <4>6 DEF Given
      <4> QED
        BY <2>2, <4>3, <4>7
    <3>2. CASE t \notin Forwards(replay.kind)
      BY <1>7, <1>12, <2>1, <2>2, <3>2 DEF Given
    <3> QED
      BY <3>1, <3>2
  <2>3. CASE s # t
    <3>1. Place[s] # replay.at
      BY <1>2, <2>3, OrderPlaces
    <3>2. Given(s)' = Given(s)
      BY <1>1, <1>7, <3>1, <2>1, <1>4 DEF Given
    <3> QED
      BY <1>12, <2>1, <2>3, <3>2
  <2> QED
    BY <2>2, <2>3
<1>14. Replaying'
  <2>1. \A s \in Sections : Place[s] = replay'.at => replay'.i =< Len(builder'[s])
    <3> SUFFICES ASSUME NEW s \in Sections, Place[s] = replay'.at
                 PROVE  replay'.i =< Len(builder'[s])
      OBVIOUS
    <3>1. s = t
      BY <1>2, <1>7, OrderPlaces
    <3> QED
      BY <1>1, <1>6, <1>7, <3>1
  <2> QED
    BY <1>1, <1>2, <1>4, <1>7, <1>8, <1>13, <2>1 DEF Replaying
<1>15. RuntimeHoldsWhatSinkForwards'
  BY <1>1 DEF CertInv, RuntimeHoldsWhatSinkForwards
<1>16. /\ RecordsIn(builder') /\ \A s \in Sections : Len(builder'[s]) =< decls'
       /\ sealed' \in BOOLEAN /\ decls' \in 0..MaxDecls /\ receipts' \in 1..MaxReceipts+1
       /\ next_index' \in [Numbered -> Index]
  BY <1>1 DEF CertInv, RecordsIn
<1> QED
  BY <1>12, <1>14, <1>15, <1>16 DEF CertInv

\* The end of a loop: the section is now complete.
LEMMA SectionStep == ASSUME CertInv, NextSection PROVE CertInv'
<1>1. /\ replay.at \in DOMAIN Order
      /\ replay.i = Len(builder[Order[replay.at]])
      /\ replay' = [replay EXCEPT !.at = @ + 1, !.i = 0]
      /\ UNCHANGED <<builder, next_index, sealed, kernel, software, both, decls, receipts>>
  BY DEF NextSection
<1>2. replay.at \in 1..5
  BY <1>1, OrderPlaces
<1>3. replay # NoReplay
  BY <1>2 DEF NoReplay
<1>4. /\ Replaying
      /\ replay.kind \in SinkKinds /\ replay.at \in 1..6 /\ replay.i \in 0..MaxDecls
      /\ replay = [kind |-> replay.kind, at |-> replay.at, i |-> replay.i]
      /\ receipts =< MaxReceipts
  BY <1>3, IsReplaying
<1>5. replay'.kind = replay.kind /\ replay'.at = replay.at + 1 /\ replay'.i = 0
  BY <1>1, <1>4
<1>6. replay'.at \in 1..6 /\ MaxDecls \in Nat
  BY <1>2, <1>5, CertBuilderAssumption DEF CertBuilderAssumption
<1>7. replay' \in [kind : SinkKinds, at : 1..6, i : 0..MaxDecls]
  <2>1. replay' = [kind |-> replay.kind, at |-> replay'.at, i |-> 0]
    BY <1>1, <1>4, <1>5
  <2> QED
    BY <1>4, <1>6, <2>1
<1>8. \A s \in Sections : builder[s] \in Seq(Record[s]) /\ Len(builder[s]) \in Nat
  BY DEF CertInv, RecordsIn
<1>9. ASSUME NEW s \in Sections PROVE kernel'[s] = Given(s)'
  <2>1. kernel'[s] = Given(s) /\ builder' = builder /\ Place[s] \in 1..5
    BY <1>1, <1>4, OrderPlaces DEF Replaying
  <2>2. CASE s \notin Forwards(replay.kind)
    BY <1>5, <2>1, <2>2 DEF Given
  <2>3. CASE s \in Forwards(replay.kind) /\ Place[s] < replay.at
    <3>1. ~ (Place[s] > replay.at) /\ ~ (Place[s] > replay'.at) /\ Place[s] < replay'.at
      BY <1>2, <1>5, <2>1, <2>3
    <3> QED
      BY <1>5, <2>1, <2>3, <3>1 DEF Given
  <2>4. CASE s \in Forwards(replay.kind) /\ Place[s] = replay.at
    <3>1. /\ ~ (Place[s] > replay.at) /\ ~ (Place[s] < replay.at)
          /\ ~ (Place[s] > replay'.at) /\ Place[s] < replay'.at
      BY <1>2, <1>5, <2>4
    <3>2. Order[replay.at] = s
      BY <2>4, OrderPlaces
    <3>3. SubSeq(builder[s], 1, Len(builder[s])) = builder[s]
      BY <1>8
    <3>4. Given(s) = builder[s]
      BY <1>1, <2>4, <3>1, <3>2, <3>3 DEF Given
    <3>5. Given(s)' = builder'[s]
      BY <1>5, <2>4, <3>1 DEF Given
    <3> QED
      BY <2>1, <3>4, <3>5
  <2>5. CASE s \in Forwards(replay.kind) /\ Place[s] > replay.at
    <3>1. Given(s) = << >>
      BY <2>5 DEF Given
    <3>2. SubSeq(builder[s], 1, 0) = << >>
      BY <1>8
    <3>3. ~ (Place[s] < replay'.at)
      BY <1>2, <1>5, <2>1, <2>5
    <3>4. Given(s)' = << >>
      BY <1>5, <2>1, <3>2, <3>3 DEF Given
    <3> QED
      BY <2>1, <3>1, <3>4
  <2>6. Place[s] < replay.at \/ Place[s] = replay.at \/ Place[s] > replay.at
    BY <1>2, <2>1
  <2> QED
    BY <2>2, <2>3, <2>4, <2>5, <2>6
<1>10. Replaying'
  <2>1. \A s \in Sections : Place[s] = replay'.at => replay'.i =< Len(builder'[s])
    BY <1>1, <1>5, <1>8
  <2> QED
    BY <1>1, <1>4, <1>5, <1>7, <1>9, <2>1 DEF Replaying
<1>11. RuntimeHoldsWhatSinkForwards'
  BY <1>1 DEF CertInv, RuntimeHoldsWhatSinkForwards
<1>12. /\ RecordsIn(builder') /\ RecordsIn(kernel')
       /\ \A s \in Sections : Len(builder'[s]) =< decls'
       /\ sealed' \in BOOLEAN /\ decls' \in 0..MaxDecls /\ receipts' \in 1..MaxReceipts+1
       /\ next_index' \in [Numbered -> Index]
  BY <1>1 DEF CertInv, RecordsIn
<1> QED
  BY <1>10, <1>11, <1>12 DEF CertInv

\* on_finalize comes after the five loops: the runtime has every record the
\* sink forwards.
LEMMA FinalizeSinkStep == ASSUME CertInv, OnFinalize PROVE CertInv'
<1>1. /\ replay.at = Len(Order) + 1
      /\ both' = both \cup {[kind |-> replay.kind, software |-> builder, kernel |-> kernel]}
      /\ replay' = NoReplay /\ Consume /\ UNCHANGED <<kernel, decls>>
  BY DEF OnFinalize
<1>2. replay.at = 6
  BY <1>1, OrderPlaces
<1>3. replay # NoReplay
  BY <1>2 DEF NoReplay
<1>4. Replaying /\ receipts =< MaxReceipts
  BY <1>3, IsReplaying
<1>5. ASSUME NEW s \in Sections
      PROVE  kernel[s] = IF s \in Forwards(replay.kind) THEN builder[s] ELSE << >>
  <2>1. kernel[s] = Given(s)
    BY <1>4 DEF Replaying
  <2>2. ~ (Place[s] > replay.at) /\ Place[s] < replay.at
    BY <1>2, OrderPlaces
  <2> QED
    BY <2>1, <2>2 DEF Given
<1>6. RuntimeHoldsWhatSinkForwards'
  <2> SUFFICES ASSUME NEW x \in both', NEW s \in Sections
               PROVE  x.kernel[s] = IF s \in Forwards(x.kind) THEN x.software[s] ELSE << >>
    BY DEF RuntimeHoldsWhatSinkForwards
  <2>1. CASE x \in both
    BY <2>1 DEF CertInv, RuntimeHoldsWhatSinkForwards
  <2>2. CASE x = [kind |-> replay.kind, software |-> builder, kernel |-> kernel]
    <3>1. x.kind = replay.kind /\ x.software = builder /\ x.kernel = kernel
      BY <2>2
    <3> QED
      BY <1>5, <3>1
  <2> QED
    BY <1>1, <2>1, <2>2
<1> QED
  BY <1>1, <1>4, <1>6, ConsumeStep

\* The declarations of the five sections.
LEMMA DeclarationStep ==
  ASSUME CertInv,
         DeclareInput \/ DeclareOutput \/ DeclareOp \/ DeclareActivation \/ DeclareIntervention
  PROVE  CertInv'
<1>0. sealed \in BOOLEAN /\ next_index \in [Numbered -> Index]
  BY DEF CertInv
<1>1. CASE DeclareInput
  <2>1. PICK f \in InputArgs : Declare("inputs", f)
    BY <1>1 DEF DeclareInput
  <2>2. f \in Record["inputs"] /\ "inputs" \in Sections
    BY RecordOf DEF Sections
  <2>3. sealed' \in BOOLEAN /\ next_index' \in [Numbered -> Index]
    BY <1>0, <1>1 DEF DeclareInput
  <2> QED
    BY <2>1, <2>2, <2>3, DeclareStep
<1>2. CASE DeclareOutput
  <2>1. PICK f \in OutputArgs : Declare("outputs", f)
    BY <1>2 DEF DeclareOutput
  <2>2. f \in Record["outputs"] /\ "outputs" \in Sections
    BY RecordOf DEF Sections
  <2>3. sealed' \in BOOLEAN /\ next_index' \in [Numbered -> Index]
    BY <1>0, <1>2 DEF DeclareOutput
  <2> QED
    BY <2>1, <2>2, <2>3, DeclareStep
<1>3. CASE DeclareOp
  <2>1. PICK a \in OpArgs :
          DeclareNumbered("ops", OpRecord(a, next_index["ops"]))
    BY <1>3 DEF DeclareOp
  <2>2. "ops" \in Numbered
    BY DEF Numbered
  <2>3. OpRecord(a, next_index["ops"]) \in Record["ops"]
    BY <2>2, IncrementedTyped, RecordOf
  <2> QED
    BY <2>1, <2>2, <2>3, DeclareNumberedStep
<1>4. CASE DeclareActivation
  <2>1. PICK a \in ActivationArgs :
          DeclareNumbered("activations", ActivationRecord(a, next_index["activations"]))
    BY <1>4 DEF DeclareActivation
  <2>2. "activations" \in Numbered
    BY DEF Numbered
  <2>3. ActivationRecord(a, next_index["activations"]) \in Record["activations"]
    BY <2>2, IncrementedTyped, RecordOf
  <2> QED
    BY <2>1, <2>2, <2>3, DeclareNumberedStep
<1>5. CASE DeclareIntervention
  <2>1. PICK a \in InterventionArgs :
          DeclareNumbered("interventions", InterventionRecord(a, next_index["interventions"]))
    BY <1>5 DEF DeclareIntervention
  <2>2. "interventions" \in Numbered
    BY DEF Numbered
  <2>3. InterventionRecord(a, next_index["interventions"]) \in Record["interventions"]
    BY <2>2, IncrementedTyped, RecordOf
  <2> QED
    BY <2>1, <2>2, <2>3, DeclareNumberedStep
<1> QED
  BY <1>1, <1>2, <1>3, <1>4, <1>5

\* The ends that leave the runtime's finished receipts alone.
LEMMA EndStep == ASSUME CertInv, Finalize \/ Abandon \/ SinkFails PROVE CertInv'
<1>1. Consume /\ replay' = NoReplay /\ UNCHANGED <<kernel, both, decls>>
  BY DEF Finalize, Abandon, SinkFails, Building
<1>2. receipts =< MaxReceipts
  <2>1. CASE replay = NoReplay
    BY <2>1 DEF Finalize, Abandon, SinkFails, Building
  <2>2. CASE replay # NoReplay
    BY <2>2, IsReplaying
  <2> QED
    BY <2>1, <2>2
<1>3. RuntimeHoldsWhatSinkForwards'
  BY <1>1 DEF CertInv, RuntimeHoldsWhatSinkForwards
<1> QED
  BY <1>1, <1>2, <1>3, ConsumeStep

LEMMA CertStutter == ASSUME CertInv, UNCHANGED vars PROVE CertInv'
<1>1. /\ RecordsIn(builder') /\ RecordsIn(kernel')
      /\ \A s \in Sections : Len(builder'[s]) =< decls'
      /\ sealed' \in BOOLEAN /\ decls' \in 0..MaxDecls /\ receipts' \in 1..MaxReceipts+1
      /\ next_index' \in [Numbered -> Index]
  BY DEF vars, CertInv, RecordsIn
<1>2. replay' = NoReplay \/ Replaying'
  BY DEF vars, CertInv, Replaying, Given
<1>3. RuntimeHoldsWhatSinkForwards'
  BY DEF vars, CertInv, RuntimeHoldsWhatSinkForwards
<1> QED
  BY <1>1, <1>2, <1>3 DEF CertInv
-----------------------------------------------------------------------------
THEOREM CertInvariant == Spec => []CertInv
<1>1. Init => CertInv
  BY CertStarts
<1>2. CertInv /\ [Next]_vars => CertInv'
  <2> SUFFICES ASSUME CertInv, [Next]_vars PROVE CertInv'
    OBVIOUS
  <2>1. CASE DeclareInput \/ DeclareOutput \/ DeclareOp \/ DeclareActivation \/ DeclareIntervention
    BY <2>1, DeclarationStep
  <2>2. CASE Finalize \/ Abandon \/ SinkFails
    BY <2>2, EndStep
  <2>3. CASE OnRequest
    BY <2>3, RequestStep
  <2>4. CASE OnRecord
    BY <2>4, RecordStep
  <2>5. CASE NextSection
    BY <2>5, SectionStep
  <2>6. CASE OnFinalize
    BY <2>6, FinalizeSinkStep
  <2>7. CASE UNCHANGED vars
    BY <2>7, CertStutter
  <2> QED
    BY <2>1, <2>2, <2>3, <2>4, <2>5, <2>6, <2>7 DEF Next
<1> QED
  BY <1>1, <1>2, PTL DEF Spec

\* Types: for all records, sinks, and numbers of receipts and declarations, a
\* section holds records of its kind, numbered in the width of its counter, and
\* so does what the runtime was given (builder.rs:219-339).
THEOREM CertTypeCorrect == Spec => []TypeOK
<1>1. CertInv => TypeOK
  <2> SUFFICES ASSUME CertInv PROVE TypeOK
    OBVIOUS
  <2>1. /\ DOMAIN builder = Sections /\ DOMAIN kernel = Sections
        /\ \A s \in Sections : builder[s] \in Seq(Record[s]) /\ kernel[s] \in Seq(Record[s])
    BY DEF CertInv, RecordsIn, Buffers
  <2>2. replay \in [kind : SinkKinds \cup {"none"}, at : 0..Len(Order)+1, i : 0..MaxDecls]
    <3>1. MaxDecls \in Nat /\ Len(Order) = 5
      BY CertBuilderAssumption, OrderPlaces DEF CertBuilderAssumption
    <3>2. CASE replay = NoReplay
      <4>1. 0 \in 0..Len(Order)+1 /\ 0 \in 0..MaxDecls
        BY <3>1
      <4> QED
        BY <3>2, <4>1 DEF NoReplay
    <3>3. CASE replay # NoReplay
      <4>1. replay.at \in 0..Len(Order)+1
        BY <3>1, <3>3, IsReplaying
      <4> QED
        BY <3>3, <4>1, IsReplaying
    <3> QED
      BY <3>2, <3>3
  <2> QED
    BY <2>1, <2>2 DEF CertInv, TypeOK
<1> QED
  BY <1>1, CertInvariant, PTL

\* The runtime ends up with exactly the records a sink forwards, in declaration
\* order, whatever earlier finalizations failed half way (builder.rs:365-384):
\* for every sequence of declarations, receipts, sinks and failures.
THEOREM ReplayIsComplete == Spec => []RuntimeHoldsWhatSinkForwards
<1>1. CertInv => RuntimeHoldsWhatSinkForwards
  BY DEF CertInv
<1> QED
  BY <1>1, CertInvariant, PTL

-----------------------------------------------------------------------------
\* Numbers.

\* The next remainder is the remainder of the next number.
LEMMA NextRemainder ==
  ASSUME NEW n \in Nat, NEW m \in Nat \ {0}
  PROVE  ((n % m) + 1) % m = (n + 1) % m
<1>1. PICK q \in Int, r \in 0..m-1 : n = m * q + r /\ r = n % m
  <2>1. n \div m \in Int /\ n % m \in 0..m-1 /\ n = m * (n \div m) + (n % m)
    BY DivNat
  <2>2. PICK q \in Int : q = n \div m
    BY <2>1
  <2>3. PICK r \in 0..m-1 : r = n % m
    BY <2>1
  <2>4. n = m * q + r
    BY <2>1, <2>2, <2>3
  <2> QED
    BY <2>3, <2>4
<1>2. CASE r + 1 < m
  <2>1. PICK x \in Int, y \in 0..m-1 : x = n + 1 /\ y = r + 1
    BY <1>1, <1>2
  <2>2. x = m * q + y
    <3>1. PICK t \in Int : t = m * q
      OBVIOUS
    <3>2. r \in Int /\ y \in Int /\ n = t + r
      BY <1>1, <3>1
    <3>3. x = t + y
      BY <2>1, <3>2
    <3> QED
      BY <3>1, <3>3
  <2>5. m * 0 = 0 /\ y = 0 + y /\ y \in Int /\ 0 \in Int
    OBVIOUS
  <2>3. x % m = y
    BY <2>2, DivUnique
  <2>4. y % m = y
    BY <2>5, DivUnique
  <2> QED
    BY <1>1, <2>1, <2>3, <2>4
<1>3. CASE ~ (r + 1 < m)
  <2>1. r + 1 = m * 1 /\ n + 1 = m * q + m
    BY <1>1, <1>3
  <2>2. m * q + m = m * (q + 1)
    BY <1>1
  <2>3. n + 1 = m * (q + 1)
    BY <2>1, <2>2
  <2>4. PICK x \in Int, p \in Int : x = n + 1 /\ p = q + 1
    BY <1>1
  <2>5. x % m = 0
    BY <2>3, <2>4, DivExact
  <2>6. PICK y \in Int : y = r + 1
    BY <1>1
  <2>7. y % m = 0
    BY <2>1, <2>6, DivExact
  <2> QED
    BY <1>1, <2>4, <2>5, <2>6, <2>7
<1> QED
  BY <1>2, <1>3

\* A prefix of a section that is in order is in order, and so is a section
\* with the next record at its end.
OrderedSection(s, w) == \A n \in 1..Len(w) : RecordIndex(s, w[n]) = (n - 1) % IndexMod

LEMMA OrderedPrefix ==
  ASSUME NEW S, NEW w \in Seq(S), NEW s, OrderedSection(s, w), NEW k \in 0..Len(w)
  PROVE  OrderedSection(s, SubSeq(w, 1, k))
<1>1. Len(SubSeq(w, 1, k)) = k /\ \A n \in 1..k : SubSeq(w, 1, k)[n] = w[n]
  BY PrefixFacts
<1>2. \A n \in 1..k : n \in 1..Len(w)
  OBVIOUS
<1> QED
  BY <1>1, <1>2 DEF OrderedSection

LEMMA OrderedAppend ==
  ASSUME NEW S, NEW w \in Seq(S), NEW s, OrderedSection(s, w), NEW r \in S,
         RecordIndex(s, r) = Len(w) % IndexMod
  PROVE  OrderedSection(s, Append(w, r))
<1>1. Len(Append(w, r)) = Len(w) + 1 /\ Len(w) \in Nat
  OBVIOUS
<1>2. ASSUME NEW n \in 1..Len(w) + 1 PROVE RecordIndex(s, Append(w, r)[n]) = (n - 1) % IndexMod
  <2>1. CASE n \in 1..Len(w)
    <3>1. Append(w, r)[n] = w[n]
      BY <2>1
    <3> QED
      BY <2>1, <3>1 DEF OrderedSection
  <2>2. CASE n = Len(w) + 1
    <3>1. Append(w, r)[n] = r /\ n - 1 = Len(w)
      BY <1>1, <2>2
    <3> QED
      BY <3>1
  <2> QED
    BY <1>1, <2>1, <2>2
<1> QED
  BY <1>1, <1>2 DEF OrderedSection

LEMMA InOrderIs == ASSUME NEW c PROVE InOrder(c) <=> \A s \in Numbered : OrderedSection(s, c[s])
BY DEF InOrder, OrderedSection

\* Empty sections are in order.
LEMMA EmptyInOrder == InOrder(Empty) /\ \A s \in Numbered : NoneYet[s] = 0 % IndexMod
<1>1. \A s \in Numbered : Empty[s] = << >> /\ Len(Empty[s]) = 0
  BY DEF Empty, Numbered, Sections
<1>2. 0 % IndexMod = 0
  BY CertBuilderAssumption, DivExact DEF CertBuilderAssumption
<1> QED
  BY <1>1, <1>2 DEF InOrder, NoneYet

\* A declaration keeps the counters in step: the record gets the number of its
\* position, and its section's counter moves to the next.
LEMMA NumberedStep ==
  ASSUME CertInv, RecordsNumbered, NEW t \in Numbered, NEW r \in Record[t],
         RecordIndex(t, r) = next_index[t], DeclareNumbered(t, r)
  PROVE  InOrder(builder') /\ \A s \in Numbered : next_index'[s] = Len(builder'[s]) % IndexMod
<1>1. builder' = Appended(builder, t, r) /\ next_index' = [next_index EXCEPT ![t] = Incremented(@)]
  BY DEF DeclareNumbered, Declare, Appended
<1>2. t \in Sections /\ \A s \in Numbered : s \in Sections
  BY DEF Numbered, Sections
<1>3. RecordsIn(builder) /\ next_index \in [Numbered -> Index]
  BY DEF CertInv
<1>4. /\ builder'[t] = Append(builder[t], r) /\ Len(builder'[t]) = Len(builder[t]) + 1
      /\ \A s \in Sections \ {t} : builder'[s] = builder[s]
  BY <1>1, <1>2, <1>3, RecordAppended
<1>5. builder[t] \in Seq(Record[t]) /\ Len(builder[t]) \in Nat
  BY <1>2, <1>3 DEF RecordsIn
<1>6. InOrder(builder) /\ \A s \in Numbered : next_index[s] = Len(builder[s]) % IndexMod
  BY DEF RecordsNumbered
<1>7. \A s \in Numbered : OrderedSection(s, builder[s])
  BY <1>6, InOrderIs
<1>8. OrderedSection(t, builder'[t])
  <2>1. RecordIndex(t, r) = Len(builder[t]) % IndexMod
    BY <1>6
  <2>2. OrderedSection(t, Append(builder[t], r))
    BY <1>5, <1>7, <2>1, OrderedAppend
  <2> QED
    BY <1>4, <2>2
<1>9. \A s \in Numbered : OrderedSection(s, builder'[s])
  BY <1>2, <1>4, <1>7, <1>8
<1>10. next_index'[t] = Len(builder'[t]) % IndexMod
  <2>1. next_index'[t] = ((Len(builder[t]) % IndexMod) + 1) % IndexMod
    BY <1>1, <1>3, <1>6 DEF Incremented
  <2>2. IndexMod \in Nat \ {0}
    BY CertBuilderAssumption DEF CertBuilderAssumption
  <2> QED
    BY <1>4, <1>5, <2>1, <2>2, NextRemainder
<1>11. \A s \in Numbered \ {t} : next_index'[s] = Len(builder'[s]) % IndexMod
  BY <1>1, <1>2, <1>3, <1>4, <1>6
<1> QED
  BY <1>9, <1>10, <1>11, InOrderIs

\* What a replay has given a runtime is in order when the builder is.
LEMMA GivenInOrder == CertInv /\ Replaying /\ InOrder(builder) => InOrder(kernel)
<1> SUFFICES ASSUME CertInv, Replaying, InOrder(builder) PROVE InOrder(kernel)
  OBVIOUS
<1>1. ASSUME NEW s \in Numbered PROVE OrderedSection(s, kernel[s])
  <2>1. s \in Sections
    BY DEF Numbered, Sections
  <2>2. builder[s] \in Seq(Record[s]) /\ OrderedSection(s, builder[s]) /\ kernel[s] = Given(s)
    BY <2>1, InOrderIs DEF CertInv, RecordsIn, Replaying
  <2>3. OrderedSection(s, << >>)
    BY DEF OrderedSection
  <2>4. CASE Place[s] = replay.at
    <3>1. replay.i \in 0..Len(builder[s])
      <4>1. replay.i \in 0..MaxDecls /\ replay.i =< Len(builder[s]) /\ MaxDecls \in Nat
        BY <2>1, <2>4, CertBuilderAssumption DEF Replaying, CertBuilderAssumption
      <4> QED
        BY <2>2, <4>1
    <3>2. OrderedSection(s, SubSeq(builder[s], 1, replay.i))
      BY <2>2, <3>1, OrderedPrefix
    <3> QED
      BY <2>2, <2>3, <2>4, <3>2 DEF Given
  <2>5. CASE Place[s] # replay.at
    <3>1. Given(s) = << >> \/ Given(s) = builder[s]
      <4>1. Place[s] \in Int /\ replay.at \in Int
        BY <2>1, OrderPlaces DEF Replaying
      <4> QED
        BY <2>5, <4>1 DEF Given
    <3> QED
      BY <2>2, <2>3, <3>1
  <2> QED
    BY <2>4, <2>5
<1> QED
  BY <1>1, InOrderIs

\* A replay goes on after a record.
LEMMA StillReplaying == ASSUME CertInv, CertInv', OnRecord PROVE Replaying'
<1>1. replay # NoReplay
  BY OrderPlaces DEF OnRecord, NoReplay
<1>2. replay.i \in Nat /\ replay' = [replay EXCEPT !.i = @ + 1]
  BY <1>1, IsReplaying, CertBuilderAssumption DEF OnRecord, CertBuilderAssumption
<1>3. replay'.i = replay.i + 1
  BY <1>1, <1>2, IsReplaying
<1>4. replay' # NoReplay
  BY <1>2, <1>3 DEF NoReplay
<1> QED
  BY <1>4 DEF CertInv

\* In every builder, receipt and runtime the n-th record of a section carries
\* the number n - 1, modulo the width of the counters (builder.rs:259-260,
\* 295-296, 329-330): for every width, and every interleaving of declarations,
\* replays and failures.
THEOREM RecordsInOrder == Spec => []RecordsNumbered
<1>1. Init => RecordsNumbered
  <2> SUFFICES ASSUME Init PROVE RecordsNumbered
    OBVIOUS
  <2>1. builder = Empty /\ kernel = Empty /\ software = {} /\ next_index = NoneYet
    BY DEF Init
  <2>2. \A s \in Numbered : Len(builder[s]) = 0
    BY <2>1, EmptyRecords DEF Numbered, Sections
  <2> QED
    BY <2>1, <2>2, EmptyInOrder DEF RecordsNumbered
<1>2. ASSUME CertInv, CertInv', RecordsNumbered, [Next]_vars PROVE RecordsNumbered'
  <2>1. /\ InOrder(builder) /\ InOrder(kernel) /\ \A c \in software : InOrder(c)
        /\ \A s \in Numbered : next_index[s] = Len(builder[s]) % IndexMod
    BY <1>2 DEF RecordsNumbered
  <2>2. /\ InOrder(builder')
        /\ \A s \in Numbered : next_index'[s] = Len(builder'[s]) % IndexMod
    <3>1. CASE DeclareInput \/ DeclareOutput
      <4>1. PICK t \in {"inputs", "outputs"} : \E r : Declare(t, r) /\ next_index' = next_index
        BY <3>1 DEF DeclareInput, DeclareOutput
      <4>2. DOMAIN builder = Sections
        BY <1>2 DEF CertInv, RecordsIn, Buffers
      <4>3. \A s \in Numbered : builder'[s] = builder[s]
        BY <4>1, <4>2 DEF Declare, Numbered, Sections
      <4> QED
        BY <2>1, <4>1, <4>3, InOrderIs
    <3>2. CASE DeclareOp
      <4>1. PICK a \in OpArgs : DeclareNumbered("ops", OpRecord(a, next_index["ops"]))
        BY <3>2 DEF DeclareOp
      <4>2. "ops" \in Numbered
        BY DEF Numbered
      <4>3. OpRecord(a, next_index["ops"]) \in Record["ops"]
        BY <1>2, <4>2, IncrementedTyped, RecordOf
      <4>4. RecordIndex("ops", OpRecord(a, next_index["ops"])) = next_index["ops"]
        BY DEF RecordIndex, OpRecord
      <4> QED
        BY <1>2, <4>1, <4>2, <4>3, <4>4, NumberedStep
    <3>3. CASE DeclareActivation
      <4>1. PICK a \in ActivationArgs :
              DeclareNumbered("activations", ActivationRecord(a, next_index["activations"]))
        BY <3>3 DEF DeclareActivation
      <4>2. "activations" \in Numbered
        BY DEF Numbered
      <4>3. ActivationRecord(a, next_index["activations"]) \in Record["activations"]
        BY <1>2, <4>2, IncrementedTyped, RecordOf
      <4>4. RecordIndex("activations", ActivationRecord(a, next_index["activations"]))
              = next_index["activations"]
        BY DEF RecordIndex, ActivationRecord
      <4> QED
        BY <1>2, <4>1, <4>2, <4>3, <4>4, NumberedStep
    <3>4. CASE DeclareIntervention
      <4>1. PICK a \in InterventionArgs :
              DeclareNumbered("interventions", InterventionRecord(a, next_index["interventions"]))
        BY <3>4 DEF DeclareIntervention
      <4>2. "interventions" \in Numbered
        BY DEF Numbered
      <4>3. InterventionRecord(a, next_index["interventions"]) \in Record["interventions"]
        BY <1>2, <4>2, IncrementedTyped, RecordOf
      <4>4. RecordIndex("interventions", InterventionRecord(a, next_index["interventions"]))
              = next_index["interventions"]
        BY DEF RecordIndex, InterventionRecord
      <4> QED
        BY <1>2, <4>1, <4>2, <4>3, <4>4, NumberedStep
    <3>5. CASE Consume
      <4>1. builder' = Empty /\ next_index' = NoneYet
        BY <3>5 DEF Consume
      <4>2. \A s \in Numbered : Len(builder'[s]) = 0
        BY <4>1, EmptyRecords DEF Numbered, Sections
      <4> QED
        BY <4>1, <4>2, EmptyInOrder
    <3>6. CASE UNCHANGED <<builder, next_index>>
      BY <2>1, <3>6
    <3> QED
      BY <1>2, <3>1, <3>2, <3>3, <3>4, <3>5, <3>6
      DEF Next, vars, Finalize, Abandon, OnRequest, OnRecord, NextSection, OnFinalize, SinkFails
  <2>3. InOrder(kernel')
    <3>1. CASE kernel' = kernel
      BY <2>1, <3>1
    <3>2. CASE kernel' = Empty
      BY <3>2, EmptyInOrder
    <3>3. CASE OnRecord
      <4>1. Replaying'
        BY <1>2, <3>3, StillReplaying
      <4>2. (CertInv /\ Replaying /\ InOrder(builder) => InOrder(kernel))'
        BY GivenInOrder, PTL
      <4>3. InOrder(builder)'
        BY <2>2 DEF InOrder
      <4>4. InOrder(kernel)'
        BY <1>2, <4>1, <4>2, <4>3
      <4> QED
        BY <4>4 DEF InOrder
    <3> QED
      BY <1>2, <3>1, <3>2, <3>3
      DEF Next, vars, DeclareInput, DeclareOutput, DeclareOp, DeclareActivation,
          DeclareIntervention, DeclareNumbered, Declare, Finalize, Abandon, OnRequest,
          NextSection, OnFinalize, SinkFails
  <2>4. software' = software \/ software' = software \cup {builder}
    BY <1>2 DEF Next, vars, DeclareInput, DeclareOutput, DeclareOp, DeclareActivation,
         DeclareIntervention, DeclareNumbered, Declare, Finalize, Abandon, OnRequest, OnRecord,
         NextSection, OnFinalize, SinkFails
  <2>5. \A c \in software' : InOrder(c)
    BY <2>1, <2>4
  <2> QED
    BY <2>2, <2>3, <2>5 DEF RecordsNumbered
<1> QED
  BY <1>1, <1>2, CertInvariant, PTL DEF Spec

\* In a debug build, once a receipt has an output no input is added to it
\* (the debug_assert! of builder.rs:224).  A release build breaks this.
THEOREM SealedInDebugBuilds == ASSUME ~ Release PROVE Spec => InputsSealed
<1>1. ASSUME CertInv, [Next]_vars
      PROVE  sealed /\ receipts' = receipts => builder'.inputs = builder.inputs
  <2> SUFFICES ASSUME sealed, receipts' = receipts
               PROVE  builder'["inputs"] = builder["inputs"]
    OBVIOUS
  <2>1. receipts \in Nat /\ RecordsIn(builder)
    BY <1>1, CertBuilderAssumption DEF CertInv, CertBuilderAssumption
  <2>2. ~ DeclareInput
    BY DEF DeclareInput
  <2>3. ~ Consume
    BY <2>1 DEF Consume
  <2>4. ASSUME NEW t \in Sections, t # "inputs", NEW r, Declare(t, r)
        PROVE  builder'["inputs"] = builder["inputs"]
    <3>1. builder' = [builder EXCEPT ![t] = Append(@, r)] /\ DOMAIN builder = Sections
      BY <2>1, <2>4 DEF Declare, RecordsIn, Buffers
    <3> QED
      BY <2>4, <3>1 DEF Sections
  <2>5. CASE DeclareOutput
    <3>1. PICK f \in OutputArgs : Declare("outputs", f)
      BY <2>5 DEF DeclareOutput
    <3> QED
      BY <2>4, <3>1 DEF Sections
  <2>6. CASE DeclareOp
    <3>1. PICK a \in OpArgs : Declare("ops", OpRecord(a, next_index["ops"]))
      BY <2>6 DEF DeclareOp, DeclareNumbered
    <3> QED
      BY <2>4, <3>1 DEF Sections
  <2>7. CASE DeclareActivation
    <3>1. PICK a \in ActivationArgs : Declare("activations", ActivationRecord(a, next_index["activations"]))
      BY <2>7 DEF DeclareActivation, DeclareNumbered
    <3> QED
      BY <2>4, <3>1 DEF Sections
  <2>8. CASE DeclareIntervention
    <3>1. PICK a \in InterventionArgs : Declare("interventions", InterventionRecord(a, next_index["interventions"]))
      BY <2>8 DEF DeclareIntervention, DeclareNumbered
    <3> QED
      BY <2>4, <3>1 DEF Sections
  <2>9. CASE OnRequest \/ OnRecord \/ NextSection \/ UNCHANGED vars
    BY <2>9 DEF OnRequest, OnRecord, NextSection, vars
  <2>10. ~ Finalize /\ ~ Abandon /\ ~ OnFinalize /\ ~ SinkFails
    BY <2>3 DEF Finalize, Abandon, OnFinalize, SinkFails
  <2> QED
    BY <1>1, <2>2, <2>5, <2>6, <2>7, <2>8, <2>9, <2>10 DEF Next
<1> QED
  BY <1>1, CertInvariant, PTL DEF Spec, InputsSealed
-----------------------------------------------------------------------------
\* Two strings no continuation makes the same, unless they are the same.
Apart(x, y) == \A s, t \in Bytes : x \o s = y \o t => x = y /\ s = t

\* The codes of the values of A: each tells its value from what follows it.
Code(A) == {W \in [A -> Bytes] :
              \A a, b \in A : Apart(W[a], W[b]) /\ (W[a] = W[b] => a = b)}
-----------------------------------------------------------------------------
\* Strings of bytes.
LEMMA Cat == /\ << >> \in Bytes
             /\ \A x, y \in Bytes : x \o y \in Bytes
             /\ \A x \in Bytes : x \o << >> = x /\ << >> \o x = x
<1>1. \A x, y \in Bytes : x \o y \in Bytes
  BY ConcatProperties DEF Bytes
<1>2. << >> \in Bytes /\ \A x \in Bytes : x \o << >> = x /\ << >> \o x = x
  BY ConcatEmptySeq DEF Bytes
<1> QED
  BY <1>1, <1>2

LEMMA CatCancel ==
  ASSUME NEW x \in Bytes, NEW y \in Bytes, NEW z \in Bytes, x \o y = x \o z
  PROVE  y = z
BY ConcatSimplifications, ZenonT(30) DEF Bytes

Associative(x, y, z) == (x \o y) \o z = x \o (y \o z)

LEMMA CatAssociative ==
  ASSUME NEW x \in Bytes, NEW y \in Bytes, NEW z \in Bytes
  PROVE  Associative(x, y, z)
BY ConcatAssociative, SMTT(30) DEF Bytes, Associative

LEMMA ApartConcat ==
  ASSUME NEW x \in Bytes, NEW y \in Bytes, NEW u \in Bytes, NEW v \in Bytes,
         Apart(x, y), Apart(u, v)
  PROVE  /\ x \o u \in Bytes /\ y \o v \in Bytes
         /\ Apart(x \o u, y \o v)
         /\ x \o u = y \o v => x = y /\ u = v
<1>1. ASSUME NEW s \in Bytes, NEW t \in Bytes, (x \o u) \o s = (y \o v) \o t
      PROVE  x = y /\ u = v /\ s = t
  <2>0. u \o s \in Bytes /\ v \o t \in Bytes
    BY <1>1, Cat, Zenon
  <2>1. Associative(x, u, s)
    BY CatAssociative
  <2>2. Associative(y, v, t)
    BY CatAssociative
  <2>3. x \o (u \o s) = y \o (v \o t)
    BY <1>1, <2>1, <2>2, Zenon DEF Associative
  <2>4. x = y /\ u \o s = v \o t
    BY <2>0, <2>3, Zenon DEF Apart
  <2> QED
    BY <2>4, Zenon DEF Apart
<1>2. x \o u = y \o v => x = y /\ u = v
  <2>1. << >> \in Bytes /\ (x \o u) \o << >> = x \o u /\ (y \o v) \o << >> = y \o v
    BY Cat, Zenon
  <2> QED
    BY <1>1, <2>1, Zenon
<1>3. Apart(x \o u, y \o v)
  BY <1>1, Zenon DEF Apart
<1> QED
  BY <1>2, <1>3, Cat, Zenon

\* Strings of one length.
LEMMA SameLength ==
  ASSUME NEW x \in Bytes, NEW y \in Bytes, Len(x) = Len(y)
  PROVE  Apart(x, y)
<1> SUFFICES ASSUME NEW s \in Bytes, NEW t \in Bytes, x \o s = y \o t
             PROVE  x = y /\ s = t
  BY DEF Apart
<1>1. \A w, v \in Bytes : \A i \in 1..Len(w) : (w \o v)[i] = w[i]
  <2> SUFFICES ASSUME NEW w \in Bytes, NEW v \in Bytes, NEW i \in 1..Len(w)
               PROVE  (w \o v)[i] = w[i]
    OBVIOUS
  <2>1. i \in 1..Len(w) + Len(v) /\ i <= Len(w)
    BY LenProperties DEF Bytes
  <2> QED
    BY <2>1, ConcatProperties DEF Bytes
<1>2. ASSUME NEW i \in 1..Len(x) PROVE x[i] = y[i]
  <2>1. (x \o s)[i] = x[i] /\ (y \o t)[i] = y[i]
    BY <1>1, Zenon
  <2> QED
    BY <2>1, Zenon
<1>3. x = y
  BY <1>2, SeqEqual DEF Bytes
<1>4. x \o s = x \o t
  BY <1>3, Zenon
<1>5. s = t
  BY <1>4, CatCancel, Zenon
<1> QED
  BY <1>3, <1>5

LEMMA OneByte ==
  ASSUME NEW a \in Nat, NEW b \in Nat
  PROVE  /\ <<a>> \in Bytes /\ Apart(<<a>>, <<b>>) /\ (<<a>> = <<b>> => a = b)
         /\ \A s, t \in Bytes : <<a>> \o s = <<b>> \o t => a = b /\ s = t
<1>1. <<a>> \in Bytes /\ <<b>> \in Bytes /\ Len(<<a>>) = Len(<<b>>) /\ (<<a>> = <<b>> => a = b)
  BY DEF Bytes
<1>2. Apart(<<a>>, <<b>>)
  BY <1>1, SameLength
<1> QED
  BY <1>1, <1>2, Zenon DEF Apart
-----------------------------------------------------------------------------
\* LEB128: the numbers below the radix are their own codes.
LEMMA Digits ==
  ASSUME NEW v \in Nat
  PROVE  /\ v \div Radix \in Nat /\ v % Radix \in Nat /\ v % Radix < Radix
         /\ ~ (v < Radix) => v \div Radix < v
         /\ v = Radix * (v \div Radix) + (v % Radix)
BY ReceiptAssumption DEF ReceiptAssumption

LEMMA LebEquation ==
  /\ Leb128 \in [Nat -> Bytes]
  /\ \A v \in Nat : Leb128[v] = IF v < Radix THEN <<v>>
                                ELSE <<(v % Radix) + Radix>> \o Leb128[v \div Radix]
<1> DEFINE D == {v \in Nat : ~ (v < Radix)}
           h == [v \in Nat |-> v \div Radix]
           base == [v \in Nat |-> <<v>>]
           step == [v \in Nat |-> [w \in Bytes |-> <<(v % Radix) + Radix>> \o w]]
           Next1(f) == [v \in Nat |-> IF v < Radix THEN <<v>>
                                      ELSE <<(v % Radix) + Radix>> \o f[v \div Radix]]
<1>0. Radix \in Nat
  BY ReceiptAssumption DEF ReceiptAssumption
<1>1. h \in [Nat -> Nat] /\ \A n \in D : h[n] < n
  BY Digits
<1>2. base \in [Nat -> Bytes]
  BY OneByte
<1>3. step \in [Nat -> [Bytes -> Bytes]]
  <2> SUFFICES ASSUME NEW v \in Nat, NEW w \in Bytes
               PROVE  <<(v % Radix) + Radix>> \o w \in Bytes
    OBVIOUS
  <2>1. (v % Radix) + Radix \in Nat
    BY <1>0, Digits
  <2>2. <<(v % Radix) + Radix>> \in Bytes
    BY <2>1, OneByte
  <2> QED
    BY <2>2, Cat
<1>4. PICK f \in [Nat -> Bytes] : Solves(f, D, h, base, step)
  <2> HIDE DEF D, h, base, step
  <2>1. D \in SUBSET Nat
    BY DEF D
  <2> QED
    BY <1>1, <1>2, <1>3, <2>1, Recursion, Zenon
<1>5. \A v \in Nat : f[v] = IF v < Radix THEN <<v>>
                            ELSE <<(v % Radix) + Radix>> \o f[v \div Radix]
  BY <1>4, Digits DEF Solves
<1>6. f = Next1(f)
  BY <1>5
<1>7. Leb128 = CHOOSE g : g = Next1(g)
  BY DEF Leb128
<1>8. Leb128 = Next1(Leb128)
  <2> HIDE DEF Next1
  <2> QED
    BY <1>6, <1>7
<1>9. \A v \in Nat : Leb128[v] = IF v < Radix THEN <<v>>
                                 ELSE <<(v % Radix) + Radix>> \o Leb128[v \div Radix]
  BY <1>8
<1>10. Leb128 = [v \in Nat |-> Leb128[v]]
  BY <1>8
<1>11. ASSUME NEW n \in Nat PROVE Leb128[n] \in Bytes
  <2> DEFINE T == {v \in Nat : Leb128[v] \notin Bytes}
  <2>1. CASE T = {}
    BY <2>1
  <2>2. CASE T # {}
    <3>1. PICK m \in T : \A k \in T : m <= k
      BY <2>2, LeastElement
    <3>0. m \in Nat /\ Leb128[m] \notin Bytes
      BY <3>1
    <3>2. CASE m < Radix
      <4>1. Leb128[m] = <<m>> /\ <<m>> \in Bytes
        BY <1>9, <3>0, <3>2, OneByte
      <4> QED
        BY <3>0, <4>1
    <3>3. CASE ~ (m < Radix)
      <4>1. m \div Radix \in Nat /\ ~ (m <= m \div Radix) /\ (m % Radix) + Radix \in Nat
        BY <1>0, <3>3, Digits
      <4>2. Leb128[m \div Radix] \in Bytes /\ <<(m % Radix) + Radix>> \in Bytes
        BY <3>1, <4>1, OneByte
      <4>3. Leb128[m] = <<(m % Radix) + Radix>> \o Leb128[m \div Radix]
        BY <1>9, <3>3
      <4>4. <<(m % Radix) + Radix>> \o Leb128[m \div Radix] \in Bytes
        BY <4>2, Cat, Zenon
      <4> QED
        BY <3>0, <4>3, <4>4, Zenon
    <3> QED
      BY <3>2, <3>3
  <2> QED
    BY <2>1, <2>2
<1> QED
  BY <1>9, <1>10, <1>11

\* The last byte of a number is the only one below the radix, and each byte
\* before it is one of its digits.
Alike(a, b, s, t) ==
  \/ a < Radix /\ b < Radix /\ a = b /\ s = t
  \/ /\ ~ (a < Radix) /\ a % Radix = b % Radix
     /\ Leb128[a \div Radix] \o s = Leb128[b \div Radix] \o t

LEMMA LebCode == Leb128 \in Code(Nat)
<1>0. Leb128 \in [Nat -> Bytes] /\ Radix \in Nat
  BY LebEquation, ReceiptAssumption DEF ReceiptAssumption
<1>1. ASSUME NEW a \in Nat, NEW b \in Nat, NEW s \in Bytes, NEW t \in Bytes,
             Leb128[a] \o s = Leb128[b] \o t
      PROVE  Alike(a, b, s, t)
  <2> DEFINE high(v) == <<(v % Radix) + Radix>>
             low(v) == Leb128[v \div Radix]
  <2>1. ASSUME NEW v \in Nat, NEW w \in Bytes
        PROVE  /\ v < Radix => Leb128[v] \o w = <<v>> \o w
               /\ ~ (v < Radix) => Leb128[v] \o w = high(v) \o (low(v) \o w)
               /\ low(v) \o w \in Bytes
               /\ (v % Radix) + Radix \in Nat /\ ~ ((v % Radix) + Radix < Radix)
    <3>1. v % Radix \in Nat /\ v \div Radix \in Nat
      BY Digits
    <3>2. (v % Radix) + Radix \in Nat /\ ~ ((v % Radix) + Radix < Radix)
      BY <1>0, <3>1
    <3>3. low(v) \in Bytes /\ high(v) \in Bytes
      BY <1>0, <3>1, <3>2, OneByte
    <3>4. Leb128[v] = IF v < Radix THEN <<v>> ELSE high(v) \o low(v)
      BY LebEquation
    <3> HIDE DEF low, high
    <3>5. Associative(high(v), low(v), w)
      BY <3>3, CatAssociative
    <3>6. low(v) \o w \in Bytes
      BY <3>3, Cat, Zenon
    <3>7. v < Radix => Leb128[v] \o w = <<v>> \o w
      BY <3>4, Zenon
    <3>8. ~ (v < Radix) => Leb128[v] \o w = high(v) \o (low(v) \o w)
      BY <3>4, <3>5, Zenon DEF Associative
    <3> QED
      BY <3>2, <3>6, <3>7, <3>8
  <2>2. \A x, y \in Nat, u, v \in Bytes : <<x>> \o u = <<y>> \o v => x = y /\ u = v
    BY OneByte
  <2>3. CASE a < Radix /\ b < Radix
    <3>1. <<a>> \o s = <<b>> \o t
      BY <1>1, <2>1, <2>3, Zenon
    <3>2. Apart(<<a>>, <<b>>)
      BY OneByte
    <3>3. <<a>> = <<b>> /\ s = t
      BY <3>1, <3>2, Zenon DEF Apart
    <3>4. a = b
      BY <3>3
    <3> QED
      BY <2>3, <3>3, <3>4, Zenon DEF Alike
  <2> DEFINE ha == (a % Radix) + Radix
             hb == (b % Radix) + Radix
  <2>4. CASE a < Radix /\ ~ (b < Radix)
    <3>1. <<a>> \o s = <<hb>> \o (low(b) \o t) /\ low(b) \o t \in Bytes
      BY <1>1, <2>1, <2>4, Zenon
    <3>2. hb \in Nat /\ ~ (hb < Radix)
      BY <2>1
    <3> HIDE DEF hb, low
    <3>3. a = hb
      BY <2>2, <3>1, <3>2, Zenon
    <3> QED
      BY <2>4, <3>2, <3>3
  <2>5. CASE ~ (a < Radix) /\ b < Radix
    <3>1. <<ha>> \o (low(a) \o s) = <<b>> \o t /\ low(a) \o s \in Bytes
      BY <1>1, <2>1, <2>5, Zenon
    <3>2. ha \in Nat /\ ~ (ha < Radix)
      BY <2>1
    <3> HIDE DEF ha, low
    <3>3. ha = b
      BY <2>2, <3>1, <3>2, Zenon
    <3> QED
      BY <2>5, <3>2, <3>3
  <2>6. CASE ~ (a < Radix) /\ ~ (b < Radix)
    <3>1. <<ha>> \o (low(a) \o s) = <<hb>> \o (low(b) \o t)
          /\ low(a) \o s \in Bytes /\ low(b) \o t \in Bytes
      BY <1>1, <2>1, <2>6, Zenon
    <3>2. ha \in Nat /\ hb \in Nat
      BY <2>1
    <3>3. ha = hb => a % Radix = b % Radix
      <4>1. a % Radix \in Nat /\ b % Radix \in Nat
        BY Digits
      <4> DEFINE ra == a % Radix
                 rb == b % Radix
      <4> HIDE DEF ra, rb
      <4>2. ra + Radix = rb + Radix => ra = rb
        BY <1>0, <4>1 DEF ra, rb
      <4> QED
        BY <4>2 DEF ra, rb
    <3> HIDE DEF ha, hb, low
    <3>4. ha = hb
      BY <2>2, <3>1, <3>2, Zenon
    <3>5. low(a) \o s = low(b) \o t
      <4>1. Apart(<<ha>>, <<hb>>)
        BY <3>2, OneByte
      <4> QED
        BY <3>1, <4>1, Zenon DEF Apart
    <3>6. a % Radix = b % Radix
      BY <3>3, <3>4, Zenon
    <3> QED
      BY <2>6, <3>5, <3>6, Zenon DEF low, Alike
  <2> QED
    BY <2>3, <2>4, <2>5, <2>6 DEF Alike
<1>2. ASSUME NEW a \in Nat, NEW b \in Nat, NEW s \in Bytes, NEW t \in Bytes,
             Leb128[a] \o s = Leb128[b] \o t
      PROVE  a = b /\ s = t
  <2> DEFINE Same(x) == \A y \in Nat, u, v \in Bytes :
                          Leb128[x] \o u = Leb128[y] \o v => x = y /\ u = v
             T == {x \in Nat : ~ Same(x)}
  <2>1. CASE T = {}
    <3> HIDE DEF Same
    <3>1. Same(a)
      BY <2>1
    <3> QED
      BY <1>2, <3>1, Zenon DEF Same
  <2>2. CASE T # {}
    <3> HIDE DEF Same
    <3>1. PICK m \in T : \A k \in T : m <= k
      BY <2>2, LeastElement
    <3>2. m \in Nat /\ ~ Same(m) /\ \A k \in Nat : ~ (m <= k) => Same(k)
      BY <3>1
    <3>3. PICK y \in Nat, u \in Bytes, v \in Bytes :
            Leb128[m] \o u = Leb128[y] \o v /\ ~ (m = y /\ u = v)
      BY <3>2 DEF Same
    <3>4. Alike(m, y, u, v)
      BY <1>1, <3>2, <3>3, Zenon
    <3>a. /\ ~ (m < Radix) /\ m % Radix = y % Radix
          /\ Leb128[m \div Radix] \o u = Leb128[y \div Radix] \o v
      BY <3>3, <3>4, Zenon DEF Alike
    <3>b. m \div Radix \in Nat /\ ~ (m <= m \div Radix)
      BY <3>2, <3>a, Digits
    <3>5. Same(m \div Radix)
      BY <3>2, <3>b
    <3>6. y \div Radix \in Nat
      BY Digits
    <3>7. m \div Radix = y \div Radix /\ u = v
      BY <3>a, <3>5, <3>6, Zenon DEF Same
    <3>8. m = Radix * (m \div Radix) + (m % Radix) /\ y = Radix * (y \div Radix) + (y % Radix)
      BY <3>2, Digits
    <3>9. m = y
      BY <3>a, <3>7, <3>8, Zenon
    <3> QED
      BY <3>3, <3>7, <3>9
  <2> QED
    BY <2>1, <2>2
<1>3. ASSUME NEW a \in Nat, NEW b \in Nat
      PROVE  Apart(Leb128[a], Leb128[b]) /\ (Leb128[a] = Leb128[b] => a = b)
  <2>1. Apart(Leb128[a], Leb128[b])
    <3> SUFFICES ASSUME NEW s \in Bytes, NEW t \in Bytes, Leb128[a] \o s = Leb128[b] \o t
                 PROVE  Leb128[a] = Leb128[b] /\ s = t
      BY DEF Apart
    <3>1. a = b
      BY <1>2, Zenon
    <3>2. Leb128[a] \in Bytes /\ Leb128[a] \o s = Leb128[a] \o t
      BY <1>0, <3>1
    <3>3. s = t
      BY <3>2, CatCancel, Zenon
    <3> QED
      BY <3>1, <3>3, Zenon
  <2>2. Leb128[a] = Leb128[b] => a = b
    <3>1. << >> \in Bytes
      BY Cat
    <3> QED
      BY <1>2, <3>1, Zenon
  <2> QED
    BY <2>1, <2>2
<1> QED
  BY <1>0, <1>3 DEF Code

\* A string after its length.
LEMMA PrefixedApart ==
  ASSUME NEW a \in Bytes, NEW b \in Bytes
  PROVE  /\ Prefixed(a) \in Bytes /\ Apart(Prefixed(a), Prefixed(b))
         /\ Prefixed(a) = Prefixed(b) => a = b
<1>0. Len(a) \in Nat /\ Len(b) \in Nat
  BY LenProperties DEF Bytes
<1>1. /\ Leb128[Len(a)] \in Bytes /\ Leb128[Len(b)] \in Bytes
      /\ Apart(Leb128[Len(a)], Leb128[Len(b)])
      /\ Leb128[Len(a)] = Leb128[Len(b)] => Len(a) = Len(b)
  BY <1>0, LebCode DEF Code
<1>2. ASSUME NEW s \in Bytes, NEW t \in Bytes, Prefixed(a) \o s = Prefixed(b) \o t
      PROVE  a = b /\ s = t
  <2>1. Associative(Leb128[Len(a)], a, s)
    BY <1>1, CatAssociative
  <2>2. Associative(Leb128[Len(b)], b, t)
    BY <1>1, CatAssociative
  <2>3. Leb128[Len(a)] \o (a \o s) = Leb128[Len(b)] \o (b \o t)
    BY <1>2, <2>1, <2>2, Zenon DEF Prefixed, Associative
  <2>4. a \o s \in Bytes /\ b \o t \in Bytes
    BY Cat, Zenon
  <2>5. Leb128[Len(a)] = Leb128[Len(b)] /\ a \o s = b \o t
    BY <1>1, <2>3, <2>4, Zenon DEF Apart
  <2>6. Apart(a, b)
    BY <1>1, <2>5, SameLength
  <2> QED
    BY <2>5, <2>6, Zenon DEF Apart
<1>3. Prefixed(a) \in Bytes /\ Prefixed(b) \in Bytes
  BY <1>1, Cat, Zenon DEF Prefixed
<1>4. Prefixed(a) = Prefixed(b) => a = b
  <2>1. << >> \in Bytes
    BY Cat
  <2> QED
    BY <1>2, <2>1, Zenon
<1> QED
  BY <1>2, <1>3, <1>4, Zenon DEF Apart
-----------------------------------------------------------------------------
\* The records of a section, one after the other.
LEMMA Flatten ==
  ASSUME NEW q \in Seq(Bytes)
  PROVE  \E f \in [Nat -> Bytes] :
           /\ f[0] = << >> /\ FlattenSeq(q) = f[Len(q)]
           /\ \A i \in 1..Len(q) : f[i] = f[i - 1] \o q[i]
<1> DEFINE n == Len(q)
           D == {i \in Nat : 2 <= i /\ i <= n}
           h == [i \in Nat |-> IF i = 0 THEN 0 ELSE i - 1]
           base == [i \in Nat |-> IF i \in 1..n THEN q[i] ELSE << >>]
           step == [i \in Nat |-> [w \in Bytes |-> w \o base[i]]]
           Next1(g) == [i \in 1..n |-> IF i = 1 THEN q[i] ELSE g[i - 1] \o q[i]]
<1>0. n \in Nat /\ \A i \in 1..n : q[i] \in Bytes
  BY ElementOfSeq, LenProperties
<1>1. h \in [Nat -> Nat] /\ \A i \in D : h[i] < i
  OBVIOUS
<1>2. base \in [Nat -> Bytes] /\ \A i \in 1..n : base[i] = q[i]
  BY <1>0, Cat
<1>3. step \in [Nat -> [Bytes -> Bytes]] /\ \A i \in Nat, w \in Bytes : step[i][w] = w \o base[i]
  <2> HIDE DEF base
  <2>1. \A i \in Nat, w \in Bytes : w \o base[i] \in Bytes
    BY <1>2, Cat
  <2> QED
    BY <2>1
<1>4. PICK F \in [Nat -> Bytes] : Solves(F, D, h, base, step)
  <2>1. D \in SUBSET Nat
    OBVIOUS
  <2> HIDE DEF D, h, base, step
  <2> QED
    BY <1>1, <1>2, <1>3, <2>1, Recursion, Zenon
<1>5. \A i \in 1..n : F[i] = IF i = 1 THEN q[i] ELSE F[i - 1] \o q[i]
  <2> SUFFICES ASSUME NEW i \in 1..n PROVE F[i] = IF i = 1 THEN q[i] ELSE F[i - 1] \o q[i]
    OBVIOUS
  <2>1. i \in Nat /\ (i \in D <=> i # 1) /\ h[i] = i - 1 /\ i - 1 \in Nat
    BY <1>0
  <2>2. base[i] = q[i]
    BY <1>2
  <2>3. F[i] = IF i \in D THEN step[i][F[h[i]]] ELSE base[i]
    BY <1>4, <2>1, Zenon DEF Solves
  <2> HIDE DEF base, step, D, h
  <2>4. F[i - 1] \in Bytes
    BY <2>1
  <2>5. step[i][F[i - 1]] = F[i - 1] \o q[i]
    BY <1>3, <2>1, <2>2, <2>4, Zenon
  <2> QED
    BY <2>1, <2>2, <2>3, <2>5, Zenon
<1> DEFINE G == [i \in 1..n |-> F[i]]
           fl == CHOOSE g : g = Next1(g)
<1>6. G = Next1(G)
  <2>1. \A i \in 1..n : G[i] = IF i = 1 THEN q[i] ELSE G[i - 1] \o q[i]
    <3> SUFFICES ASSUME NEW i \in 1..n PROVE G[i] = IF i = 1 THEN q[i] ELSE G[i - 1] \o q[i]
      OBVIOUS
    <3>1. i # 1 => i - 1 \in 1..n
      BY <1>0
    <3>2. G[i] = F[i] /\ (i # 1 => G[i - 1] = F[i - 1])
      BY <3>1
    <3> HIDE DEF G
    <3> QED
      BY <1>5, <3>2, Zenon
  <2>2. G = [i \in 1..n |-> G[i]]
    OBVIOUS
  <2> HIDE DEF G
  <2> QED
    BY <2>1, <2>2
<1>7. n # 0 => FlattenSeq(q) = fl[n]
  BY DEF FlattenSeq
<1>8. fl = Next1(fl)
  <2> HIDE DEF Next1, G
  <2> QED
    BY <1>6
<1> HIDE DEF fl, G
<1>9. \A i \in 1..n : fl[i] = IF i = 1 THEN q[i] ELSE fl[i - 1] \o q[i]
  BY <1>8
<1>10. ASSUME NEW k \in 1..n PROVE fl[k] \in Bytes
  <2> DEFINE T == {i \in 1..n : fl[i] \notin Bytes}
  <2>1. CASE T = {}
    BY <2>1
  <2>2. CASE T # {}
    <3>0. T \subseteq Nat
      BY <1>0
    <3>1. PICK m \in T : \A i \in T : m <= i
      BY <2>2, <3>0, LeastElement
    <3>2. m \in 1..n /\ m \in Nat /\ fl[m] \notin Bytes /\ \A i \in 1..n : ~ (m <= i) => fl[i] \in Bytes
      BY <3>0, <3>1
    <3>3. m # 1
      BY <1>0, <1>9, <3>2, Zenon
    <3>4. m - 1 \in 1..n /\ ~ (m <= m - 1)
      BY <1>0, <3>2, <3>3
    <3>5. fl[m - 1] \in Bytes /\ q[m] \in Bytes /\ fl[m] = fl[m - 1] \o q[m]
      BY <1>0, <1>9, <3>2, <3>3, <3>4, Zenon
    <3>6. fl[m - 1] \o q[m] \in Bytes
      BY <3>5, Cat, Zenon
    <3> QED
      BY <3>2, <3>5, <3>6, Zenon
  <2> QED
    BY <2>1, <2>2
<1> DEFINE f == [i \in Nat |-> IF i \in 1..n THEN fl[i] ELSE << >>]
<1>11. f \in [Nat -> Bytes] /\ f[0] = << >> /\ \A i \in 1..n : f[i] = fl[i]
  BY <1>0, <1>10, Cat
<1>12. FlattenSeq(q) = f[n]
  <2>1. CASE n = 0
    <3>1. FlattenSeq(q) = q /\ q = << >>
      BY <2>1, EmptySeq DEF FlattenSeq
    <3> QED
      BY <1>11, <2>1, <3>1
  <2>2. CASE n # 0
    <3>1. n \in 1..n
      BY <1>0, <2>2
    <3> HIDE DEF f
    <3> QED
      BY <1>7, <1>11, <2>2, <3>1, Zenon
  <2> QED
    BY <2>1, <2>2
<1>13. ASSUME NEW i \in 1..n PROVE f[i] = f[i - 1] \o q[i]
  <2> HIDE DEF f
  <2>1. q[i] \in Bytes /\ f[i] = fl[i]
    BY <1>0, <1>11
  <2>2. CASE i = 1
    <3>1. f[i] = q[i] /\ f[i - 1] = << >>
      BY <1>9, <1>11, <2>1, <2>2
    <3>2. << >> \o q[i] = q[i]
      BY <2>1, Cat, Zenon
    <3> QED
      BY <3>1, <3>2, Zenon
  <2>3. CASE i # 1
    <3>1. i - 1 \in 1..n
      BY <1>0, <2>3
    <3>2. f[i - 1] = fl[i - 1]
      BY <1>11, <3>1, Zenon
    <3> QED
      BY <1>9, <2>1, <2>3, <3>2, Zenon
  <2> QED
    BY <2>2, <2>3
<1> HIDE DEF f, n
<1> QED
  BY <1>11, <1>12, <1>13 DEF n

\* Sections of as many records tell their records apart, one by one.
Written(W, r) == FlattenSeq([i \in DOMAIN r |-> W[r[i]]])

LEMMA WrittenApart ==
  ASSUME NEW A, NEW W \in Code(A), NEW r \in Seq(A), NEW p \in Seq(A)
  PROVE  /\ Written(W, r) \in Bytes
         /\ Len(r) = Len(p) => /\ Apart(Written(W, r), Written(W, p))
                               /\ Written(W, r) = Written(W, p) => r = p
<1> DEFINE q(c) == [i \in DOMAIN c |-> W[c[i]]]
<1>0. /\ W \in [A -> Bytes]
      /\ \A a, b \in A : Apart(W[a], W[b]) /\ (W[a] = W[b] => a = b)
  BY DEF Code
<1>1. ASSUME NEW c \in Seq(A)
      PROVE  /\ q(c) \in Seq(Bytes) /\ Len(q(c)) = Len(c) /\ Len(c) \in Nat
             /\ \A i \in 1..Len(c) : c[i] \in A /\ q(c)[i] = W[c[i]] /\ W[c[i]] \in Bytes
  <2>1. Len(c) \in Nat /\ DOMAIN c = 1..Len(c) /\ \A i \in 1..Len(c) : c[i] \in A
    BY ElementOfSeq, LenProperties
  <2>2. \A i \in 1..Len(c) : W[c[i]] \in Bytes
    BY <1>0, <2>1
  <2> QED
    BY <2>1, <2>2
<1>2. ASSUME NEW c \in Seq(A)
      PROVE  \E f \in [Nat -> Bytes] :
               /\ f[0] = << >> /\ Written(W, c) = f[Len(c)]
               /\ \A i \in 1..Len(c) : f[i] = f[i - 1] \o W[c[i]]
  <2>1. PICK f \in [Nat -> Bytes] :
               /\ f[0] = << >> /\ FlattenSeq(q(c)) = f[Len(q(c))]
               /\ \A i \in 1..Len(q(c)) : f[i] = f[i - 1] \o q(c)[i]
    BY <1>1, Flatten
  <2>2. \A i \in 1..Len(c) : f[i] = f[i - 1] \o W[c[i]]
    BY <1>1, <2>1, Zenon
  <2>3. Written(W, c) = f[Len(c)]
    BY <1>1, <2>1, Zenon DEF Written
  <2> QED
    BY <2>1, <2>2, <2>3
<1>3. PICK f \in [Nat -> Bytes] :
        /\ f[0] = << >> /\ Written(W, r) = f[Len(r)]
        /\ \A i \in 1..Len(r) : f[i] = f[i - 1] \o W[r[i]]
  BY <1>2
<1>4. PICK g \in [Nat -> Bytes] :
        /\ g[0] = << >> /\ Written(W, p) = g[Len(p)]
        /\ \A i \in 1..Len(p) : g[i] = g[i - 1] \o W[p[i]]
  BY <1>2
<1>5. Written(W, r) \in Bytes
  BY <1>1, <1>3
<1>6. ASSUME Len(r) = Len(p)
      PROVE  /\ Apart(Written(W, r), Written(W, p))
             /\ Written(W, r) = Written(W, p) => r = p
  <2> DEFINE n == Len(r)
             Told(k) == /\ Apart(f[k], g[k])
                        /\ f[k] = g[k] => \A i \in 1..k : r[i] = p[i]
             T == {k \in 0..n : ~ Told(k)}
  <2>0. n \in Nat /\ 0 \in 0..n /\ n \in 0..n
    BY <1>1
  <2>1. Told(0)
    <3>1. f[0] \in Bytes /\ g[0] \in Bytes /\ Len(f[0]) = Len(g[0])
      BY <1>3, <1>4
    <3>2. Apart(f[0], g[0])
      BY <3>1, SameLength
    <3> QED
      BY <3>2
  <2>2. ASSUME NEW k \in 1..n, Told(k - 1) PROVE Told(k)
    <3>1. k - 1 \in Nat /\ k \in Nat /\ k \in 1..Len(r) /\ k \in 1..Len(p)
      BY <1>6, <2>0
    <3>2. f[k - 1] \in Bytes /\ g[k - 1] \in Bytes
      BY <3>1
    <3>3. r[k] \in A /\ p[k] \in A /\ W[r[k]] \in Bytes /\ W[p[k]] \in Bytes
      BY <1>1, <3>1
    <3>4. Apart(W[r[k]], W[p[k]]) /\ (W[r[k]] = W[p[k]] => r[k] = p[k])
      BY <1>0, <3>3
    <3>5. f[k] = f[k - 1] \o W[r[k]] /\ g[k] = g[k - 1] \o W[p[k]]
      BY <1>3, <1>4, <3>1, Zenon
    <3>6. PICK x, y, u, v : x = f[k - 1] /\ y = g[k - 1] /\ u = W[r[k]] /\ v = W[p[k]]
      OBVIOUS
    <3>7. x \in Bytes /\ y \in Bytes /\ u \in Bytes /\ v \in Bytes /\ Apart(x, y) /\ Apart(u, v)
      BY <2>2, <3>2, <3>3, <3>4, <3>6, Zenon
    <3>8. Apart(x \o u, y \o v) /\ (x \o u = y \o v => x = y /\ u = v)
      BY <3>7, ApartConcat
    <3>9. f[k] = x \o u /\ g[k] = y \o v
      BY <3>5, <3>6, Zenon
    <3>10. ASSUME f[k] = g[k], NEW i \in 1..k PROVE r[i] = p[i]
      <4>1. x = y /\ u = v
        BY <3>8, <3>9, <3>10, Zenon
      <4>2. f[k - 1] = g[k - 1] /\ r[k] = p[k]
        BY <3>4, <3>6, <4>1, Zenon
      <4>3. i = k \/ i \in 1..k-1
        BY <3>1
      <4> QED
        BY <2>2, <4>2, <4>3, Zenon
    <3>11. Apart(f[k], g[k])
      BY <3>8, <3>9, Zenon
    <3> QED
      BY <3>10, <3>11
  <2> HIDE DEF Told
  <2>3. Told(n)
    <3>1. CASE T = {}
      BY <2>0, <3>1
    <3>2. CASE T # {}
      <4>0. T \subseteq Nat
        BY <2>0
      <4>1. PICK m \in T : \A k \in T : m <= k
        BY <3>2, <4>0, LeastElement
      <4>2. m \in 0..n /\ ~ Told(m) /\ \A k \in 0..n : ~ (m <= k) => Told(k)
        BY <4>1
      <4>3. m # 0
        BY <2>1, <4>2
      <4>4. m \in 1..n /\ m - 1 \in 0..n /\ ~ (m <= m - 1)
        BY <2>0, <4>2, <4>3
      <4>5. Told(m - 1)
        BY <4>2, <4>4, Zenon
      <4> QED
        BY <2>2, <4>2, <4>4, <4>5
    <3> QED
      BY <3>1, <3>2
  <2>4. Apart(f[n], g[n])
    BY <2>3 DEF Told
  <2>5. ASSUME f[n] = g[n] PROVE r = p
    <3>1. \A i \in 1..Len(r) : r[i] = p[i]
      BY <2>3, <2>5 DEF Told
    <3> QED
      BY <1>6, <3>1, SeqEqual
  <2> QED
    BY <1>3, <1>4, <1>6, <2>4, <2>5, Zenon
<1> QED
  BY <1>5, <1>6

\* A section, its count first.
Section(W, r) == Leb128[Len(r)] \o Written(W, r)

LEMMA SectionApart ==
  ASSUME NEW A, NEW W \in Code(A), NEW r \in Seq(A), NEW p \in Seq(A)
  PROVE  /\ Section(W, r) \in Bytes /\ Section(W, p) \in Bytes
         /\ Apart(Section(W, r), Section(W, p))
         /\ Section(W, r) = Section(W, p) => r = p
<1> DEFINE a == Leb128[Len(r)]
           b == Leb128[Len(p)]
           u == Written(W, r)
           v == Written(W, p)
<1>0. Len(r) \in Nat /\ Len(p) \in Nat
  BY LenProperties
<1>1. a \in Bytes /\ b \in Bytes /\ Apart(a, b) /\ (a = b => Len(r) = Len(p))
  BY <1>0, LebCode DEF Code
<1>2. u \in Bytes /\ v \in Bytes /\ (Len(r) = Len(p) => Apart(u, v) /\ (u = v => r = p))
  BY WrittenApart
<1>3. PICK x, y : x = Section(W, r) /\ y = Section(W, p) /\ x = a \o u /\ y = b \o v
  BY DEF Section
<1> HIDE DEF a, b, u, v
<1>4. ASSUME NEW s \in Bytes, NEW t \in Bytes, x \o s = y \o t
      PROVE  r = p /\ s = t
  <2>1. Associative(a, u, s)
    BY <1>1, <1>2, CatAssociative
  <2>2. Associative(b, v, t)
    BY <1>1, <1>2, CatAssociative
  <2>3. a \o (u \o s) = b \o (v \o t)
    BY <1>3, <1>4, <2>1, <2>2, Zenon DEF Associative
  <2>4. u \o s \in Bytes /\ v \o t \in Bytes
    BY <1>2, Cat, Zenon
  <2>5. a = b /\ u \o s = v \o t
    BY <1>1, <2>3, <2>4, Zenon DEF Apart
  <2>6. u = v /\ s = t
    BY <1>1, <1>2, <2>5, Zenon DEF Apart
  <2> QED
    BY <1>1, <1>2, <2>5, <2>6, Zenon
<1>5. x \in Bytes /\ y \in Bytes
  <2>1. a \o u \in Bytes /\ b \o v \in Bytes
    BY <1>1, <1>2, Cat
  <2> QED
    BY <1>3, <2>1, Zenon
<1>6. x = y => r = p
  <2>1. << >> \in Bytes
    BY Cat
  <2> QED
    BY <1>4, <2>1, Zenon
<1>7. r = p => x = y
  BY <1>3, Zenon
<1>8. Apart(x, y)
  BY <1>4, <1>7, Zenon DEF Apart
<1> QED
  BY <1>3, <1>5, <1>6, <1>8, Zenon
-----------------------------------------------------------------------------
\* The records of each section.
OpRecords == [op_index : Nat, op_name : Bytes, layer : Nat,
              input_hash : Hash, params_hash : Hash, output_hash : Hash]
ActivationRecords == [act_index : Nat, token_index : Nat, layer : Nat,
                      checkpoint : Bytes, tensor_hash : Hash]
InterventionRecords == [intv_index : Nat, token_index : Nat, layer : Nat,
                        checkpoint : Bytes, replacement_hash : Hash]

LEMMA HashApart ==
  ASSUME NEW a \in Hash, NEW b \in Hash
  PROVE  a \in Bytes /\ b \in Bytes /\ Apart(a, b)
<1>1. HashLen \in Nat
  BY ReceiptAssumption DEF ReceiptAssumption
<1>2. a \in Bytes /\ b \in Bytes /\ Len(a) = Len(b)
  BY <1>1 DEF Hash, Bytes
<1> QED
  BY <1>2, SameLength

LEMMA NumberApart ==
  ASSUME NEW a \in Nat, NEW b \in Nat
  PROVE  /\ Leb128[a] \in Bytes /\ Leb128[b] \in Bytes /\ Apart(Leb128[a], Leb128[b])
         /\ Leb128[a] = Leb128[b] => a = b
BY LebCode DEF Code

LEMMA FieldCode == [f \in Fields |-> WriteField(f)] \in Code(Fields)
<1> DEFINE W == [f \in Fields |-> WriteField(f)]
<1>1. ASSUME NEW f \in Fields, NEW g \in Fields
      PROVE  /\ WriteField(f) \in Bytes /\ Apart(WriteField(f), WriteField(g))
             /\ WriteField(f) = WriteField(g) => f = g
  <2>1. /\ f.name \in Bytes /\ g.name \in Bytes /\ f.bytes \in Bytes /\ g.bytes \in Bytes
        /\ f.name = g.name /\ f.bytes = g.bytes => f = g
    BY DEF Fields
  <2>2. /\ Prefixed(f.name) \in Bytes /\ Prefixed(g.name) \in Bytes
        /\ Apart(Prefixed(f.name), Prefixed(g.name))
        /\ Prefixed(f.name) = Prefixed(g.name) => f.name = g.name
    BY <2>1, PrefixedApart
  <2>3. /\ Prefixed(f.bytes) \in Bytes /\ Prefixed(g.bytes) \in Bytes
        /\ Apart(Prefixed(f.bytes), Prefixed(g.bytes))
        /\ Prefixed(f.bytes) = Prefixed(g.bytes) => f.bytes = g.bytes
    BY <2>1, PrefixedApart
  <2>4. /\ WriteField(f) \in Bytes /\ Apart(WriteField(f), WriteField(g))
        /\ WriteField(f) = WriteField(g) =>
             Prefixed(f.name) = Prefixed(g.name) /\ Prefixed(f.bytes) = Prefixed(g.bytes)
    BY <2>2, <2>3, ApartConcat DEF WriteField
  <2> QED
    BY <2>1, <2>2, <2>3, <2>4
<1>2. W \in [Fields -> Bytes] /\ \A f \in Fields : W[f] = WriteField(f)
  BY <1>1
<1> HIDE DEF W
<1> QED
  BY <1>1, <1>2 DEF Code, W

LEMMA OpCode == [c \in OpRecords |-> WriteOp(c)] \in Code(OpRecords)
<1> DEFINE W == [c \in OpRecords |-> WriteOp(c)]
           P1(c) == Leb128[c.op_index]
           P2(c) == Prefixed(c.op_name)
           P3(c) == Leb128[c.layer]
           P4(c) == c.input_hash
           P5(c) == c.params_hash
           P6(c) == c.output_hash
           U2(c) == P1(c) \o P2(c)
           U3(c) == U2(c) \o P3(c)
           U4(c) == U3(c) \o P4(c)
           U5(c) == U4(c) \o P5(c)
           U6(c) == U5(c) \o P6(c)
<1>0. \A c \in OpRecords : WriteOp(c) = U6(c)
  BY DEF WriteOp
<1>1. ASSUME NEW f \in OpRecords, NEW g \in OpRecords
      PROVE  /\ WriteOp(f) \in Bytes /\ Apart(WriteOp(f), WriteOp(g))
             /\ WriteOp(f) = WriteOp(g) => f = g
  <2>0. /\ f.op_index \in Nat /\ f.op_name \in Bytes /\ f.layer \in Nat
        /\ f.input_hash \in Hash /\ f.params_hash \in Hash /\ f.output_hash \in Hash
        /\ g.op_index \in Nat /\ g.op_name \in Bytes /\ g.layer \in Nat
        /\ g.input_hash \in Hash /\ g.params_hash \in Hash /\ g.output_hash \in Hash
        /\ f.op_index = g.op_index /\ f.op_name = g.op_name /\ f.layer = g.layer
             /\ f.input_hash = g.input_hash /\ f.params_hash = g.params_hash /\ f.output_hash = g.output_hash
           => f = g
    BY DEF OpRecords
  <2>1. /\ P1(f) \in Bytes /\ P1(g) \in Bytes /\ Apart(P1(f), P1(g))
        /\ P1(f) = P1(g) => f.op_index = g.op_index
    BY <2>0, NumberApart
  <2>2. /\ P2(f) \in Bytes /\ P2(g) \in Bytes /\ Apart(P2(f), P2(g))
        /\ P2(f) = P2(g) => f.op_name = g.op_name
    BY <2>0, PrefixedApart
  <2>3. /\ P3(f) \in Bytes /\ P3(g) \in Bytes /\ Apart(P3(f), P3(g))
        /\ P3(f) = P3(g) => f.layer = g.layer
    BY <2>0, NumberApart
  <2>4. /\ P4(f) \in Bytes /\ P4(g) \in Bytes /\ Apart(P4(f), P4(g))
        /\ P4(f) = P4(g) => f.input_hash = g.input_hash
    BY <2>0, HashApart
  <2>5. /\ P5(f) \in Bytes /\ P5(g) \in Bytes /\ Apart(P5(f), P5(g))
        /\ P5(f) = P5(g) => f.params_hash = g.params_hash
    BY <2>0, HashApart
  <2>6. /\ P6(f) \in Bytes /\ P6(g) \in Bytes /\ Apart(P6(f), P6(g))
        /\ P6(f) = P6(g) => f.output_hash = g.output_hash
    BY <2>0, HashApart
  <2> HIDE DEF P1, P2, P3, P4, P5, P6
  <2>7. /\ U2(f) \in Bytes /\ U2(g) \in Bytes /\ Apart(U2(f), U2(g))
        /\ U2(f) = U2(g) => P1(f) = P1(g) /\ P2(f) = P2(g)
    BY <2>1, <2>2, ApartConcat
  <2> HIDE DEF U2
  <2>8. /\ U3(f) \in Bytes /\ U3(g) \in Bytes /\ Apart(U3(f), U3(g))
        /\ U3(f) = U3(g) => U2(f) = U2(g) /\ P3(f) = P3(g)
    BY <2>7, <2>3, ApartConcat
  <2> HIDE DEF U3
  <2>9. /\ U4(f) \in Bytes /\ U4(g) \in Bytes /\ Apart(U4(f), U4(g))
        /\ U4(f) = U4(g) => U3(f) = U3(g) /\ P4(f) = P4(g)
    BY <2>8, <2>4, ApartConcat
  <2> HIDE DEF U4
  <2>10. /\ U5(f) \in Bytes /\ U5(g) \in Bytes /\ Apart(U5(f), U5(g))
         /\ U5(f) = U5(g) => U4(f) = U4(g) /\ P5(f) = P5(g)
    BY <2>9, <2>5, ApartConcat
  <2> HIDE DEF U5
  <2>11. /\ U6(f) \in Bytes /\ U6(g) \in Bytes /\ Apart(U6(f), U6(g))
         /\ U6(f) = U6(g) => U5(f) = U5(g) /\ P6(f) = P6(g)
    BY <2>10, <2>6, ApartConcat
  <2> HIDE DEF U6
  <2>12. U6(f) = U6(g) => f = g
    BY <2>0, <2>1, <2>2, <2>3, <2>4, <2>5, <2>6, <2>7, <2>8, <2>9, <2>10, <2>11
  <2> QED
    BY <1>0, <2>11, <2>12, Zenon
<1> HIDE DEF P1, P2, P3, P4, P5, P6, U2, U3, U4, U5, U6
<1>2. W \in [OpRecords -> Bytes] /\ \A f \in OpRecords : W[f] = WriteOp(f)
  BY <1>1
<1> HIDE DEF W
<1> QED
  BY <1>1, <1>2 DEF Code, W

LEMMA ActivationCode == [c \in ActivationRecords |-> WriteActivation(c)] \in Code(ActivationRecords)
<1> DEFINE W == [c \in ActivationRecords |-> WriteActivation(c)]
           P1(c) == Leb128[c.act_index]
           P2(c) == Leb128[c.token_index]
           P3(c) == Leb128[c.layer]
           P4(c) == Prefixed(c.checkpoint)
           P5(c) == c.tensor_hash
           U2(c) == P1(c) \o P2(c)
           U3(c) == U2(c) \o P3(c)
           U4(c) == U3(c) \o P4(c)
           U5(c) == U4(c) \o P5(c)
<1>0. \A c \in ActivationRecords : WriteActivation(c) = U5(c)
  BY DEF WriteActivation
<1>1. ASSUME NEW f \in ActivationRecords, NEW g \in ActivationRecords
      PROVE  /\ WriteActivation(f) \in Bytes /\ Apart(WriteActivation(f), WriteActivation(g))
             /\ WriteActivation(f) = WriteActivation(g) => f = g
  <2>0. /\ f.act_index \in Nat /\ f.token_index \in Nat /\ f.layer \in Nat
        /\ f.checkpoint \in Bytes /\ f.tensor_hash \in Hash
        /\ g.act_index \in Nat /\ g.token_index \in Nat /\ g.layer \in Nat
        /\ g.checkpoint \in Bytes /\ g.tensor_hash \in Hash
        /\ f.act_index = g.act_index /\ f.token_index = g.token_index /\ f.layer = g.layer
             /\ f.checkpoint = g.checkpoint /\ f.tensor_hash = g.tensor_hash
           => f = g
    BY DEF ActivationRecords
  <2>1. /\ P1(f) \in Bytes /\ P1(g) \in Bytes /\ Apart(P1(f), P1(g))
        /\ P1(f) = P1(g) => f.act_index = g.act_index
    BY <2>0, NumberApart
  <2>2. /\ P2(f) \in Bytes /\ P2(g) \in Bytes /\ Apart(P2(f), P2(g))
        /\ P2(f) = P2(g) => f.token_index = g.token_index
    BY <2>0, NumberApart
  <2>3. /\ P3(f) \in Bytes /\ P3(g) \in Bytes /\ Apart(P3(f), P3(g))
        /\ P3(f) = P3(g) => f.layer = g.layer
    BY <2>0, NumberApart
  <2>4. /\ P4(f) \in Bytes /\ P4(g) \in Bytes /\ Apart(P4(f), P4(g))
        /\ P4(f) = P4(g) => f.checkpoint = g.checkpoint
    BY <2>0, PrefixedApart
  <2>5. /\ P5(f) \in Bytes /\ P5(g) \in Bytes /\ Apart(P5(f), P5(g))
        /\ P5(f) = P5(g) => f.tensor_hash = g.tensor_hash
    BY <2>0, HashApart
  <2> HIDE DEF P1, P2, P3, P4, P5
  <2>6. /\ U2(f) \in Bytes /\ U2(g) \in Bytes /\ Apart(U2(f), U2(g))
        /\ U2(f) = U2(g) => P1(f) = P1(g) /\ P2(f) = P2(g)
    BY <2>1, <2>2, ApartConcat
  <2> HIDE DEF U2
  <2>7. /\ U3(f) \in Bytes /\ U3(g) \in Bytes /\ Apart(U3(f), U3(g))
        /\ U3(f) = U3(g) => U2(f) = U2(g) /\ P3(f) = P3(g)
    BY <2>6, <2>3, ApartConcat
  <2> HIDE DEF U3
  <2>8. /\ U4(f) \in Bytes /\ U4(g) \in Bytes /\ Apart(U4(f), U4(g))
        /\ U4(f) = U4(g) => U3(f) = U3(g) /\ P4(f) = P4(g)
    BY <2>7, <2>4, ApartConcat
  <2> HIDE DEF U4
  <2>9. /\ U5(f) \in Bytes /\ U5(g) \in Bytes /\ Apart(U5(f), U5(g))
        /\ U5(f) = U5(g) => U4(f) = U4(g) /\ P5(f) = P5(g)
    BY <2>8, <2>5, ApartConcat
  <2> HIDE DEF U5
  <2>10. U5(f) = U5(g) => f = g
    BY <2>0, <2>1, <2>2, <2>3, <2>4, <2>5, <2>6, <2>7, <2>8, <2>9
  <2> QED
    BY <1>0, <2>9, <2>10, Zenon
<1> HIDE DEF P1, P2, P3, P4, P5, U2, U3, U4, U5
<1>2. W \in [ActivationRecords -> Bytes] /\ \A f \in ActivationRecords : W[f] = WriteActivation(f)
  BY <1>1
<1> HIDE DEF W
<1> QED
  BY <1>1, <1>2 DEF Code, W

LEMMA InterventionCode == [c \in InterventionRecords |-> WriteIntervention(c)] \in Code(InterventionRecords)
<1> DEFINE W == [c \in InterventionRecords |-> WriteIntervention(c)]
           P1(c) == Leb128[c.intv_index]
           P2(c) == Leb128[c.token_index]
           P3(c) == Leb128[c.layer]
           P4(c) == Prefixed(c.checkpoint)
           P5(c) == c.replacement_hash
           U2(c) == P1(c) \o P2(c)
           U3(c) == U2(c) \o P3(c)
           U4(c) == U3(c) \o P4(c)
           U5(c) == U4(c) \o P5(c)
<1>0. \A c \in InterventionRecords : WriteIntervention(c) = U5(c)
  BY DEF WriteIntervention
<1>1. ASSUME NEW f \in InterventionRecords, NEW g \in InterventionRecords
      PROVE  /\ WriteIntervention(f) \in Bytes /\ Apart(WriteIntervention(f), WriteIntervention(g))
             /\ WriteIntervention(f) = WriteIntervention(g) => f = g
  <2>0. /\ f.intv_index \in Nat /\ f.token_index \in Nat /\ f.layer \in Nat
        /\ f.checkpoint \in Bytes /\ f.replacement_hash \in Hash
        /\ g.intv_index \in Nat /\ g.token_index \in Nat /\ g.layer \in Nat
        /\ g.checkpoint \in Bytes /\ g.replacement_hash \in Hash
        /\ f.intv_index = g.intv_index /\ f.token_index = g.token_index /\ f.layer = g.layer
             /\ f.checkpoint = g.checkpoint /\ f.replacement_hash = g.replacement_hash
           => f = g
    BY DEF InterventionRecords
  <2>1. /\ P1(f) \in Bytes /\ P1(g) \in Bytes /\ Apart(P1(f), P1(g))
        /\ P1(f) = P1(g) => f.intv_index = g.intv_index
    BY <2>0, NumberApart
  <2>2. /\ P2(f) \in Bytes /\ P2(g) \in Bytes /\ Apart(P2(f), P2(g))
        /\ P2(f) = P2(g) => f.token_index = g.token_index
    BY <2>0, NumberApart
  <2>3. /\ P3(f) \in Bytes /\ P3(g) \in Bytes /\ Apart(P3(f), P3(g))
        /\ P3(f) = P3(g) => f.layer = g.layer
    BY <2>0, NumberApart
  <2>4. /\ P4(f) \in Bytes /\ P4(g) \in Bytes /\ Apart(P4(f), P4(g))
        /\ P4(f) = P4(g) => f.checkpoint = g.checkpoint
    BY <2>0, PrefixedApart
  <2>5. /\ P5(f) \in Bytes /\ P5(g) \in Bytes /\ Apart(P5(f), P5(g))
        /\ P5(f) = P5(g) => f.replacement_hash = g.replacement_hash
    BY <2>0, HashApart
  <2> HIDE DEF P1, P2, P3, P4, P5
  <2>6. /\ U2(f) \in Bytes /\ U2(g) \in Bytes /\ Apart(U2(f), U2(g))
        /\ U2(f) = U2(g) => P1(f) = P1(g) /\ P2(f) = P2(g)
    BY <2>1, <2>2, ApartConcat
  <2> HIDE DEF U2
  <2>7. /\ U3(f) \in Bytes /\ U3(g) \in Bytes /\ Apart(U3(f), U3(g))
        /\ U3(f) = U3(g) => U2(f) = U2(g) /\ P3(f) = P3(g)
    BY <2>6, <2>3, ApartConcat
  <2> HIDE DEF U3
  <2>8. /\ U4(f) \in Bytes /\ U4(g) \in Bytes /\ Apart(U4(f), U4(g))
        /\ U4(f) = U4(g) => U3(f) = U3(g) /\ P4(f) = P4(g)
    BY <2>7, <2>4, ApartConcat
  <2> HIDE DEF U4
  <2>9. /\ U5(f) \in Bytes /\ U5(g) \in Bytes /\ Apart(U5(f), U5(g))
        /\ U5(f) = U5(g) => U4(f) = U4(g) /\ P5(f) = P5(g)
    BY <2>8, <2>5, ApartConcat
  <2> HIDE DEF U5
  <2>10. U5(f) = U5(g) => f = g
    BY <2>0, <2>1, <2>2, <2>3, <2>4, <2>5, <2>6, <2>7, <2>8, <2>9
  <2> QED
    BY <1>0, <2>9, <2>10, Zenon
<1> HIDE DEF P1, P2, P3, P4, P5, U2, U3, U4, U5
<1>2. W \in [InterventionRecords -> Bytes] /\ \A f \in InterventionRecords : W[f] = WriteIntervention(f)
  BY <1>1
<1> HIDE DEF W
<1> QED
  BY <1>1, <1>2 DEF Code, W

\* The sections as they are written.
LEMMA FieldsApart ==
  ASSUME NEW r \in Seq(Fields), NEW p \in Seq(Fields)
  PROVE  /\ Counted(r, WriteField) \in Bytes /\ Counted(p, WriteField) \in Bytes
         /\ Apart(Counted(r, WriteField), Counted(p, WriteField))
         /\ Counted(r, WriteField) = Counted(p, WriteField) => r = p
<1> DEFINE W == [c \in Fields |-> WriteField(c)]
<1>1. W \in Code(Fields)
  BY FieldCode
<1>2. ASSUME NEW c \in Seq(Fields)
      PROVE  Counted(c, WriteField) = Section(W, c)
  <2>1. \A i \in DOMAIN c : W[c[i]] = WriteField(c[i])
    BY ElementOfSeq, LenProperties
  <2>2. [i \in DOMAIN c |-> W[c[i]]] = [i \in DOMAIN c |-> WriteField(c[i])]
    BY <2>1, Zenon
  <2> HIDE DEF W
  <2> QED
    BY <2>2, Zenon DEF Counted, Written, Section
<1> HIDE DEF W
<1>3. /\ Section(W, r) \in Bytes /\ Section(W, p) \in Bytes
      /\ Apart(Section(W, r), Section(W, p))
      /\ Section(W, r) = Section(W, p) => r = p
  BY <1>1, SectionApart
<1> QED
  BY <1>2, <1>3, Zenon

LEMMA OpsApart ==
  ASSUME NEW r \in Seq(OpRecords), NEW p \in Seq(OpRecords)
  PROVE  /\ Counted(r, WriteOp) \in Bytes /\ Counted(p, WriteOp) \in Bytes
         /\ Apart(Counted(r, WriteOp), Counted(p, WriteOp))
         /\ Counted(r, WriteOp) = Counted(p, WriteOp) => r = p
<1> DEFINE W == [c \in OpRecords |-> WriteOp(c)]
<1>1. W \in Code(OpRecords)
  BY OpCode
<1>2. ASSUME NEW c \in Seq(OpRecords)
      PROVE  Counted(c, WriteOp) = Section(W, c)
  <2>1. \A i \in DOMAIN c : W[c[i]] = WriteOp(c[i])
    BY ElementOfSeq, LenProperties
  <2>2. [i \in DOMAIN c |-> W[c[i]]] = [i \in DOMAIN c |-> WriteOp(c[i])]
    BY <2>1, Zenon
  <2> HIDE DEF W
  <2> QED
    BY <2>2, Zenon DEF Counted, Written, Section
<1> HIDE DEF W
<1>3. /\ Section(W, r) \in Bytes /\ Section(W, p) \in Bytes
      /\ Apart(Section(W, r), Section(W, p))
      /\ Section(W, r) = Section(W, p) => r = p
  BY <1>1, SectionApart
<1> QED
  BY <1>2, <1>3, Zenon

LEMMA ActivationsApart ==
  ASSUME NEW r \in Seq(ActivationRecords), NEW p \in Seq(ActivationRecords)
  PROVE  /\ Counted(r, WriteActivation) \in Bytes /\ Counted(p, WriteActivation) \in Bytes
         /\ Apart(Counted(r, WriteActivation), Counted(p, WriteActivation))
         /\ Counted(r, WriteActivation) = Counted(p, WriteActivation) => r = p
<1> DEFINE W == [c \in ActivationRecords |-> WriteActivation(c)]
<1>1. W \in Code(ActivationRecords)
  BY ActivationCode
<1>2. ASSUME NEW c \in Seq(ActivationRecords)
      PROVE  Counted(c, WriteActivation) = Section(W, c)
  <2>1. \A i \in DOMAIN c : W[c[i]] = WriteActivation(c[i])
    BY ElementOfSeq, LenProperties
  <2>2. [i \in DOMAIN c |-> W[c[i]]] = [i \in DOMAIN c |-> WriteActivation(c[i])]
    BY <2>1, Zenon
  <2> HIDE DEF W
  <2> QED
    BY <2>2, Zenon DEF Counted, Written, Section
<1> HIDE DEF W
<1>3. /\ Section(W, r) \in Bytes /\ Section(W, p) \in Bytes
      /\ Apart(Section(W, r), Section(W, p))
      /\ Section(W, r) = Section(W, p) => r = p
  BY <1>1, SectionApart
<1> QED
  BY <1>2, <1>3, Zenon

LEMMA InterventionsApart ==
  ASSUME NEW r \in Seq(InterventionRecords), NEW p \in Seq(InterventionRecords)
  PROVE  /\ Counted(r, WriteIntervention) \in Bytes /\ Counted(p, WriteIntervention) \in Bytes
         /\ Apart(Counted(r, WriteIntervention), Counted(p, WriteIntervention))
         /\ Counted(r, WriteIntervention) = Counted(p, WriteIntervention) => r = p
<1> DEFINE W == [c \in InterventionRecords |-> WriteIntervention(c)]
<1>1. W \in Code(InterventionRecords)
  BY InterventionCode
<1>2. ASSUME NEW c \in Seq(InterventionRecords)
      PROVE  Counted(c, WriteIntervention) = Section(W, c)
  <2>1. \A i \in DOMAIN c : W[c[i]] = WriteIntervention(c[i])
    BY ElementOfSeq, LenProperties
  <2>2. [i \in DOMAIN c |-> W[c[i]]] = [i \in DOMAIN c |-> WriteIntervention(c[i])]
    BY <2>1, Zenon
  <2> HIDE DEF W
  <2> QED
    BY <2>2, Zenon DEF Counted, Written, Section
<1> HIDE DEF W
<1>3. /\ Section(W, r) \in Bytes /\ Section(W, p) \in Bytes
      /\ Apart(Section(W, r), Section(W, p))
      /\ Section(W, r) = Section(W, p) => r = p
  BY <1>1, SectionApart
<1> QED
  BY <1>2, <1>3, Zenon


\* A receipt that was built.
IsReceipt(c) == /\ c.inputs \in Seq(Fields) /\ c.outputs \in Seq(Fields)
                /\ c.ops \in Seq(OpRecords) /\ c.activations \in Seq(ActivationRecords)
                /\ c.interventions \in Seq(InterventionRecords)

LEMMA SectionsApart ==
  ASSUME NEW f, NEW g, IsReceipt(f), IsReceipt(g)
  PROVE  /\ WriteSections(f) \in Bytes /\ WriteSections(g) \in Bytes
         /\ Apart(WriteSections(f), WriteSections(g))
         /\ WriteSections(f) = WriteSections(g) =>
              /\ f.inputs = g.inputs /\ f.outputs = g.outputs /\ f.ops = g.ops
              /\ f.activations = g.activations /\ f.interventions = g.interventions
<1> DEFINE P1(c) == Counted(c.inputs, WriteField)
           P2(c) == Counted(c.outputs, WriteField)
           P3(c) == Counted(c.ops, WriteOp)
           P4(c) == Counted(c.activations, WriteActivation)
           P5(c) == Counted(c.interventions, WriteIntervention)
           U2(c) == P1(c) \o P2(c)
           U3(c) == U2(c) \o P3(c)
           U4(c) == U3(c) \o P4(c)
           U5(c) == U4(c) \o P5(c)
<1>0. WriteSections(f) = U5(f) /\ WriteSections(g) = U5(g)
  BY DEF WriteSections
<1>1. /\ P1(f) \in Bytes /\ P1(g) \in Bytes /\ Apart(P1(f), P1(g))
      /\ P1(f) = P1(g) => f.inputs = g.inputs
  BY FieldsApart DEF IsReceipt
<1>2. /\ P2(f) \in Bytes /\ P2(g) \in Bytes /\ Apart(P2(f), P2(g))
      /\ P2(f) = P2(g) => f.outputs = g.outputs
  BY FieldsApart DEF IsReceipt
<1>3. /\ P3(f) \in Bytes /\ P3(g) \in Bytes /\ Apart(P3(f), P3(g))
      /\ P3(f) = P3(g) => f.ops = g.ops
  BY OpsApart DEF IsReceipt
<1>4. /\ P4(f) \in Bytes /\ P4(g) \in Bytes /\ Apart(P4(f), P4(g))
      /\ P4(f) = P4(g) => f.activations = g.activations
  BY ActivationsApart DEF IsReceipt
<1>5. /\ P5(f) \in Bytes /\ P5(g) \in Bytes /\ Apart(P5(f), P5(g))
      /\ P5(f) = P5(g) => f.interventions = g.interventions
  BY InterventionsApart DEF IsReceipt
<1> HIDE DEF P1, P2, P3, P4, P5
<1>6. /\ U2(f) \in Bytes /\ U2(g) \in Bytes /\ Apart(U2(f), U2(g))
      /\ U2(f) = U2(g) => P1(f) = P1(g) /\ P2(f) = P2(g)
  BY <1>1, <1>2, ApartConcat
<1> HIDE DEF U2
<1>7. /\ U3(f) \in Bytes /\ U3(g) \in Bytes /\ Apart(U3(f), U3(g))
      /\ U3(f) = U3(g) => U2(f) = U2(g) /\ P3(f) = P3(g)
  BY <1>6, <1>3, ApartConcat
<1> HIDE DEF U3
<1>8. /\ U4(f) \in Bytes /\ U4(g) \in Bytes /\ Apart(U4(f), U4(g))
      /\ U4(f) = U4(g) => U3(f) = U3(g) /\ P4(f) = P4(g)
  BY <1>7, <1>4, ApartConcat
<1> HIDE DEF U4
<1>9. /\ U5(f) \in Bytes /\ U5(g) \in Bytes /\ Apart(U5(f), U5(g))
      /\ U5(f) = U5(g) => U4(f) = U4(g) /\ P5(f) = P5(g)
  BY <1>8, <1>5, ApartConcat
<1> HIDE DEF U5
<1> QED
  BY <1>0, <1>1, <1>2, <1>3, <1>4, <1>5, <1>6, <1>7, <1>8, <1>9, Zenon

\* The digests' preimages.
LEMMA DigestsApart ==
  ASSUME NEW f, NEW g, IsReceipt(f), IsReceipt(g)
  PROVE  /\ DigestV2(f) = DigestV2(g) => WriteSections(f) = WriteSections(g)
         /\ DigestV1(f) = DigestV1(g) => WriteSections(f) = WriteSections(g)
         /\ DigestV1(f) # DigestV2(g)
<1> DEFINE x == WriteSections(f)
           y == WriteSections(g)
           r == Prefixed(RegimeBytes)
<1>0. RegimeBytes \in Bytes
  BY ReceiptAssumption DEF ReceiptAssumption
<1>1. x \in Bytes /\ y \in Bytes /\ r \in Bytes /\ Apart(r, r)
  BY <1>0, SectionsApart, PrefixedApart
<1>2. /\ DigestV1(f) = <<1>> \o x /\ DigestV1(g) = <<1>> \o y
      /\ DigestV2(f) = (<<2>> \o r) \o x /\ DigestV2(g) = (<<2>> \o r) \o y
  BY DEF DigestV1, DigestV2
<1>3. 1 \in Nat /\ 2 \in Nat /\ 1 # 2
  OBVIOUS
<1>4. <<1>> \in Bytes /\ <<2>> \in Bytes
  BY <1>3, OneByte
<1> HIDE DEF x, y, r
<1>5. Associative(<<2>>, r, x) /\ Associative(<<2>>, r, y)
  BY <1>1, <1>4, CatAssociative
<1>6. r \o x \in Bytes /\ r \o y \in Bytes
  BY <1>1, Cat, Zenon
<1>7. DigestV2(f) = <<2>> \o (r \o x) /\ DigestV2(g) = <<2>> \o (r \o y)
  BY <1>2, <1>5, Zenon DEF Associative
<1>8. ASSUME DigestV1(f) = DigestV1(g) PROVE x = y
  <2>1. Apart(<<1>>, <<1>>)
    BY <1>4, SameLength
  <2> QED
    BY <1>1, <1>2, <1>8, <2>1, Zenon DEF Apart
<1>9. ASSUME DigestV2(f) = DigestV2(g) PROVE x = y
  <2>1. Apart(<<2>>, <<2>>)
    BY <1>4, SameLength
  <2>2. r \o x = r \o y
    BY <1>6, <1>7, <1>9, <2>1, Zenon DEF Apart
  <2> QED
    BY <1>1, <2>2, Zenon DEF Apart
<1>10. ASSUME DigestV1(f) = DigestV2(g) PROVE FALSE
  <2>1. <<1>> \o x = <<2>> \o (r \o y)
    BY <1>2, <1>7, <1>10, Zenon
  <2>2. \A a, b \in Nat, s, t \in Bytes : <<a>> \o s = <<b>> \o t => a = b
    BY OneByte
  <2>3. 1 = 2
    BY <1>1, <1>3, <1>6, <2>1, <2>2, Zenon
  <2> QED
    BY <2>3
<1> QED
  BY <1>8, <1>9, <1>10 DEF x, y
-----------------------------------------------------------------------------
\* What a builder holds is a receipt.
LEMMA SeqWider ==
  ASSUME NEW A, NEW B, A \subseteq B, NEW s \in Seq(A)
  PROVE  s \in Seq(B)
<1>1. Len(s) \in Nat /\ s \in [1..Len(s) -> A]
  BY LenProperties
<1>2. s \in [1..Len(s) -> B]
  BY <1>1
<1> QED
  BY <1>1, <1>2

LEMMA RecordsFit ==
  /\ Record["inputs"] \subseteq Fields /\ Record["outputs"] \subseteq Fields
  /\ Record["ops"] \subseteq OpRecords /\ Record["activations"] \subseteq ActivationRecords
  /\ Record["interventions"] \subseteq InterventionRecords
<1>1. \A n \in Index : n \in Nat
  BY CertBuilderAssumption DEF CertBuilderAssumption, Index
<1>2. Record["inputs"] \subseteq Fields /\ Record["outputs"] \subseteq Fields
  BY RecordOf, ArgsAssumption DEF ArgsAssumption
<1>3. ASSUME NEW a \in OpArgs, NEW n \in Index PROVE OpRecord(a, n) \in OpRecords
  <2>1. a \in Ops /\ n \in Nat
    BY <1>1, ArgsAssumption DEF ArgsAssumption
  <2> QED
    BY <2>1 DEF OpRecord, OpRecords, Ops
<1>4. ASSUME NEW a \in ActivationArgs, NEW n \in Index
      PROVE  ActivationRecord(a, n) \in ActivationRecords
  <2>1. a \in Checkpoints /\ n \in Nat
    BY <1>1, ArgsAssumption DEF ArgsAssumption
  <2> QED
    BY <2>1 DEF ActivationRecord, ActivationRecords, Checkpoints
<1>5. ASSUME NEW a \in InterventionArgs, NEW n \in Index
      PROVE  InterventionRecord(a, n) \in InterventionRecords
  <2>1. a \in Checkpoints /\ n \in Nat
    BY <1>1, ArgsAssumption DEF ArgsAssumption
  <2> QED
    BY <2>1 DEF InterventionRecord, InterventionRecords, Checkpoints
<1> QED
  BY <1>2, <1>3, <1>4, <1>5, RecordOf

LEMMA BuiltIsReceipt == ASSUME NEW c, RecordsIn(c) PROVE IsReceipt(c)
<1>1. /\ c["inputs"] \in Seq(Record["inputs"]) /\ c["outputs"] \in Seq(Record["outputs"])
      /\ c["ops"] \in Seq(Record["ops"]) /\ c["activations"] \in Seq(Record["activations"])
      /\ c["interventions"] \in Seq(Record["interventions"])
  BY DEF RecordsIn, Sections
<1> QED
  BY <1>1, RecordsFit, SeqWider DEF IsReceipt

\* Inductive: every receipt returned was built.
Issued == CertInv /\ \A c \in software : RecordsIn(c)

LEMMA IssuedInvariant == Spec => []Issued
<1>1. Init => \A c \in software : RecordsIn(c)
  BY DEF Init
<1>2. ASSUME CertInv, \A c \in software : RecordsIn(c), [Next]_vars
      PROVE  \A c \in software' : RecordsIn(c)
  <2>1. software' = software \/ software' = software \cup {builder}
    BY <1>2 DEF Next, vars, DeclareInput, DeclareOutput, DeclareOp, DeclareActivation,
         DeclareIntervention, DeclareNumbered, Declare, Finalize, Abandon, OnRequest, OnRecord, NextSection,
         OnFinalize, SinkFails
  <2> QED
    BY <1>2, <2>1 DEF CertInv
<1>3. (\A c \in software : RecordsIn(c))' <=> \A c \in software' : RecordsIn(c)
  BY DEF RecordsIn, Buffers
<1> QED
  BY <1>1, <1>2, <1>3, CertInvariant, PTL DEF Spec, Issued

\* Two receipts whose digests are taken of the same bytes are the same receipt,
\* in version 2 and in version 1, and no version 1 preimage is a version 2 one
\* (the module doc of cert/mod.rs, builder.rs:434-439).
THEOREM ReceiptBound == Spec => []SameDigestSameReceipt
<1>1. ASSUME Issued PROVE SameDigestSameReceipt
  <2> SUFFICES ASSUME NEW a \in software, NEW b \in software
               PROVE  /\ DigestV2(a) = DigestV2(b) => a = b
                      /\ DigestV1(a) = DigestV1(b) => a = b
                      /\ DigestV1(a) # DigestV2(b)
    BY DEF SameDigestSameReceipt
  <2>1. RecordsIn(a) /\ RecordsIn(b)
    BY <1>1 DEF Issued
  <2>2. IsReceipt(a) /\ IsReceipt(b)
    BY <2>1, BuiltIsReceipt
  <2>3. WriteSections(a) = WriteSections(b) => a = b
    <3> SUFFICES ASSUME WriteSections(a) = WriteSections(b) PROVE a = b
      OBVIOUS
    <3>1. /\ a.inputs = b.inputs /\ a.outputs = b.outputs /\ a.ops = b.ops
          /\ a.activations = b.activations /\ a.interventions = b.interventions
      BY <2>2, SectionsApart
    <3>2. \A s \in Sections : a[s] = b[s]
      BY <3>1 DEF Sections
    <3>3. a = [s \in Sections |-> a[s]] /\ b = [s \in Sections |-> b[s]]
      BY <2>1 DEF RecordsIn, Buffers
    <3> QED
      BY <3>2, <3>3
  <2> QED
    BY <2>2, <2>3, DigestsApart
<1> QED
  BY <1>1, IssuedInvariant, PTL
=============================================================================
