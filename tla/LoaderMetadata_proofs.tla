------------------------ MODULE LoaderMetadata_proofs ------------------------
(***************************************************************************)
(* What the operations of LoaderMetadata do to its type and to its         *)
(* accounts, for every number of loads and every list of inputs.           *)
(***************************************************************************)
EXTENDS LoaderMetadata, SequenceTheorems, TLAPS

-----------------------------------------------------------------------------
(* Types.                                                                  *)

\* LoaderMetadata::default() is well typed.
LEMMA EmptyMetadataType == EmptyMetadata \in LoaderMetadataType
<1>1. <<>> \in Seq(Inputs) /\ <<>> \in Seq(RanInput)
  BY EmptySeq
<1>. QED
  BY <1>1 DEF EmptyMetadata, LoaderMetadataType, Loading, Running

\* The entry check of load keeps the metadata well typed.
LEMMA OpenLoadType ==
  ASSUME NEW md \in LoaderMetadataType, NEW l \in LoadIds
  PROVE  OpenLoad(md, l) \in LoaderMetadataType
<1>1. <<>> \in Seq(RanInput) /\ LoadInputs[l] \in Seq(Inputs)
  BY EmptySeq, LoadAssumption
<1>2. [opened |-> TRUE, inputs_to_run |-> LoadInputs[l], ran_inputs |-> <<>>] \in Loading
  BY <1>1 DEF Loading
<1>. QED
  BY <1>2 DEF OpenLoad, LoaderMetadataType

\* next_input keeps the metadata well typed.
LEMMA NextInputType ==
  ASSUME NEW md \in LoaderMetadataType, NEW l \in LoadIds
  PROVE  NextInput(md, l) \in LoaderMetadataType
<1>. DEFINE todo == md.loads[l].inputs_to_run
<1>1. md.loads[l] \in Loading /\ todo \in Seq(Inputs)
  BY DEF LoaderMetadataType, Loading
<1>2. CASE todo = <<>>
  BY <1>2 DEF NextInput, LoaderMetadataType, Running
<1>3. CASE todo # <<>>
  <2>1. Head(todo) \in Inputs /\ Tail(todo) \in Seq(Inputs)
    BY <1>1, <1>3, HeadTailProperties
  <2>2. [load |-> l, input |-> Head(todo)] \in Running
    BY <2>1 DEF Running
  <2>3. [md.loads[l] EXCEPT !.inputs_to_run = Tail(todo)] \in Loading
    BY <1>1, <2>1 DEF Loading
  <2>. QED
    BY <1>3, <2>2, <2>3 DEF NextInput, LoaderMetadataType
<1>. QED
  BY <1>2, <1>3

\* record_result keeps the metadata well typed.
LEMMA RecordResultType ==
  ASSUME NEW md \in LoaderMetadataType, NEW result \in EvaluationResult
  PROVE  RecordResult(md, result) \in LoaderMetadataType
<1>1. CASE md.running_input = NoInput
  BY <1>1 DEF RecordResult
<1>2. CASE md.running_input # NoInput
  <2>. DEFINE k == md.running_input.load
              e == [input |-> md.running_input.input, result |-> result]
  <2>1. k \in LoadIds /\ e \in RanInput
    BY <1>2 DEF LoaderMetadataType, Running, RanInput
  <2>2. md.loads[k] \in Loading
    BY <2>1 DEF LoaderMetadataType
  <2>3. Append(md.loads[k].ran_inputs, e) \in Seq(RanInput)
    BY <2>1, <2>2, AppendProperties DEF Loading
  <2>4. [md.loads[k] EXCEPT !.ran_inputs = Append(@, e)] \in Loading
    BY <2>2, <2>3 DEF Loading
  <2>. QED
    BY <1>2, <2>1, <2>4 DEF RecordResult, LoaderMetadataType, Running
<1>. QED
  BY <1>1, <1>2

\* take_ran_inputs keeps the metadata well typed.
LEMMA TakeRanInputsType ==
  ASSUME NEW md \in LoaderMetadataType, NEW l \in LoadIds
  PROVE  TakeRanInputs(md, l) \in LoaderMetadataType
<1>1. <<>> \in Seq(RanInput) /\ md.loads[l] \in Loading
  BY EmptySeq DEF LoaderMetadataType
<1>2. [md.loads[l] EXCEPT !.ran_inputs = <<>>] \in Loading
  BY <1>1 DEF Loading
<1>. QED
  BY <1>2 DEF TakeRanInputs, LoaderMetadataType

-----------------------------------------------------------------------------
(* Accounts.                                                               *)

\* The inputs of the results are a sequence of inputs.
LEMMA InputsOfType ==
  ASSUME NEW ran \in Seq(RanInput)
  PROVE  /\ InputsOf(ran) \in Seq(Inputs)
         /\ Len(InputsOf(ran)) = Len(ran)
<1>1. Len(ran) \in Nat /\ DOMAIN ran = 1 .. Len(ran)
  BY LenProperties
<1>2. ASSUME NEW i \in 1 .. Len(ran) PROVE ran[i].input \in Inputs
  <2>1. ran[i] \in RanInput
    BY ElementOfSeq
  <2>. QED
    BY <2>1 DEF RanInput
<1>3. InputsOf(ran) \in [1 .. Len(ran) -> Inputs]
  BY <1>1, <1>2 DEF InputsOf
<1>4. InputsOf(ran) \in Seq(Inputs)
  BY <1>1, <1>3, SeqDef
<1>. QED
  BY <1>1, <1>3, <1>4, LenProperties

\* No result, no input.
LEMMA InputsOfEmpty == InputsOf(<<>>) = <<>>
BY DEF InputsOf

\* One more result, one more input.
LEMMA InputsOfAppend ==
  ASSUME NEW ran \in Seq(RanInput), NEW e \in RanInput
  PROVE  InputsOf(Append(ran, e)) = InputsOf(ran) \o <<e.input>>
<1>. DEFINE s == InputsOf(Append(ran, e))
            t == InputsOf(ran) \o <<e.input>>
<1>1. e.input \in Inputs /\ <<e.input>> \in Seq(Inputs)
  BY DEF RanInput
<1>2. s \in Seq(Inputs) /\ Len(s) = Len(ran) + 1
  BY AppendProperties, InputsOfType
<1>3. t \in Seq(Inputs) /\ Len(t) = Len(ran) + 1
  BY <1>1, InputsOfType, ConcatProperties
<1>4. ASSUME NEW i \in 1 .. Len(s) PROVE s[i] = t[i]
  <2>1. Len(ran) \in Nat /\ i \in 1 .. Len(ran) + 1
    BY <1>2, LenProperties
  <2>2. s[i] = Append(ran, e)[i].input
    <3>1. DOMAIN Append(ran, e) = 1 .. Len(ran) + 1
      BY AppendProperties, LenProperties
    <3>. QED
      BY <2>1, <3>1 DEF InputsOf
  <2>3. t[i] = IF i <= Len(ran) THEN InputsOf(ran)[i] ELSE <<e.input>>[i - Len(ran)]
    <3>1. Len(InputsOf(ran)) = Len(ran) /\ InputsOf(ran) \in Seq(Inputs) /\ Len(<<e.input>>) = 1
      BY InputsOfType
    <3>. QED
      BY <1>1, <2>1, <3>1, ConcatProperties
  <2>4. CASE i <= Len(ran)
    <3>1. DOMAIN ran = 1 .. Len(ran) /\ Append(ran, e)[i] = ran[i]
      BY <2>1, <2>4, LenProperties, AppendProperties
    <3>. QED
      BY <2>1, <2>2, <2>3, <2>4, <3>1 DEF InputsOf
  <2>5. CASE i = Len(ran) + 1
    <3>1. Append(ran, e)[i] = e
      BY <2>5, AppendProperties
    <3>2. ~ (i <= Len(ran)) /\ i - Len(ran) = 1
      BY <2>1, <2>5
    <3>. HIDE DEF s, t
    <3>. QED
      BY <2>2, <2>3, <3>1, <3>2
  <2>6. i <= Len(ran) \/ i = Len(ran) + 1
    BY <2>1
  <2>. QED
    BY <2>4, <2>5, <2>6
<1>. QED
  BY <1>2, <1>3, <1>4, SeqEqual, Zenon

\* The head of a sequence can move to the end of the one before it.
LEMMA HeadMoves ==
  ASSUME NEW S, NEW s \in Seq(S), NEW t \in Seq(S), t # <<>>
  PROVE  (s \o <<Head(t)>>) \o Tail(t) = s \o t
<1>. DEFINE h == <<Head(t)>>
            u == h \o Tail(t)
<1>1. Head(t) \in S /\ Tail(t) \in Seq(S) /\ h \in Seq(S)
  BY HeadTailProperties
<1>2. Len(h) = 1 /\ Len(Tail(t)) = Len(t) - 1 /\ Len(t) \in Nat \ {0}
  BY HeadTailProperties, EmptySeq
<1>3. u \in Seq(S) /\ Len(u) = Len(t)
  BY <1>1, <1>2, ConcatProperties
<1>4. ASSUME NEW i \in 1 .. Len(t) PROVE u[i] = t[i]
  <2>1. u[i] = IF i <= 1 THEN h[i] ELSE Tail(t)[i - 1]
    BY <1>1, <1>2, ConcatProperties
  <2>2. i <= 1 => t[i] = Head(t)
    BY <1>2
  <2>3. ~ (i <= 1) => Tail(t)[i - 1] = t[i]
    BY <1>2, HeadTailProperties
  <2>. QED
    BY <1>2, <2>1, <2>2, <2>3
<1>5. u = t
  <2>. HIDE DEF u
  <2>. QED
    BY <1>3, <1>4, SeqEqual
<1>6. (s \o h) \o Tail(t) = s \o u
  <2>. HIDE DEF h
  <2>. QED
    BY <1>1, ConcatAssociative, SMTT(60)
<1>. QED
  BY <1>5, <1>6

\* What Accounted says of one load.
LoadAccount(md, k) ==
    LET load == md.loads[k] IN
    \/ InputsOf(load.ran_inputs) \o RunningOf(md, k) \o load.inputs_to_run = LoadInputs[k]
    \/ load.ran_inputs = <<>> /\ RunningOf(md, k) = <<>> /\ load.inputs_to_run = <<>>

\* Accounted, load by load.
LEMMA AccountedPerLoad ==
  ASSUME NEW md
  PROVE  Accounted(md) <=> \A k \in LoadIds : md.loads[k].opened => LoadAccount(md, k)
BY DEF Accounted, LoadAccount

\* A change of one field of a load keeps the two others.
LEMMA LoadFields ==
  ASSUME NEW load \in Loading, NEW x
  PROVE  /\ [load EXCEPT !.inputs_to_run = x].opened = load.opened
         /\ [load EXCEPT !.inputs_to_run = x].inputs_to_run = x
         /\ [load EXCEPT !.inputs_to_run = x].ran_inputs = load.ran_inputs
         /\ [load EXCEPT !.ran_inputs = x].opened = load.opened
         /\ [load EXCEPT !.ran_inputs = x].inputs_to_run = load.inputs_to_run
         /\ [load EXCEPT !.ran_inputs = x].ran_inputs = x
BY DEF Loading

\* A load that is not touched keeps its account.
LEMMA SameAccount ==
  ASSUME NEW md \in LoaderMetadataType, NEW md2 \in LoaderMetadataType, NEW k \in LoadIds,
         md2.loads[k] = md.loads[k], RunningOf(md2, k) = RunningOf(md, k),
         LoadAccount(md, k)
  PROVE  LoadAccount(md2, k)
BY DEF LoadAccount

\* No load is open at first.
LEMMA EmptyAccounted == Accounted(EmptyMetadata)
BY DEF Accounted, EmptyMetadata

\* The entry check of load: a load that opens owes all its inputs.
LEMMA OpenLoadAccounted ==
  ASSUME NEW md \in LoaderMetadataType, NEW l \in LoadIds,
         Accounted(md), md.running_input = NoInput
  PROVE  Accounted(OpenLoad(md, l)) /\ OpenLoad(md, l).running_input = NoInput
<1>1. CASE md.loads[l].opened
  BY <1>1 DEF OpenLoad
<1>2. CASE ~ md.loads[l].opened
  <2>. DEFINE new == OpenLoad(md, l)
  <2>1. /\ new.running_input = NoInput
        /\ new.loads[l] = [opened |-> TRUE, inputs_to_run |-> LoadInputs[l], ran_inputs |-> <<>>]
        /\ \A k \in LoadIds \ {l} : new.loads[k] = md.loads[k]
    BY <1>2 DEF OpenLoad, LoaderMetadataType
  <2>2. \A k \in LoadIds : RunningOf(new, k) = <<>> /\ RunningOf(md, k) = <<>>
    BY <2>1 DEF RunningOf
  <2>3. LoadInputs[l] \in Seq(Inputs) /\ <<>> \in Seq(Inputs)
    BY LoadAssumption, EmptySeq
  <2>4. InputsOf(<<>>) \o <<>> \o LoadInputs[l] = LoadInputs[l]
    BY <2>3, InputsOfEmpty, ConcatEmptySeq
  <2>5. LoadAccount(new, l)
    <3>1. new.loads[l].ran_inputs = <<>> /\ new.loads[l].inputs_to_run = LoadInputs[l]
      BY <2>1
    <3>2. RunningOf(new, l) = <<>>
      BY <2>2
    <3>. HIDE DEF new
    <3>. QED
      BY <2>4, <3>1, <3>2 DEF LoadAccount
  <2>6. ASSUME NEW k \in LoadIds \ {l}, new.loads[k].opened PROVE LoadAccount(new, k)
    <3>1. md.loads[k].opened /\ LoadAccount(md, k)
      BY <2>1, <2>6, AccountedPerLoad
    <3>2. new.loads[k] = md.loads[k] /\ RunningOf(new, k) = RunningOf(md, k)
      BY <2>1, <2>2
    <3>. QED
      BY <3>1, <3>2, SameAccount, OpenLoadType
  <2>9. Accounted(new)
    <3>1. \A k \in LoadIds : new.loads[k].opened => LoadAccount(new, k)
      BY <2>5, <2>6
    <3>. HIDE DEF new
    <3>. QED
      BY <3>1, AccountedPerLoad
  <2>. QED
    BY <2>1, <2>9
<1>. QED
  BY <1>1, <1>2

\* next_input: what leaves the queue is the running input, nothing is lost as
\* long as no running input was left unrecorded.
LEMMA NextInputAccounted ==
  ASSUME NEW md \in LoaderMetadataType, NEW l \in LoadIds,
         Accounted(md), md.running_input = NoInput
  PROVE  Accounted(NextInput(md, l))
<1>. SUFFICES ASSUME NEW new, new = NextInput(md, l),
                     NEW load, load = md.loads[l]
              PROVE  Accounted(new)
  OBVIOUS
<1>. DEFINE todo == load.inputs_to_run
<1>1. load \in Loading /\ todo \in Seq(Inputs) /\ load.ran_inputs \in Seq(RanInput)
  BY DEF LoaderMetadataType, Loading
<1>2. CASE todo = <<>>
  <2>1. new = md
    BY <1>2 DEF NextInput, LoaderMetadataType
  <2>. QED
    BY <2>1
<1>3. CASE todo # <<>>
  <2>1. Head(todo) \in Inputs /\ Tail(todo) \in Seq(Inputs)
    BY <1>1, <1>3, HeadTailProperties
  <2>2. /\ new.running_input = [load |-> l, input |-> Head(todo)]
        /\ new.loads[l] = [load EXCEPT !.inputs_to_run = Tail(todo)]
        /\ \A k \in LoadIds \ {l} : new.loads[k] = md.loads[k]
    BY <1>3 DEF NextInput, LoaderMetadataType
  <2>3. new.running_input # NoInput
    BY <2>1, <2>2, LoadAssumption
  <2>4. RunningOf(new, l) = <<Head(todo)>> /\ RunningOf(md, l) = <<>>
    BY <2>2, <2>3 DEF RunningOf
  <2>5. \A k \in LoadIds \ {l} : RunningOf(new, k) = RunningOf(md, k)
    <3>1. new.running_input.load = l
      BY <2>2
    <3>. QED
      BY <3>1 DEF RunningOf
  <2>6. /\ new.loads[l].opened = load.opened
        /\ new.loads[l].ran_inputs = load.ran_inputs
        /\ new.loads[l].inputs_to_run = Tail(todo)
    <3>. DEFINE after == [load EXCEPT !.inputs_to_run = Tail(todo)]
    <3>1. after.opened = load.opened /\ after.inputs_to_run = Tail(todo)
          /\ after.ran_inputs = load.ran_inputs
      BY <1>1, LoadFields
    <3>2. new.loads[l] = after
      BY <2>2
    <3>. HIDE DEF after
    <3>. QED
      BY <3>1, <3>2
  <2>7. ASSUME load.opened PROVE LoadAccount(new, l)
    <3>. DEFINE ran == InputsOf(load.ran_inputs)
    <3>1. ran \o <<>> \o todo = LoadInputs[l]
      <4>1. LoadAccount(md, l)
        BY <2>7, AccountedPerLoad
      <4>. HIDE DEF todo, ran
      <4>2. ran = InputsOf(load.ran_inputs) /\ load.inputs_to_run = todo
        BY DEF ran, todo
      <4>. QED
        BY <1>3, <2>4, <4>1, <4>2 DEF LoadAccount
    <3>2. ran \in Seq(Inputs) /\ <<Head(todo)>> \in Seq(Inputs)
      BY <1>1, <2>1, InputsOfType
    <3>3. ran \o <<>> = ran
      BY <3>2, ConcatEmptySeq
    <3>4. (ran \o <<Head(todo)>>) \o Tail(todo) = ran \o todo
      <4>. HIDE DEF ran, todo
      <4>. QED
        BY <1>1, <1>3, <3>2, HeadMoves
    <3>. QED
      BY <2>4, <2>6, <3>1, <3>3, <3>4 DEF LoadAccount
  <2>8. ASSUME NEW k \in LoadIds \ {l}, new.loads[k].opened PROVE LoadAccount(new, k)
    <3>1. md.loads[k].opened /\ LoadAccount(md, k)
      BY <2>2, <2>8, AccountedPerLoad
    <3>. QED
      BY <2>2, <2>5, <3>1, SameAccount, NextInputType
  <2>9. Accounted(new)
    <3>1. \A k \in LoadIds : new.loads[k].opened => LoadAccount(new, k)
      BY <2>6, <2>7, <2>8
    <3>. QED
      BY <3>1, AccountedPerLoad
  <2>. QED
    BY <2>9
<1>. QED
  BY <1>2, <1>3

\* record_result: the running input becomes the last one with a result.
LEMMA RecordResultAccounted ==
  ASSUME NEW md \in LoaderMetadataType, NEW result \in EvaluationResult, Accounted(md)
  PROVE  Accounted(RecordResult(md, result)) /\ RecordResult(md, result).running_input = NoInput
<1>. SUFFICES ASSUME NEW new, new = RecordResult(md, result)
              PROVE  Accounted(new) /\ new.running_input = NoInput
  OBVIOUS
<1>1. CASE md.running_input = NoInput
  BY <1>1 DEF RecordResult
<1>2. CASE md.running_input # NoInput
  <2>. PICK l \in LoadIds, x \in Inputs : md.running_input = [load |-> l, input |-> x]
    BY <1>2 DEF LoaderMetadataType, Running
  <2>. PICK e \in RanInput : e = [input |-> x, result |-> result]
    BY DEF RanInput
  <2>. PICK load \in Loading : load = md.loads[l]
    BY DEF LoaderMetadataType
  <2>1. /\ e.input = x /\ e.input \in Inputs
        /\ md.running_input.load = l /\ md.running_input.input = x
    OBVIOUS
  <2>2. load \in Loading /\ load.ran_inputs \in Seq(RanInput) /\ load.inputs_to_run \in Seq(Inputs)
    BY DEF Loading
  <2>3. /\ new.running_input = NoInput
        /\ new.loads[l] = [load EXCEPT !.ran_inputs = Append(@, e)]
        /\ \A k \in LoadIds \ {l} : new.loads[k] = md.loads[k]
    <3>1. new = [md EXCEPT !.loads[l].ran_inputs = Append(@, e), !.running_input = NoInput]
      BY <1>2, <2>1 DEF RecordResult
    <3>2. md.loads \in [LoadIds -> Loading]
      BY DEF LoaderMetadataType
    <3>3. /\ new.running_input = NoInput
          /\ new.loads = [md.loads EXCEPT ![l].ran_inputs = Append(@, e)]
      BY <3>1 DEF LoaderMetadataType
    <3>. QED
      BY <3>2, <3>3
  <2>4. RunningOf(md, l) = <<e.input>> /\ RunningOf(new, l) = <<>>
    BY <1>2, <2>1, <2>3, ZenonT(60) DEF RunningOf
  <2>5. ASSUME NEW k \in LoadIds \ {l} PROVE RunningOf(new, k) = RunningOf(md, k)
    <3>1. RunningOf(new, k) = <<>>
      BY <2>3, ZenonT(60) DEF RunningOf
    <3>2. RunningOf(md, k) = <<>>
      BY <2>1, ZenonT(60) DEF RunningOf
    <3>. QED
      BY <3>1, <3>2
  <2>6. /\ new.loads[l].opened = load.opened
        /\ new.loads[l].ran_inputs = Append(load.ran_inputs, e)
        /\ new.loads[l].inputs_to_run = load.inputs_to_run
    <3>. DEFINE after == [load EXCEPT !.ran_inputs = Append(load.ran_inputs, e)]
    <3>1. after.opened = load.opened /\ after.inputs_to_run = load.inputs_to_run
          /\ after.ran_inputs = Append(load.ran_inputs, e)
      BY LoadFields
    <3>2. new.loads[l] = after
      BY <2>3
    <3>. HIDE DEF after
    <3>. QED
      BY <3>1, <3>2
  <2>7. ASSUME load.opened PROVE LoadAccount(new, l)
    <3>. DEFINE ran == InputsOf(load.ran_inputs)
    <3>1. ran \o <<e.input>> \o load.inputs_to_run = LoadInputs[l]
      <4>1. LoadAccount(md, l)
        BY <2>1, <2>7, AccountedPerLoad
      <4>2. RunningOf(md, l) # <<>>
        BY <2>4
      <4>. QED
        BY <2>4, <4>1, <4>2 DEF LoadAccount
    <3>2. ran \in Seq(Inputs) /\ <<e.input>> \in Seq(Inputs)
      BY <2>1, <2>2, InputsOfType
    <3>3. InputsOf(Append(load.ran_inputs, e)) = ran \o <<e.input>>
      BY <2>1, <2>2, InputsOfAppend
    <3>4. (ran \o <<e.input>>) \o <<>> = ran \o <<e.input>>
      BY <3>2, ConcatProperties, ConcatEmptySeq
    <3>. QED
      BY <2>4, <2>6, <3>1, <3>3, <3>4 DEF LoadAccount
  <2>8. ASSUME NEW k \in LoadIds \ {l}, new.loads[k].opened PROVE LoadAccount(new, k)
    <3>1. md.loads[k].opened /\ LoadAccount(md, k)
      <4>1. md.loads[k].opened /\ k \in LoadIds
        BY <2>3, <2>8
      <4>. QED
        BY <4>1, AccountedPerLoad
    <3>. QED
      BY <2>3, <2>5, <3>1, SameAccount, RecordResultType
  <2>9. Accounted(new)
    <3>1. \A k \in LoadIds : new.loads[k].opened => LoadAccount(new, k)
      BY <2>6, <2>7, <2>8
    <3>. QED
      BY <3>1, AccountedPerLoad
  <2>. QED
    BY <2>3, <2>9
<1>. QED
  BY <1>1, <1>2

\* take_ran_inputs at the end of a load: the load owes nothing any more.
LEMMA TakeRanInputsAccounted ==
  ASSUME NEW md \in LoaderMetadataType, NEW l \in LoadIds, Accounted(md),
         md.running_input = NoInput, md.loads[l].inputs_to_run = <<>>
  PROVE  Accounted(TakeRanInputs(md, l)) /\ TakeRanInputs(md, l).running_input = NoInput
<1>. DEFINE new == TakeRanInputs(md, l)
<1>1. /\ new.running_input = NoInput
      /\ new.loads[l] = [md.loads[l] EXCEPT !.ran_inputs = <<>>]
      /\ \A k \in LoadIds \ {l} : new.loads[k] = md.loads[k]
  BY DEF TakeRanInputs, LoaderMetadataType
<1>2. \A k \in LoadIds : RunningOf(new, k) = <<>> /\ RunningOf(md, k) = <<>>
  BY <1>1 DEF RunningOf
<1>3. md.loads[l] \in Loading
  BY DEF LoaderMetadataType
<1>4. LoadAccount(new, l)
  BY <1>1, <1>2, <1>3 DEF LoadAccount, Loading
<1>5. ASSUME NEW k \in LoadIds \ {l}, new.loads[k].opened PROVE LoadAccount(new, k)
  <2>1. md.loads[k].opened /\ LoadAccount(md, k)
    BY <1>1, <1>5, AccountedPerLoad
  <2>. QED
    BY <1>1, <1>2, <2>1, SameAccount, TakeRanInputsType
<1>6. Accounted(new)
  <2>1. \A k \in LoadIds : new.loads[k].opened => LoadAccount(new, k)
    BY <1>4, <1>5
  <2>. HIDE DEF new
  <2>. QED
    BY <2>1, AccountedPerLoad
<1>. QED
  BY <1>1, <1>6

\* What load returns when its queue is empty: all its inputs, or none.
LEMMA ReturnedAllOrNothing ==
  ASSUME NEW md \in LoaderMetadataType, NEW l \in LoadIds, Accounted(md),
         md.running_input = NoInput, md.loads[l].inputs_to_run = <<>>, md.loads[l].opened
  PROVE  InputsOf(md.loads[l].ran_inputs) \in {LoadInputs[l], <<>>}
<1>. DEFINE ran == InputsOf(md.loads[l].ran_inputs)
<1>1. RunningOf(md, l) = <<>>
  BY DEF RunningOf
<1>2. ran \o <<>> \o <<>> = LoadInputs[l] \/ md.loads[l].ran_inputs = <<>>
  BY <1>1 DEF Accounted
<1>3. md.loads[l].ran_inputs \in Seq(RanInput)
  BY DEF LoaderMetadataType, Loading
<1>4. ran \o <<>> \o <<>> = ran
  BY <1>3, InputsOfType, ConcatEmptySeq
<1>. QED
  BY <1>2, <1>4, InputsOfEmpty
=============================================================================
