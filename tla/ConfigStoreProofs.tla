-------------------------- MODULE ConfigStoreProofs --------------------------
(***************************************************************************)
(* What the processes do to the config file, for any number of them and    *)
(* texts of any size: every text that waits to be written parses, so that  *)
(* only an editor on the file itself leaves one that does not.             *)
(***************************************************************************)
EXTENDS ConfigStore, SequenceTheorems, TLAPS

-----------------------------------------------------------------------------
(* Texts and their changes                                                   *)

LEMMA TextsAreSeqs ==
  \A text : text \in Texts <=> text \in Seq(Blocks) /\ Len(text) <= MaxRedirects
<1>1. ASSUME NEW text \in Texts
      PROVE  text \in Seq(Blocks) /\ Len(text) <= MaxRedirects
  <2>1. PICK n \in 0..MaxRedirects : text \in [1..n -> Blocks]
    BY DEF Texts
  <2> QED
    BY <2>1, BoundAssumption
<1>2. ASSUME NEW text \in Seq(Blocks), Len(text) <= MaxRedirects
      PROVE  text \in Texts
  <2>1. Len(text) \in 0..MaxRedirects /\ text \in [1..Len(text) -> Blocks]
    BY <1>2, BoundAssumption, LenProperties
  <2> QED
    BY <2>1 DEF Texts
<1> QED
  BY <1>1, <1>2

LEMMA EmptyIsText == <<>> \in Texts
<1>1. <<>> \in Seq(Blocks) /\ Len(<<>>) = 0
  BY EmptySeq
<1>2. Len(<<>>) <= MaxRedirects
  BY <1>1, BoundAssumption
<1> QED
  BY Zenon, <1>1, <1>2, TextsAreSeqs

\* A text with one more block, without one, and with one changed.
LEMMA AddedIsText ==
  ASSUME NEW text \in Texts, Len(text) < MaxRedirects, NEW block \in Blocks
  PROVE  Append(text, block) \in Texts
<1>1. text \in Seq(Blocks) /\ Len(text) \in Nat
  BY TextsAreSeqs, LenProperties
<1>2. /\ Append(text, block) \in Seq(Blocks)
      /\ Len(Append(text, block)) = Len(text) + 1
  BY <1>1, AppendProperties
<1>3. Len(Append(text, block)) <= MaxRedirects
  BY <1>1, <1>2, BoundAssumption
<1> QED
  BY Zenon, <1>2, <1>3, TextsAreSeqs

LEMMA ReplacedIsText ==
  ASSUME NEW text \in Texts, NEW i \in DOMAIN text, NEW block \in Blocks
  PROVE  Replaced(text, i, block) \in Texts
<1>1. text \in Seq(Blocks) /\ Len(text) <= MaxRedirects /\ i \in 1..Len(text)
  BY TextsAreSeqs, LenProperties
<1> QED
  BY <1>1, ExceptSeq, TextsAreSeqs DEF Replaced

LEMMA WithoutIsText ==
  ASSUME NEW text \in Texts, NEW i \in DOMAIN text
  PROVE  /\ Without(text, i) \in Texts
         /\ Len(text) = 1 => Without(text, i) = <<>>
<1>1. text \in Seq(Blocks) /\ Len(text) <= MaxRedirects /\ i \in 1..Len(text)
  BY TextsAreSeqs, LenProperties
<1> DEFINE left == SubSeq(text, 1, i - 1)
           right == SubSeq(text, i + 1, Len(text))
<1>2. left \in Seq(Blocks) /\ Len(left) = i - 1
  BY <1>1, SubSeqProperties
<1>3. right \in Seq(Blocks) /\ Len(right) = Len(text) - i
  BY <1>1, SubSeqProperties
<1>4. left \o right \in Seq(Blocks) /\ Len(left \o right) = Len(text) - 1
  <2> HIDE DEF left, right
  <2>1. /\ left \o right \in Seq(Blocks)
        /\ Len(left \o right) = Len(left) + Len(right)
    BY <1>2, <1>3, ConcatProperties
  <2> QED
    BY <1>1, <1>2, <1>3, <2>1, LenProperties
<1>5. left \o right \in Texts
  <2>1. Len(left \o right) <= MaxRedirects
    BY <1>1, <1>4, BoundAssumption, LenProperties
  <2> QED
    BY Zenon, <1>4, <2>1, TextsAreSeqs
<1>6. Len(text) = 1 => left \o right = <<>>
  BY <1>4, EmptySeq
<1> QED
  BY <1>5, <1>6 DEF Without

-----------------------------------------------------------------------------
(* The inductive invariant                                                   *)

\* Every text that waits to be written has been parsed, and the block that is
\* open in an editor is one of the text that is remembered with it.
Sound(memory) ==
  /\ memory.doing = "writing" => Parses(memory.text)
  /\ memory.doing = "editing" => memory.index \in DOMAIN memory.text

Candidates == \A t \in Tools : Sound(tool[t])

Plain(memory) == memory.doing \notin {"writing", "editing"}

IInv == TypeOK /\ Candidates

LEMMA InitHolds == Init => IInv
<1> SUFFICES ASSUME Init PROVE IInv
  OBVIOUS
<1>1. Idle \in Memory /\ Sound(Idle)
  BY DEF Idle, Memory, Sound
<1> QED
  BY <1>1 DEF Init, IInv, TypeOK, Candidates

\* Whether a text parses depends on the text alone.
LEMMA Unprimed ==
  ASSUME NEW u \in Tools, Sound(tool'[u]) PROVE Sound(tool[u])'
BY DEF Sound, Parses, Valid, Unique

\* A step of one process that keeps the types and remembers something sound.
LEMMA StepKeeps ==
  ASSUME IInv, NEW t \in Tools, NEW memory \in Memory, Goes(t, memory),
         Sound(memory),
         file' \in Texts \cup {Absent, Broken}, fresh' \in [Tools -> BOOLEAN]
  PROVE  IInv'
<1>1. tool' \in [Tools -> Memory]
  BY DEF Goes, IInv, TypeOK
<1>2. ASSUME NEW u \in Tools PROVE Sound(tool'[u])
  <2>1. tool'[u] = IF u = t THEN memory ELSE tool[u]
    BY DEF Goes, IInv, TypeOK
  <2> QED
    BY <2>1 DEF IInv, Candidates
<1> QED
  BY <1>1, <1>2, Unprimed DEF IInv, TypeOK, Candidates

\* What a process remembers, by what it does.
Thens == {Idle} \cup {Chosen(i) : i \in 1..MaxRedirects}

LEMMA Remembers ==
  ASSUME IInv, NEW t \in Tools
  PROVE  /\ Is(t, "writing") => tool[t].text \in Texts /\ tool[t].then \in Thens
         /\ Is(t, "editing") => /\ tool[t].text \in Texts
                               /\ tool[t].index \in 1..MaxRedirects
         /\ Is(t, "asking")  => tool[t].name \in Names \ {Unnamed}
         /\ Is(t, "chosen")  => tool[t].index \in 1..MaxRedirects
         /\ Is(t, "shown")   => /\ tool[t].index \in 1..MaxRedirects
                               /\ tool[t].block \in Blocks
<1>1. tool[t] \in Memory
  BY DEF IInv, TypeOK
<1> QED
  BY <1>1 DEF Memory, Is, Thens

LEMMA ThenIsMemory ==
  ASSUME NEW then \in Thens PROVE then \in Memory /\ Plain(then)
BY DEF Thens, Idle, Chosen, Memory, Plain

LEMMA WritingIsMemory ==
  ASSUME NEW text \in Texts, NEW of \in Blocks \cup {New, Whole},
         NEW then \in Thens
  PROVE  /\ Writing(text, of, then) \in Memory
         /\ Parses(text) => Sound(Writing(text, of, then))
BY DEF Writing, Memory, Thens, Sound

\* A process that may read the file and goes on with a parsed text or none.
LEMMA GoesOn ==
  ASSUME IInv, NEW t \in Tools, NEW memory \in Memory, Goes(t, memory),
         Sound(memory), file' = file,
         fresh' = fresh \/ fresh' = [fresh EXCEPT ![t] = TRUE]
  PROVE  IInv'
<1>1. fresh' \in [Tools -> BOOLEAN]
  BY DEF IInv, TypeOK
<1>2. file' \in Texts \cup {Absent, Broken}
  BY DEF IInv, TypeOK
<1> QED
  BY <1>1, <1>2, StepKeeps

\* A step that replaces the file.
LEMMA GoesOnReplacing ==
  ASSUME IInv, NEW t \in Tools, NEW memory \in Memory,
         tool' = tool \/ (Goes(t, memory) /\ Plain(memory)),
         NEW text \in Texts \cup {Broken}, Replaces(t, text)
  PROVE  IInv'
<1>1. fresh' \in [Tools -> BOOLEAN] /\ file' \in Texts \cup {Absent, Broken}
  BY DEF Replaces, IInv, TypeOK
<1>2. CASE tool' = tool
  BY <1>1, <1>2, Unprimed DEF IInv, TypeOK, Candidates
<1>3. CASE Goes(t, memory) /\ Plain(memory)
  BY <1>1, <1>3, StepKeeps DEF Plain, Sound
<1> QED
  BY <1>2, <1>3

-----------------------------------------------------------------------------
(* The steps                                                                 *)

LEMMA EndsStep == ASSUME IInv, NEW t \in Tools, Ends(t) PROVE IInv'
<1>1. Idle \in Memory /\ Sound(Idle)
  BY DEF Idle, Memory, Sound
<1> QED
  BY <1>1, GoesOn DEF Ends

LEMMA AddStep ==
  ASSUME IInv, HasRoom, NEW t \in Tools, NEW block \in Blocks, Add(t, block)
  PROVE  IInv'
<1> DEFINE text == Append(Text, block)
           memory == Writing(text, New, Idle)
<1>1. CASE Text # Broken /\ Valid(text) /\ Reads(t, memory)
  <2>1. Text \in Texts
    BY <1>1, EmptyIsText DEF Text, IInv, TypeOK
  <2>2. Len(Text) < MaxRedirects
    BY <1>1 DEF HasRoom
  <2>3. text \in Texts
    BY <2>1, <2>2, AddedIsText
  <2>4. memory \in Memory /\ Sound(memory)
    BY <1>1, <2>3, WritingIsMemory DEF Thens, Parses
  <2> QED
    BY <1>1, <2>4, GoesOn DEF Reads
<1>2. CASE Ends(t)
  BY <1>2, EndsStep
<1> QED
  BY <1>1, <1>2 DEF Add

LEMMA RemoveStep ==
  ASSUME IInv, NEW t \in Tools, NEW name, Remove(t, name) PROVE IInv'
<1>1. PICK i \in DOMAIN file :
        /\ Len(file) = 1 \/ Valid(Without(file, i))
        /\ Reads(t, Writing(Without(file, i), file[i], Idle))
  BY DEF Remove
<1> DEFINE text == Without(file, i)
           memory == Writing(text, file[i], Idle)
<1>2. file \in Texts
  BY DEF Remove, Valid, IInv, TypeOK
<1>3. text \in Texts /\ (Len(file) = 1 => text = <<>>)
  BY <1>2, WithoutIsText
<1>4. file[i] \in Blocks
  BY <1>2, TextsAreSeqs, ElementOfSeq, LenProperties
<1>5. Parses(text)
  BY <1>1, <1>3 DEF Parses
<1>6. memory \in Memory /\ Sound(memory)
  BY <1>3, <1>4, <1>5, WritingIsMemory DEF Thens
<1> QED
  BY <1>1, <1>6, GoesOn DEF Reads

LEMMA EditStep ==
  ASSUME IInv, NEW t \in Tools, NEW name, Edit(t, name) PROVE IInv'
<1>1. PICK i \in DOMAIN file :
        Reads(t, [doing |-> "editing", text |-> file, index |-> i])
  BY DEF Edit
<1>2. file \in Texts
  BY DEF Edit, Valid, IInv, TypeOK
<1>3. i \in 1..MaxRedirects
  BY <1>2, TextsAreSeqs, LenProperties, BoundAssumption
<1> DEFINE memory == [doing |-> "editing", text |-> file, index |-> i]
<1>4. memory \in Memory /\ Sound(memory)
  BY <1>2, <1>3 DEF Memory, Sound
<1> QED
  BY <1>1, <1>4, GoesOn DEF Reads

LEMMA CloseEditorStep ==
  ASSUME IInv, NEW t \in Tools, NEW block \in Named, CloseEditor(t, block)
  PROVE  IInv'
<1> DEFINE old == tool[t].text
           i == tool[t].index
           text == Replaced(old, i, block)
           memory == Writing(text, old[i], Idle)
<1>1. CASE Valid(text) /\ Goes(t, memory) /\ UNCHANGED <<file, fresh>>
  <2>1. old \in Texts /\ i \in DOMAIN old
    BY Remembers DEF CloseEditor, Is, IInv, Candidates, Sound
  <2>2. text \in Texts
    BY <2>1, ReplacedIsText DEF Blocks, Named
  <2>3. old[i] \in Blocks
    BY <2>1, TextsAreSeqs, ElementOfSeq, LenProperties
  <2>4. memory \in Memory /\ Sound(memory)
    BY <1>1, <2>2, <2>3, WritingIsMemory DEF Thens, Parses
  <2> QED
    BY <1>1, <2>4, GoesOn
<1>2. CASE Ends(t)
  BY <1>2, EndsStep
<1> QED
  BY <1>1, <1>2 DEF CloseEditor, Ends

LEMMA UpdateStep ==
  ASSUME IInv, NEW t \in Tools, NEW i \in 1..MaxRedirects,
         NEW block \in Blocks, NEW was \in Blocks, Update(t, i, block, was)
  PROVE  IInv'
<1> DEFINE text == Replaced(file, i, block)
           memory == Writing(text, was, Chosen(i))
<1>1. Chosen(i) \in Thens
  BY DEF Thens
<1>2. CASE /\ Valid(file) /\ i \in DOMAIN file /\ Valid(text)
           /\ Goes(t, memory) /\ UNCHANGED <<file, fresh>>
  <2>1. file \in Texts
    BY <1>2 DEF Valid, IInv, TypeOK
  <2>2. text \in Texts
    BY <1>2, <2>1, ReplacedIsText
  <2>3. memory \in Memory /\ Sound(memory)
    BY <1>1, <1>2, <2>2, WritingIsMemory DEF Parses
  <2> QED
    BY <1>2, <2>3, GoesOn
<1>3. CASE Goes(t, Chosen(i)) /\ UNCHANGED <<file, fresh>>
  <2>1. Chosen(i) \in Memory /\ Sound(Chosen(i))
    BY <1>1, ThenIsMemory DEF Plain, Sound
  <2> QED
    BY <1>3, <2>1, GoesOn
<1> QED
  BY <1>2, <1>3 DEF Update

LEMMA OpenStep == ASSUME IInv, NEW t \in Tools, Open(t) PROVE IInv'
<1> DEFINE memory == [doing |-> IF file = Absent THEN "creating" ELSE "inPlace"]
<1>1. memory \in Memory /\ Sound(memory)
  BY DEF Memory, Sound
<1> QED
  BY <1>1, GoesOn DEF Open, Reads

LEMMA SaveTextStep ==
  ASSUME IInv, NEW t \in Tools, NEW text \in Texts, SaveText(t, text)
  PROVE  IInv'
<1> DEFINE memory == Writing(text, Whole, Idle)
<1>1. memory \in Memory /\ Sound(memory)
  BY WritingIsMemory DEF SaveText, Thens
<1> QED
  BY <1>1, GoesOn DEF SaveText, Reads

LEMMA SetupStep == ASSUME IInv, NEW t \in Tools, Setup(t) PROVE IInv'
<1>1. ASSUME NEW name \in Names \ {Unnamed}, AskName(t, name) PROVE IInv'
  <2> DEFINE memory == [doing |-> "asking", name |-> name]
  <2>1. memory \in Memory /\ Sound(memory)
    BY DEF Memory, Sound
  <2> QED
    BY <1>1, <2>1, GoesOn DEF AskName, Reads
<1>2. ASSUME NEW value \in Values, SaveNew(t, value) PROVE IInv'
  <2>1. [name |-> tool[t].name, value |-> value] \in Blocks
    BY <1>2, Remembers DEF SaveNew, Blocks
  <2> QED
    BY <1>2, <2>1, AddStep DEF SaveNew
<1> QED
  BY <1>1, <1>2 DEF Setup

LEMMA GuidedStep == ASSUME IInv, NEW t \in Tools, Guided(t) PROVE IInv'
<1>1. ASSUME NEW i \in 1..MaxRedirects, Choose(t, i) PROVE IInv'
  <2>1. Chosen(i) \in Memory /\ Sound(Chosen(i))
    BY ThenIsMemory DEF Thens, Plain, Sound
  <2> QED
    BY <1>1, <2>1, GoesOn DEF Choose, Reads
<1>2. CASE Show(t)
  <2> DEFINE i == tool[t].index
             memory == [doing |-> "shown", index |-> i, block |-> file[i]]
  <2>1. CASE Valid(file) /\ i \in DOMAIN file /\ Reads(t, memory)
    <3>1. file \in Texts
      BY <2>1 DEF Valid, IInv, TypeOK
    <3>2. file[i] \in Blocks
      BY <2>1, <3>1, TextsAreSeqs, ElementOfSeq, LenProperties
    <3>3. i \in 1..MaxRedirects
      BY <1>2, Remembers DEF Show
    <3>4. memory \in Memory /\ Sound(memory)
      BY <3>2, <3>3 DEF Memory, Sound
    <3> QED
      BY <2>1, <3>4, GoesOn DEF Reads
  <2>2. CASE Ends(t)
    BY <2>2, EndsStep
  <2> QED
    BY <1>2, <2>1, <2>2 DEF Show
<1>3. CASE Advanced(t)
  BY <1>3, OpenStep, EditStep DEF Advanced
<1>4. ASSUME NEW block \in Blocks, SaveField(t, block) PROVE IInv'
  <2>1. tool[t].index \in 1..MaxRedirects /\ tool[t].block \in Blocks
    BY <1>4, Remembers DEF SaveField
  <2> QED
    BY <1>4, <2>1, UpdateStep DEF SaveField
<1> QED
  BY <1>1, <1>2, <1>3, <1>4 DEF Guided

LEMMA InEditorStep == ASSUME IInv, NEW t \in Tools, InEditor(t) PROVE IInv'
<1>1. ASSUME NEW block \in Named, CloseEditor(t, block) PROVE IInv'
  BY <1>1, CloseEditorStep
<1>2. CASE CreateDefault(t)
  <2> DEFINE memory == [doing |-> "inPlace"]
  <2>1. memory \in Memory /\ Plain(memory)
    BY DEF Memory, Plain
  <2> QED
    BY <1>2, <2>1, EmptyIsText, GoesOnReplacing DEF CreateDefault
<1>3. ASSUME NEW text \in Texts \cup {Broken}, SaveInPlace(t, text) PROVE IInv'
  <2>1. tool[t] \in Memory
    BY DEF IInv, TypeOK
  <2> QED
    BY <1>3, <2>1, GoesOnReplacing DEF SaveInPlace
<1> QED
  BY <1>1, <1>2, <1>3 DEF InEditor

LEMMA PublishStep == ASSUME IInv, NEW t \in Tools, Publish(t) PROVE IInv'
<1>1. tool[t].text \in Texts /\ tool[t].then \in Thens
  BY Remembers DEF Publish
<1> QED
  BY <1>1, ThenIsMemory, GoesOnReplacing DEF Publish

LEMMA NextHolds == ASSUME IInv, [Next]_vars PROVE IInv'
<1>1. CASE UNCHANGED vars
  BY <1>1, Unprimed DEF vars, IInv, TypeOK, Candidates
<1>2. ASSUME NEW t \in Tools, Command(t) \/ Request(t) PROVE IInv'
  <2>1. ASSUME HasRoom, NEW block \in Named, Add(t, block) PROVE IInv'
    BY <2>1, AddStep DEF Named, Blocks
  <2> QED
    BY <1>2, <2>1, RemoveStep, EditStep, OpenStep, SaveTextStep
    DEF Command, Request
<1>3. ASSUME NEW t \in Tools, GivesUp(t) PROVE IInv'
  BY <1>3, EndsStep DEF GivesUp
<1> QED
  BY <1>1, <1>2, <1>3, SetupStep, GuidedStep, InEditorStep, PublishStep DEF Next

LEMMA Inductive == Spec => []IInv
BY InitHolds, NextHolds, PTL DEF Spec

-----------------------------------------------------------------------------
(* What holds of every execution                                             *)

\* The processes only ever remember what they may: the blocks of texts, and
\* positions in them.
THEOREM TypeCorrect == Spec => []TypeOK
<1>1. IInv => TypeOK
  BY DEF IInv
<1> QED
  BY <1>1, Inductive, PTL

\* A step that changes the file is a rename, the default config, or an editor
\* saving it.
LEMMA WhoWrites ==
  ASSUME Next, file' # file
  PROVE  \E t \in Tools : \/ Publish(t) \/ CreateDefault(t)
                          \/ Is(t, "inPlace")
<1>1. PICK t \in Tools :
        \/ Command(t) \/ Request(t) \/ Setup(t) \/ Guided(t) \/ InEditor(t)
        \/ Publish(t) \/ GivesUp(t)
  BY DEF Next
<1>2. \A memory : Reads(t, memory) => file' = file
  BY DEF Reads
<1>3. Ends(t) => file' = file
  BY DEF Ends
<1>4. ~Command(t) /\ ~Request(t)
  BY <1>2, <1>3 DEF Command, Request, Add, Remove, Edit, Open, SaveText
<1>5. ~Setup(t)
  BY <1>2, <1>3 DEF Setup, AskName, SaveNew, Add
<1>6. ~Guided(t)
  BY <1>2, <1>3 DEF Guided, Choose, Show, Advanced, SaveField, Update, Open, Edit
<1>7. InEditor(t) => CreateDefault(t) \/ Is(t, "inPlace")
  BY DEF InEditor, CloseEditor, SaveInPlace
<1> QED
  BY <1>1, <1>3, <1>4, <1>5, <1>6, <1>7 DEF GivesUp

\* Whatever the processes do to each other, only an editor on the file itself
\* turns a config that parses into one that does not: every other write
\* is of a text that has been parsed as a whole (config_manager.rs).
THEOREM NothingElseBreaksIt == Spec => StaysParsable
<1> DEFINE Kept == Parses(file) /\ ~Parses(file') =>
                     \E t \in Tools : Is(t, "inPlace")
<1>1. ASSUME IInv, [Next]_vars PROVE [Kept]_vars
  <2>1. CASE file' = file
    BY <2>1
  <2>2. CASE Next /\ file' # file
    <3>1. PICK t \in Tools : \/ Publish(t) \/ CreateDefault(t)
                             \/ Is(t, "inPlace")
      BY <2>2, WhoWrites
    <3>2. CASE Publish(t)
      BY <1>1, <3>2 DEF Publish, Replaces, Is, IInv, Candidates, Sound
    <3>3. CASE CreateDefault(t)
      BY <3>3 DEF CreateDefault, Replaces, Parses
    <3> QED
      BY <3>1, <3>2, <3>3
  <2> QED
    BY <1>1, <2>1, <2>2 DEF vars
<1> QED
  BY <1>1, Inductive, PTL DEF Spec, StaysParsable

-----------------------------------------------------------------------------
(* Undisturbed changes                                                       *)

\* What a process remembers is of the file as it is, and what it is about to
\* write is the change of this file that was asked for.
Fits(memory) ==
  /\ memory.doing = "creating" => file = Absent
  /\ memory.doing = "editing" => file = memory.text
  /\ memory.doing = "shown" => /\ file \in Texts /\ memory.index \in DOMAIN file
                              /\ file[memory.index] = memory.block
  /\ memory.doing = "writing" /\ memory.of # Whole =>
       Changed(Text, memory.of, memory.text)

FreshFits == \A t \in Tools : fresh[t] => Fits(tool[t])

LEMMA InitFits == Init => FreshFits
BY DEF Init, FreshFits

\* The file stays, and one process goes on with what fits it.
LEMMA FitsGoingOn ==
  ASSUME IInv, FreshFits, NEW t \in Tools, NEW memory, Goes(t, memory),
         file' = file,
         fresh' = fresh \/ fresh' = [fresh EXCEPT ![t] = TRUE],
         fresh'[t] => Fits(memory)
  PROVE  FreshFits'
<1> SUFFICES ASSUME NEW u \in Tools, fresh'[u] PROVE Fits(tool[u])'
  BY DEF FreshFits
<1>1. Fits(tool'[u])
  <2>1. CASE u = t
    BY <2>1 DEF Goes, IInv, TypeOK
  <2>2. CASE u # t
    BY <2>2 DEF Goes, IInv, TypeOK, FreshFits
  <2> QED
    BY <2>1, <2>2
<1> QED
  BY <1>1 DEF Fits, Text

\* The file is replaced: nobody else is fresh any more.
LEMMA FitsReplacing ==
  ASSUME NEW t \in Tools, NEW text, Replaces(t, text),
         tool'[t].doing \in {"nothing", "chosen", "inPlace"}
  PROVE  FreshFits'
BY DEF Replaces, FreshFits, Fits

LEMMA AddedIsChanged ==
  ASSUME NEW text \in Texts, NEW block \in Blocks
  PROVE  Changed(text, New, Append(text, block))
<1>1. text \in Seq(Blocks) /\ Len(text) \in Nat
  BY TextsAreSeqs, LenProperties
<1>2. /\ Append(text, block) \in Seq(Blocks)
      /\ Len(Append(text, block)) = Len(text) + 1
      /\ \A i \in 1..Len(text) : Append(text, block)[i] = text[i]
  BY <1>1, AppendProperties
<1> DEFINE front == SubSeq(Append(text, block), 1, Len(text))
<1>3. /\ front \in Seq(Blocks) /\ Len(front) = Len(text)
      /\ \A i \in 1..Len(text) : front[i] = Append(text, block)[i]
  BY <1>1, <1>2, SubSeqProperties
<1>4. front = text
  <2> HIDE DEF front
  <2> QED
    BY <1>1, <1>2, <1>3, SeqEqual
<1> QED
  BY <1>2, <1>4 DEF Changed

LEMMA OneBlockIsChanged ==
  ASSUME NEW text \in Texts, NEW i \in DOMAIN text, NEW block \in Blocks
  PROVE  /\ Changed(text, text[i], Without(text, i))
         /\ Changed(text, text[i], Replaced(text, i, block))
<1>1. text[i] \in Blocks
  BY TextsAreSeqs, ElementOfSeq, LenProperties
<1>2. text[i] # New
  BY <1>1 DEF Blocks, New
<1> QED
  BY <1>2 DEF Changed, Without, Replaced

\* What a process remembers when it has just read the file, one lemma per kind
\* of reading.
LEMMA ReadingFits ==
  ASSUME IInv, FreshFits, NEW t \in Tools, NEW memory, Reads(t, memory),
         Fits(memory)
  PROVE  FreshFits'
BY FitsGoingOn DEF Reads

LEMMA EndingFits ==
  ASSUME IInv, FreshFits, NEW t \in Tools, Ends(t) PROVE FreshFits'
<1>1. Fits(Idle)
  BY DEF Fits, Idle
<1> QED
  BY <1>1, FitsGoingOn DEF Ends

LEMMA WritingFits ==
  ASSUME NEW text, NEW of, NEW then, of = Whole \/ Changed(Text, of, text)
  PROVE  Fits(Writing(text, of, then))
BY DEF Fits, Writing

LEMMA AddFits ==
  ASSUME IInv, FreshFits, NEW t \in Tools, NEW block \in Blocks, Add(t, block)
  PROVE  FreshFits'
<1> DEFINE text == Append(Text, block)
<1>1. CASE Text # Broken /\ Reads(t, Writing(text, New, Idle))
  <2>1. Text \in Texts
    BY <1>1, EmptyIsText DEF Text, IInv, TypeOK
  <2>2. Fits(Writing(text, New, Idle))
    BY <2>1, AddedIsChanged, WritingFits
  <2> QED
    BY <1>1, <2>2, ReadingFits
<1>2. CASE Ends(t)
  BY <1>2, EndingFits
<1> QED
  BY <1>1, <1>2 DEF Add

LEMMA RemoveFits ==
  ASSUME IInv, FreshFits, NEW t \in Tools, NEW name, Remove(t, name)
  PROVE  FreshFits'
<1>1. PICK i \in DOMAIN file :
        Reads(t, Writing(Without(file, i), file[i], Idle))
  BY DEF Remove
<1>2. file \in Texts /\ Text = file
  BY DEF Remove, Valid, Text, IInv, TypeOK
<1>3. file[i] \in Blocks
  BY <1>2, TextsAreSeqs, ElementOfSeq, LenProperties
<1>4. Fits(Writing(Without(file, i), file[i], Idle))
  BY <1>2, <1>3, OneBlockIsChanged, WritingFits
<1> QED
  BY <1>1, <1>4, ReadingFits

LEMMA EditFits ==
  ASSUME IInv, FreshFits, NEW t \in Tools, NEW name, Edit(t, name)
  PROVE  FreshFits'
<1>1. PICK i \in DOMAIN file :
        Reads(t, [doing |-> "editing", text |-> file, index |-> i])
  BY DEF Edit
<1> DEFINE memory == [doing |-> "editing", text |-> file, index |-> i]
<1>2. Fits(memory)
  BY DEF Fits
<1> QED
  BY <1>1, <1>2, ReadingFits

LEMMA OpenFits ==
  ASSUME IInv, FreshFits, NEW t \in Tools, Open(t) PROVE FreshFits'
<1> DEFINE memory == [doing |-> IF file = Absent THEN "creating" ELSE "inPlace"]
<1>1. Fits(memory)
  BY DEF Fits
<1> QED
  BY <1>1, ReadingFits DEF Open

LEMMA SaveTextFits ==
  ASSUME IInv, FreshFits, NEW t \in Tools, NEW text, SaveText(t, text)
  PROVE  FreshFits'
<1>1. Fits(Writing(text, Whole, Idle))
  BY WritingFits
<1> QED
  BY <1>1, ReadingFits DEF SaveText

LEMMA CloseEditorFits ==
  ASSUME IInv, FreshFits, NEW t \in Tools, NEW block \in Named,
         CloseEditor(t, block)
  PROVE  FreshFits'
<1> DEFINE old == tool[t].text
           i == tool[t].index
           memory == Writing(Replaced(old, i, block), old[i], Idle)
<1>1. CASE Goes(t, memory) /\ UNCHANGED <<file, fresh>>
  <2>1. old \in Texts /\ i \in DOMAIN old
    BY Remembers DEF CloseEditor, Is, IInv, Candidates, Sound
  <2>2. ASSUME fresh[t] PROVE Text = old
    BY <2>1, <2>2, TextAssumption DEF CloseEditor, Is, FreshFits, Fits, Text
  <2>3. fresh[t] => Fits(memory)
    BY <2>1, <2>2, OneBlockIsChanged, WritingFits DEF Named, Blocks
  <2> QED
    BY <1>1, <2>3, FitsGoingOn
<1>2. CASE Ends(t)
  BY <1>2, EndingFits
<1> QED
  BY <1>1, <1>2 DEF CloseEditor, Ends

LEMMA UpdateFits ==
  ASSUME IInv, FreshFits, NEW t \in Tools, NEW block \in Blocks,
         Is(t, "shown"), Update(t, tool[t].index, block, tool[t].block)
  PROVE  FreshFits'
<1> DEFINE i == tool[t].index
           memory == Writing(Replaced(file, i, block), tool[t].block, Chosen(i))
<1>1. CASE Goes(t, memory) /\ UNCHANGED <<file, fresh>>
  <2>1. ASSUME fresh[t] PROVE Fits(memory)
    <3>1. /\ file \in Texts /\ i \in DOMAIN file /\ file[i] = tool[t].block
      BY <2>1 DEF Is, FreshFits, Fits
    <3>2. Text = file
      BY <3>1, TextAssumption DEF Text
    <3> QED
      BY <3>1, <3>2, OneBlockIsChanged, WritingFits
  <2> QED
    BY <1>1, <2>1, FitsGoingOn
<1>2. CASE Goes(t, Chosen(i)) /\ UNCHANGED <<file, fresh>>
  <2>1. Fits(Chosen(i))
    BY DEF Fits, Chosen
  <2> QED
    BY <1>2, <2>1, FitsGoingOn
<1> QED
  BY <1>1, <1>2 DEF Update

LEMMA SetupFits ==
  ASSUME IInv, FreshFits, NEW t \in Tools, Setup(t) PROVE FreshFits'
<1>1. ASSUME NEW name \in Names \ {Unnamed}, AskName(t, name) PROVE FreshFits'
  <2> DEFINE memory == [doing |-> "asking", name |-> name]
  <2>1. Fits(memory)
    BY DEF Fits
  <2> QED
    BY <1>1, <2>1, ReadingFits DEF AskName
<1>2. ASSUME NEW value \in Values, SaveNew(t, value) PROVE FreshFits'
  <2>1. [name |-> tool[t].name, value |-> value] \in Blocks
    BY <1>2, Remembers DEF SaveNew, Blocks
  <2> QED
    BY <1>2, <2>1, AddFits DEF SaveNew
<1> QED
  BY <1>1, <1>2 DEF Setup

LEMMA GuidedFits ==
  ASSUME IInv, FreshFits, NEW t \in Tools, Guided(t) PROVE FreshFits'
<1>1. ASSUME NEW i, Choose(t, i) PROVE FreshFits'
  <2>1. Fits(Chosen(i))
    BY DEF Fits, Chosen
  <2> QED
    BY <1>1, <2>1, ReadingFits DEF Choose
<1>2. CASE Show(t)
  <2> DEFINE i == tool[t].index
             memory == [doing |-> "shown", index |-> i, block |-> file[i]]
  <2>1. CASE Valid(file) /\ i \in DOMAIN file /\ Reads(t, memory)
    <3>1. file \in Texts
      BY <2>1 DEF Valid, IInv, TypeOK
    <3>2. Fits(memory)
      BY <2>1, <3>1 DEF Fits
    <3> QED
      BY <2>1, <3>2, ReadingFits
  <2>2. CASE Ends(t)
    BY <2>2, EndingFits
  <2> QED
    BY <1>2, <2>1, <2>2 DEF Show
<1>3. CASE Advanced(t)
  BY <1>3, OpenFits, EditFits DEF Advanced
<1>4. ASSUME NEW block \in Blocks, SaveField(t, block) PROVE FreshFits'
  BY <1>4, UpdateFits DEF SaveField
<1> QED
  BY <1>1, <1>2, <1>3, <1>4 DEF Guided

LEMMA InEditorFits ==
  ASSUME IInv, FreshFits, NEW t \in Tools, InEditor(t) PROVE FreshFits'
<1>1. ASSUME NEW block \in Named, CloseEditor(t, block) PROVE FreshFits'
  BY <1>1, CloseEditorFits
<1>2. CASE CreateDefault(t)
  <2>1. tool'[t].doing = "inPlace"
    BY <1>2 DEF CreateDefault, Goes, IInv, TypeOK
  <2> QED
    BY <1>2, <2>1, FitsReplacing DEF CreateDefault
<1>3. ASSUME NEW text, SaveInPlace(t, text) PROVE FreshFits'
  BY <1>3, FitsReplacing DEF SaveInPlace, Is
<1> QED
  BY <1>1, <1>2, <1>3 DEF InEditor

LEMMA PublishFits ==
  ASSUME IInv, NEW t \in Tools, Publish(t) PROVE FreshFits'
<1>1. tool'[t] = tool[t].then
  BY DEF Publish, Goes, IInv, TypeOK
<1>2. tool[t].then.doing \in {"nothing", "chosen"}
  BY Remembers DEF Publish, Thens, Idle, Chosen
<1> QED
  BY <1>1, <1>2, FitsReplacing DEF Publish

LEMMA NextFits == ASSUME IInv, FreshFits, [Next]_vars PROVE FreshFits'
<1>1. CASE UNCHANGED vars
  BY <1>1 DEF vars, FreshFits, Fits, Text
<1>2. ASSUME NEW t \in Tools, Command(t) \/ Request(t) PROVE FreshFits'
  <2>1. ASSUME NEW block \in Named, Add(t, block) PROVE FreshFits'
    BY <2>1, AddFits DEF Named, Blocks
  <2> QED
    BY <1>2, <2>1, RemoveFits, EditFits, OpenFits, SaveTextFits
    DEF Command, Request
<1>3. ASSUME NEW t \in Tools, GivesUp(t) PROVE FreshFits'
  BY <1>3, EndingFits DEF GivesUp
<1> QED
  BY <1>1, <1>2, <1>3, SetupFits, GuidedFits, InEditorFits, PublishFits DEF Next

\* A process nobody else got in the way of between its read and its rename
\* (config_manager.rs) publishes the file as it is with the change that was
\* asked for, of the block that was asked for, and nothing else.
THEOREM AloneIsExact == Spec => UndisturbedIsExact
<1> DEFINE Exact == \A t \in Tools : fresh[t] =>
                      /\ Publish(t) /\ tool[t].of # Whole =>
                           Changed(Text, tool[t].of, file')
                      /\ CreateDefault(t) => file = Absent
<1>1. FreshFits => Exact
  BY DEF FreshFits, Fits, Publish, CreateDefault, Replaces, Is
<1>2. IInv /\ FreshFits /\ [Next]_vars => IInv' /\ FreshFits'
  BY NextHolds, NextFits
<1>3. Init => IInv /\ FreshFits
  BY InitHolds, InitFits
<1> HIDE DEF Exact
<1>4. Spec => [][Exact]_vars
  BY <1>1, <1>2, <1>3, PTL DEF Spec
<1> QED
  BY <1>4 DEF Exact, UndisturbedIsExact
=============================================================================
