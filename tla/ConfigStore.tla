----------------------------- MODULE ConfigStore -----------------------------
(***************************************************************************)
(* The config file and the processes that change it: single commands,      *)
(* guided dialogs, editors and browser managers, several of which may be   *)
(* open at once.  Nothing locks the file.  A change (config_manager.rs)    *)
(* reads the text, replaces one [[redirect]] block of it, parses the       *)
(* result and renames it over the file; between the read and the rename an *)
(* editor may be open for minutes, and a dialog remembers the block it has *)
(* offered only by its position.  The text is the sequence of its blocks.  *)
(***************************************************************************)
EXTENDS Naturals, Sequences

CONSTANTS
  Tools,         \* processes that change the config
  Names,
  Values,        \* what else a redirect configures
  Unnamed,       \* the name of a redirect without one
  Absent,        \* there is no file
  Broken,        \* its text is not a config
  MaxRedirects   \* bound of the model: blocks in the file

Blocks == [name : Names, value : Values]
Named  == [name : Names \ {Unnamed}, value : Values]
Texts  == UNION {[1..n -> Blocks] : n \in 0..MaxRedirects}

ASSUME BoundAssumption == MaxRedirects \in Nat
ASSUME TextAssumption == Unnamed \in Names /\ {Absent, Broken} \cap Texts = {}

VARIABLES
  file,  \* the text of the config file
  tool,  \* [process -> what it is doing and remembers]
  fresh  \* history: [process -> nobody else changed the file since it read it]

vars == <<file, tool, fresh>>

Idle == [doing |-> "nothing"]
\* A change that is parsed and only has to be written: its text, the block it
\* was asked to change, and how the process goes on.
New   == [name |-> "new"]
Whole == [name |-> "whole"]
Writing(text, of, then) ==
  [doing |-> "writing", text |-> text, of |-> of, then |-> then]
Chosen(i) == [doing |-> "chosen", index |-> i]

NamesOf(text) == {text[i].name : i \in DOMAIN text} \ {Unnamed}
\* FileConfig::parse: no redirects, or a name twice, is an error.
Unique(text) == \A i, j \in DOMAIN text :
  text[i].name = text[j].name => i = j \/ text[i].name = Unnamed
Valid(text) == text \notin {Absent, Broken, <<>>} /\ Unique(text)
\* What save_text takes: an empty config as well, although none starts from it.
\* Two redirects may still listen on one address, which only apply looks at.
Parses(text) == text = <<>> \/ Valid(text)

\* redirect_ranges: a block ends where the next one begins.
\* Mutant: the ranges are counted from the end of the first block.
Without_Late(text, i) == SubSeq(text, 1, i) \o SubSeq(text, i + 2, Len(text))
Without(text, i) == SubSeq(text, 1, i - 1) \o SubSeq(text, i + 1, Len(text))
Replaced(text, i, block) == [text EXCEPT ![i] = block]

Init ==
  /\ file \in {Absent} \cup {text \in Texts : Parses(text)}
  /\ tool = [t \in Tools |-> Idle]
  /\ fresh = [t \in Tools |-> FALSE]
-----------------------------------------------------------------------------
(* Reading and writing *)

Is(t, doing) == tool[t].doing = doing
Goes(t, memory) == tool' = [tool EXCEPT ![t] = memory]
\* The process reads the file and remembers something of it.
Reads(t, memory) ==
  /\ Goes(t, memory) /\ fresh' = [fresh EXCEPT ![t] = TRUE]
  /\ UNCHANGED file
Ends(t) == Goes(t, Idle) /\ UNCHANGED <<file, fresh>>
Replaces(t, text) ==
  /\ file' = text
  /\ fresh' = [u \in Tools |-> u = t /\ fresh[u]]

\* read_or_default: the default config has no redirects.
Text == IF file = Absent THEN <<>> ELSE file
HasRoom == Text # Broken => Len(Text) < MaxRedirects

\* write_atomic: a file of the process's own, renamed over the config.
Publish(t) ==
  /\ Is(t, "writing")
  /\ Replaces(t, tool[t].text) /\ Goes(t, tool[t].then)

\* The user gives up, the write fails, or the process is killed: the config is
\* as it was.
GivesUp(t) == tool[t] # Idle /\ Ends(t)
-----------------------------------------------------------------------------
(* config_manager.rs *)

\* add, also of a redirect a dialog has asked for meanwhile.
Add(t, block) ==
  LET text == Append(Text, block)
  IN  IF Text # Broken /\ block.name \notin NamesOf(Text) /\ Valid(text)
        THEN Reads(t, Writing(text, New, Idle))
        ELSE Ends(t)

\* remove; what is left of the last redirect's file is not parsed.
Remove(t, name) == Valid(file) /\ \E i \in DOMAIN file :
  /\ file[i].name = name
  /\ Len(file) = 1 \/ Valid(Without(file, i))
  /\ Reads(t, Writing(Without(file, i), file[i], Idle))

\* edit: one block is opened in an editor; the rest of the file is remembered.
Edit(t, name) == Valid(file) /\ \E i \in DOMAIN file :
  /\ file[i].name = name
  /\ Reads(t, [doing |-> "editing", text |-> file, index |-> i])

\* Mutant: the result is not parsed as a whole.
CloseEditor_Unparsed(t, block) ==
  LET was == tool[t] IN
  /\ Is(t, "editing")
  /\ Goes(t, Writing(Replaced(was.text, was.index, block), was.text[was.index],
                     Idle))
  /\ UNCHANGED <<file, fresh>>
CloseEditor(t, block) ==
  LET was  == tool[t]
      text == Replaced(was.text, was.index, block)
  IN  /\ Is(t, "editing")
      /\ Goes(t, IF Valid(text)
                   THEN Writing(text, was.text[was.index], Idle) ELSE Idle)
      /\ UNCHANGED <<file, fresh>>

\* update, for a block that was offered before; an index that is out of range
\* by now is an error the dialog goes on after.
Update(t, i, block, was) ==
  /\ Goes(t, IF /\ Valid(file) /\ i \in DOMAIN file
                /\ Valid(Replaced(file, i, block))
               THEN Writing(Replaced(file, i, block), was, Chosen(i))
               ELSE Chosen(i))
  /\ UNCHANGED <<file, fresh>>

\* save_text
SaveText(t, text) == Parses(text) /\ Reads(t, Writing(text, Whole, Idle))
-----------------------------------------------------------------------------
(* edit_config.rs: the file itself is opened in an editor *)

\* path.exists, and else the default is written to the path.
Open(t) ==
  Reads(t, [doing |-> IF file = Absent THEN "creating" ELSE "inPlace"])
CreateDefault(t) ==
  /\ Is(t, "creating")
  /\ Replaces(t, <<>>) /\ Goes(t, [doing |-> "inPlace"])

\* An editor writes what it likes into the file, any number of times.
SaveInPlace(t, text) ==
  /\ Is(t, "inPlace")
  /\ Replaces(t, text) /\ UNCHANGED tool
-----------------------------------------------------------------------------
(* The dialogs of setup.rs *)

\* Setup asks for a name that is free, and for everything else after that.
AskName(t, name) ==
  /\ Is(t, "nothing") /\ Text # Broken /\ name \notin NamesOf(Text)
  /\ Reads(t, [doing |-> "asking", name |-> name])
SaveNew(t, value) ==
  /\ Is(t, "asking") /\ HasRoom
  /\ Add(t, [name |-> tool[t].name, value |-> value])
Setup(t) == \/ \E name \in Names \ {Unnamed} : AskName(t, name)
            \/ \E value \in Values : SaveNew(t, value)

\* The guided edit: a service is chosen from a list ...
Choose(t, i) ==
  /\ Is(t, "nothing") /\ Valid(file) /\ i \in DOMAIN file
  /\ Reads(t, Chosen(i))
\* ... read again by its position, and shown; that it is no longer there ends
\* the process.
Show(t) ==
  LET i == tool[t].index IN
  /\ Is(t, "chosen")
  /\ IF Valid(file) /\ i \in DOMAIN file
       THEN Reads(t, [doing |-> "shown", index |-> i, block |-> file[i]])
       ELSE Ends(t)
\* One field is changed, and the service is shown again ...
SaveField(t, block) ==
  /\ Is(t, "shown")
  /\ block.name = tool[t].block.name \/ block.value = tool[t].block.value
  /\ block.name = Unnamed => tool[t].block.name = Unnamed
  /\ Update(t, tool[t].index, block, tool[t].block)
\* ... or it is opened in an editor, which leads back to the list; one without
\* a name as the whole file.
Advanced(t) ==
  /\ Is(t, "shown")
  /\ IF tool[t].block.name = Unnamed THEN Open(t)
                                     ELSE Edit(t, tool[t].block.name)
Guided(t) == \/ \E i \in 1..MaxRedirects : Choose(t, i)
             \/ Show(t) \/ Advanced(t)
             \/ \E block \in Blocks : SaveField(t, block)
-----------------------------------------------------------------------------
(* Who calls them *)

\* A command of the command line, which ends with its change ...
Command(t) ==
  /\ Is(t, "nothing")
  /\ \/ HasRoom /\ \E block \in Named : Add(t, block)
     \/ \E name \in Names \ {Unnamed} : Remove(t, name) \/ Edit(t, name)
     \/ Open(t)
\* ... and a request to the browser manager, which serves one at a time.
Request(t) ==
  /\ Is(t, "nothing")
  /\ \/ HasRoom /\ \E block \in Named : Add(t, block)
     \/ \E name \in Names \ {Unnamed} : Remove(t, name)
     \/ \E text \in Texts : SaveText(t, text)

InEditor(t) == \/ \E block \in Named : CloseEditor(t, block)
               \/ CreateDefault(t)
               \/ \E text \in Texts \cup {Broken} : SaveInPlace(t, text)

Next == \E t \in Tools :
  Command(t) \/ Request(t) \/ Setup(t) \/ Guided(t) \/ InEditor(t)
    \/ Publish(t) \/ GivesUp(t)

Spec == Init /\ [][Next]_vars
-----------------------------------------------------------------------------
(* What the store promises *)

Memory ==
  [doing : {"nothing", "creating", "inPlace"}] \cup
  [doing : {"asking"}, name : Names \ {Unnamed}] \cup
  [doing : {"chosen"}, index : 1..MaxRedirects] \cup
  [doing : {"shown"}, index : 1..MaxRedirects, block : Blocks] \cup
  [doing : {"editing"}, text : Texts, index : 1..MaxRedirects] \cup
  [doing : {"writing"}, text : Texts, of : Blocks \cup {New, Whole},
   then : {Idle} \cup {Chosen(i) : i \in 1..MaxRedirects}]

TypeOK ==
  /\ file \in Texts \cup {Absent, Broken}
  /\ tool \in [Tools -> Memory]
  /\ fresh \in [Tools -> BOOLEAN]

\* "Each change ... is validated before writing" (docs/usage.md), that is, by
\* FileConfig::parse: whatever other processes do between its read and its
\* rename, none of them but an editor on the file itself turns a config that
\* parses into one that does not.  It says nothing of listeners: a config that
\* parses may still be one that every reload rejects.
StaysParsable ==
  [][Parses(file) /\ ~Parses(file') =>
       \E t \in Tools : Is(t, "inPlace")]_vars

\* The text with the block that was asked for changed or removed, or with one
\* more, and nothing else.
Changed(old, of, new) ==
  IF of = New THEN Len(new) = Len(old) + 1 /\ SubSeq(new, 1, Len(old)) = old
  ELSE \E i \in DOMAIN old :
         /\ old[i] = of
         /\ \/ new = SubSeq(old, 1, i - 1) \o SubSeq(old, i + 1, Len(old))
            \/ \E block \in Blocks : new = [old EXCEPT ![i] = block]

\* "Preserve the rest of the TOML file verbatim" (config_manager.rs), as far as
\* it holds: a process nobody else got in the way of changes the very block
\* that it was asked to change or that it has shown, and creates a config only
\* where there is none.
UndisturbedIsExact ==
  [][\A t \in Tools : fresh[t] =>
       /\ Publish(t) /\ tool[t].of # Whole =>
            Changed(Text, tool[t].of, file')
       /\ CreateDefault(t) => file = Absent]_vars

\* "Other service blocks are preserved" (docs/usage.md) by a change of the
\* guided edit: what it saves replaces the service it has shown, and no other.
OthersArePreserved ==
  [][\A t \in Tools : Publish(t) /\ tool[t].then # Idle /\ Valid(file) =>
       \A i \in DOMAIN file : file[i] # tool[t].of =>
         \E j \in DOMAIN file' : file'[j] = file[i]]_vars
=============================================================================
