--------------------------- MODULE PromptLoop_proofs ---------------------------
(***************************************************************************)
(* What PromptLoop promises for any number of processes, providers and     *)
(* sessions: a key stays saved, one Ctrl+C never leaves the program, a     *)
(* session can be resumed, and a task that exits with 0 was answered.      *)
(***************************************************************************)
EXTENDS PromptLoop, TLAPS, WellFoundedInduction

keyVars == <<auth, saved, raced>>

-------------------------------------------------------------------------------
(* Keys.                                                                   *)

\* What a process is about to write holds what it read and what it will report.
DraftsWhole ==
  \A t \in Terminals :
    /\ draft[t].then # "saving"
    /\ pc[t] = "saving" =>
         draft[t].seen \subseteq draft[t].keys /\ draft[t].adds \subseteq draft[t].keys

KeysInv ==
  /\ DOMAIN pc = Terminals /\ DOMAIN draft = Terminals
  /\ DraftsWhole
  /\ KeysKept

\* A step of one process that saves nothing leaves the drafts of the others.
LEMMA KeysQuiet ==
  ASSUME KeysInv, NEW t \in Terminals, UNCHANGED keyVars,
         NEW there, pc' = [pc EXCEPT ![t] = there], there # "saving",
         draft' = draft \/ draft' = [draft EXCEPT ![t] = NoDraft]
  PROVE  KeysInv'
BY DEF KeysInv, DraftsWhole, KeysKept, keyVars, NoDraft

LEMMA KeysStay ==
  ASSUME KeysInv, UNCHANGED <<keyVars, pc, draft>>
  PROVE  KeysInv'
BY DEF KeysInv, DraftsWhole, KeysKept, keyVars

LEMMA KeysSave ==
  ASSUME KeysInv, NEW t \in Terminals, UNCHANGED keyVars,
         NEW keys, NEW there, there # "saving", Save(t, keys, there)
  PROVE  KeysInv'
BY DEF KeysInv, DraftsWhole, KeysKept, keyVars, Save, GoTo

\* A draft that replaces the file keeps what it read, and races with the rest.
LEMMA KeysReplace ==
  ASSUME KeysInv, NEW t \in Terminals, Replace(t)
  PROVE  KeysInv'
<1>1. KeysKept'
  BY DEF KeysInv, DraftsWhole, KeysKept, Replace
<1>2. PICK there : there # "saving" /\ pc' = [pc EXCEPT ![t] = there]
  BY DEF Replace, GoTo, KeysInv, DraftsWhole
<1>3. draft' = [draft EXCEPT ![t] = NoDraft]
  BY DEF Replace
<1>4. (DOMAIN pc = Terminals /\ DOMAIN draft = Terminals /\ DraftsWhole)'
  BY <1>2, <1>3 DEF KeysInv, DraftsWhole, NoDraft
<1>. QED  BY <1>1, <1>4 DEF KeysInv

LEMMA KeysExit ==
  ASSUME KeysInv, NEW t \in Terminals, UNCHANGED keyVars, NEW how, Exit(t, how)
  PROVE  KeysInv'
<1>. DEFINE there == IF how \in Gone THEN how ELSE "off"
<1>1. there # "saving"
  BY DEF Gone
<1>2. pc' = [pc EXCEPT ![t] = there] /\ draft' = [draft EXCEPT ![t] = NoDraft]
  BY DEF Exit, GoTo
<1>. HIDE DEF there
<1>. QED  BY <1>1, <1>2, KeysQuiet

LEMMA KeysStart ==
  ASSUME KeysInv, NEW t \in Terminals,
         StartFresh(t) \/ Resume(t) \/ Continue(t)
  PROVE  KeysInv'
<1>0. UNCHANGED keyVars
  BY DEF StartFresh, Resume, Continue, Launch, keyVars
<1>1. CASE \E given \in BOOLEAN : Save(t, {}, AfterStart(given))
  BY <1>0, <1>1, KeysSave DEF AfterStart
<1>2. CASE \E there : there # "saving" /\ GoTo(t, there) /\ UNCHANGED draft
  BY <1>0, <1>2, KeysQuiet DEF GoTo
<1>3. \/ \E given \in BOOLEAN : Save(t, {}, AfterStart(given))
      \/ \E there : there # "saving" /\ GoTo(t, there) /\ UNCHANGED draft
  <2>1. CASE StartFresh(t)
    <3>1. PICK given \in Given(t), p \in Providers :
            \/ Save(t, {}, AfterStart(given))
            \/ GoTo(t, "off") /\ UNCHANGED draft
            \/ GoTo(t, IF HasKey(p) THEN "prompt" ELSE "key") /\ UNCHANGED draft
      BY <2>1 DEF StartFresh
    <3>. QED  BY <3>1 DEF Given
  <2>2. ASSUME NEW f, StartWith(t, f)
        PROVE  \E there : there # "saving" /\ GoTo(t, there) /\ UNCHANGED draft
    BY <2>2 DEF StartWith, AfterStart
  <2>3. CASE Resume(t)
    BY <2>2, <2>3 DEF Resume
  <2>4. CASE Continue(t)
    BY <2>2, <2>4 DEF Continue
  <2>. QED  BY <2>1, <2>3, <2>4
<1>. QED  BY <1>1, <1>2, <1>3

LEMMA KeysCommand ==
  ASSUME KeysInv, NEW t \in Terminals,
         EnterKey(t) \/ PressAtPrompt(t) \/ Quit(t) \/ New(t) \/ Compact(t)
           \/ EndCompact(t) \/ Model(t) \/ EndModel(t) \/ Die(t)
  PROVE  KeysInv'
<1>0. UNCHANGED keyVars
  BY DEF EnterKey, PressAtPrompt, Quit, New, Compact, EndCompact, Model, EndModel, Die,
         AtPrompt, keyVars
<1>1. CASE \E how : Exit(t, how)
  BY <1>0, <1>1, KeysExit
<1>2. CASE \E keys : Save(t, keys, "create") \/ Save(t, keys, "prompt")
  BY <1>0, <1>2, KeysSave
<1>3. CASE \E there : there # "saving" /\ GoTo(t, there) /\ UNCHANGED draft
  BY <1>0, <1>3, KeysQuiet DEF GoTo
<1>4. CASE UNCHANGED <<pc, draft>>
  BY <1>0, <1>4, KeysStay
<1>5. \/ \E how : Exit(t, how)
      \/ \E keys : Save(t, keys, "create") \/ Save(t, keys, "prompt")
      \/ \E there : there # "saving" /\ GoTo(t, there) /\ UNCHANGED draft
      \/ UNCHANGED <<pc, draft>>
  <2>1. CASE EnterKey(t)  BY <2>1 DEF EnterKey
  <2>2. CASE PressAtPrompt(t)  BY <2>2 DEF PressAtPrompt
  <2>3. CASE Quit(t)  BY <2>3 DEF Quit
  <2>4. CASE New(t)  BY <2>4 DEF New
  <2>5. CASE Compact(t) \/ Model(t)  BY <2>5 DEF Compact, Model
  <2>6. CASE EndCompact(t)  BY <2>6 DEF EndCompact
  <2>7. CASE EndModel(t)  BY <2>7 DEF EndModel
  <2>8. CASE Die(t)  BY <2>8 DEF Die
  <2>. QED  BY <2>1, <2>2, <2>3, <2>4, <2>5, <2>6, <2>7, <2>8
<1>. QED  BY <1>1, <1>2, <1>3, <1>4, <1>5

LEMMA KeysRun ==
  ASSUME KeysInv, NEW t \in Terminals, Task(t) \/ Run(t)
  PROVE  KeysInv'
<1>0. UNCHANGED keyVars
  BY DEF Task, Run, BeginRun, CallTools, EndTools, Answer, EndRun, RaiseRun, Commit,
         AtPrompt, keyVars
<1>1. CASE \E how : Exit(t, how)
  BY <1>0, <1>1, KeysExit
<1>2. CASE \E there : there # "saving" /\ GoTo(t, there) /\ UNCHANGED draft
  BY <1>0, <1>2, KeysQuiet DEF GoTo
<1>3. \/ \E how : Exit(t, how)
      \/ \E there : there # "saving" /\ GoTo(t, there) /\ UNCHANGED draft
  <2>1. CASE Task(t)  BY <2>1 DEF Task
  <2>2. ASSUME NEW last, NEW byInterrupt, NEW new, AfterRun(t, last, byInterrupt, new)
        PROVE  \/ \E how : Exit(t, how)
               \/ \E there : there # "saving" /\ GoTo(t, there) /\ UNCHANGED draft
    BY <2>2 DEF AfterRun
  <2>3. CASE EndRun(t)  BY <2>2, <2>3 DEF EndRun
  <2>4. CASE RaiseRun(t)  BY <2>2, <2>4 DEF RaiseRun
  <2>5. CASE BeginRun(t) \/ CallTools(t) \/ EndTools(t) \/ Answer(t)
    BY <2>5 DEF BeginRun, CallTools, EndTools, Answer, Commit
  <2>. QED  BY <2>1, <2>3, <2>4, <2>5 DEF Run
<1>. QED  BY <1>1, <1>2, <1>3

LEMMA KeysStep == KeysInv /\ [Next]_vars => KeysInv'
<1>. SUFFICES ASSUME KeysInv, [Next]_vars PROVE KeysInv'
  OBVIOUS
<1>1. CASE UNCHANGED vars
  BY <1>1, KeysStay DEF vars, keyVars
<1>2. CASE Next
  BY <1>2, KeysStart, KeysReplace, KeysCommand, KeysRun DEF Next
<1>. QED  BY <1>1, <1>2

\* A key the program reported as saved is in auth.json ever after, or was
\* overwritten by a process that had read the file before (_write_auth_file).
THEOREM KeysStaySaved == Spec => []KeysKept
<1>1. Init => KeysInv
  BY DEF Init, KeysInv, DraftsWhole, KeysKept, NoDraft
<1>2. KeysInv => KeysKept
  BY DEF KeysInv
<1>. QED  BY <1>1, <1>2, KeysStep, PTL DEF Spec

-------------------------------------------------------------------------------
(* Ctrl+C.                                                                 *)

\* What the argument needs of a local: its fields, the range of the streak and
\* that no reason is the name of an end of the process.
IsLocal(l) ==
  /\ DOMAIN l = {"once", "streak", "reason", "pressed", "stale"}
  /\ l.streak \in 0 .. 1
  /\ l.reason \in Reasons \cup {"none"}

\* Where a process in saving goes on.
Onward == {"off", "begin", "prompt", "create"}

\* A counted Ctrl+C was pressed right before, or is the stale one; in a run none
\* is counted.
StreakPressed(t) ==
  /\ local[t].streak = 1 => local[t].pressed = 1 \/ local[t].stale
  /\ pc[t] \in InRun \/ (pc[t] = "saving" /\ draft[t].then = "begin") => local[t].streak = 0

PressInv ==
  /\ DOMAIN pc = Terminals /\ DOMAIN local = Terminals /\ DOMAIN draft = Terminals
  /\ \A t \in Terminals : IsLocal(local[t])
  /\ \A t \in Terminals : draft[t].then \in Onward
  /\ \A t \in Terminals : StreakPressed(t)

\* What a step of process t may do: pc, local and draft of t become there, new
\* and d, or stay what they were.
Put(f, g, t, v) == g = [f EXCEPT ![t] = v] \/ (g = f /\ v = f[t])
Moves(t, there, new, d) ==
  Put(pc, pc', t, there) /\ Put(local, local', t, new) /\ Put(draft, draft', t, d)

PressKept(there, new, d) ==
  /\ IsLocal(new)
  /\ d.then \in Onward
  /\ new.streak = 1 => new.pressed = 1 \/ new.stale
  /\ there \in InRun \/ (there = "saving" /\ d.then = "begin") => new.streak = 0

LEMMA PressMoves ==
  ASSUME PressInv, NEW t \in Terminals, NEW there, NEW new, NEW d,
         Moves(t, there, new, d), PressKept(there, new, d)
  PROVE  PressInv'
<1>1. /\ DOMAIN pc' = Terminals /\ DOMAIN local' = Terminals /\ DOMAIN draft' = Terminals
      /\ pc'[t] = there /\ local'[t] = new /\ draft'[t] = d
      /\ \A s \in Terminals \ {t} :
           pc'[s] = pc[s] /\ local'[s] = local[s] /\ draft'[s] = draft[s]
  BY DEF PressInv, Moves, Put
<1>. QED  BY <1>1 DEF PressInv, PressKept, StreakPressed

LEMMA PressStay ==
  ASSUME PressInv, UNCHANGED <<pc, local, draft>>
  PROVE  PressInv'
BY DEF PressInv, StreakPressed

\* A process that starts or ends is given a fresh local.
LEMMA FreshLocal ==
  ASSUME NEW given \in BOOLEAN
  PROVE  IsLocal(NewLocal(given)) /\ NewLocal(given).streak = 0
BY DEF NewLocal, IsLocal

\* A step to a place outside the run that leaves local alone.
LEMMA PressGo ==
  ASSUME PressInv, NEW t \in Terminals, NEW there, there \notin InRun \cup {"saving"},
         GoTo(t, there), UNCHANGED <<local, draft>>
  PROVE  PressInv'
<1>1. Moves(t, there, local[t], draft[t])
  BY DEF Moves, Put, GoTo
<1>2. PressKept(there, local[t], draft[t])
  BY DEF PressKept, PressInv, StreakPressed
<1>. QED  BY <1>1, <1>2, PressMoves

\* A step that gives the process a local without a counted Ctrl+C.
LEMMA PressClear ==
  ASSUME PressInv, NEW t \in Terminals, NEW there, NEW new, NEW d,
         IsLocal(new), new.streak = 0, Moves(t, there, new, d), d.then \in Onward
  PROVE  PressInv'
<1>1. PressKept(there, new, d)
  BY DEF PressKept
<1>. QED  BY <1>1, PressMoves

LEMMA PressExit ==
  ASSUME PressInv, NEW t \in Terminals, NEW how, Exit(t, how)
  PROVE  PressInv'
<1>1. PICK there : Moves(t, there, NewLocal(FALSE), NoDraft)
  BY DEF Moves, Put, Exit, GoTo
<1>2. NoDraft.then \in Onward
  BY DEF NoDraft, Onward
<1>. QED  BY <1>1, <1>2, FreshLocal, PressClear

LEMMA PressAccept ==
  ASSUME PressInv, NEW t \in Terminals, NEW there, Accept(t),
         GoTo(t, there) \/ UNCHANGED pc, UNCHANGED draft
  PROVE  PressInv'
<1>. DEFINE new == [local[t] EXCEPT !.streak = 0, !.pressed = 0, !.stale = FALSE]
<1>1. IsLocal(new) /\ new.streak = 0
  BY DEF PressInv, IsLocal
<1>2. PICK to : Put(pc, pc', t, to)
  BY DEF Put, GoTo
<1>3. local' = [local EXCEPT ![t] = new]
  BY DEF Accept
<1>4. Moves(t, to, new, draft[t]) /\ draft[t].then \in Onward
  BY <1>2, <1>3 DEF Moves, Put, PressInv
<1>. HIDE DEF new
<1>. QED  BY <1>1, <1>4, PressClear

LEMMA PressSave ==
  ASSUME PressInv, NEW t \in Terminals, NEW keys, NEW there \in {"create", "prompt"},
         Save(t, keys, there), UNCHANGED local
  PROVE  PressInv'
<1>1. PICK d : d.then = there /\ Moves(t, "saving", local[t], d)
  BY DEF Moves, Put, Save, GoTo
<1>2. PressKept("saving", local[t], d)
  BY <1>1 DEF PressKept, PressInv, StreakPressed, Onward, InRun
<1>. QED  BY <1>1, <1>2, PressMoves

LEMMA PressReplace ==
  ASSUME PressInv, NEW t \in Terminals, Replace(t)
  PROVE  PressInv'
<1>1. pc[t] = "saving" /\ IsLocal(local[t]) /\ draft[t].then \in Onward
  BY DEF PressInv, Replace
<1>2. NoDraft.then \in Onward
  BY DEF NoDraft, Onward
<1>3. CASE GoTo(t, "prompt") /\ draft' = [draft EXCEPT ![t] = NoDraft] /\ UNCHANGED local
  <2>1. Moves(t, "prompt", local[t], NoDraft)
    BY <1>3 DEF Moves, Put, GoTo
  <2>2. PressKept("prompt", local[t], NoDraft)
    BY <1>2 DEF PressKept, PressInv, StreakPressed, InRun
  <2>. QED  BY <2>1, <2>2, PressMoves
<1>4. CASE /\ GoTo(t, "off") /\ draft' = [draft EXCEPT ![t] = NoDraft]
           /\ local' = [local EXCEPT ![t] = NewLocal(FALSE)]
  <2>1. Moves(t, "off", NewLocal(FALSE), NoDraft)
    BY <1>4 DEF Moves, Put, GoTo
  <2>. QED  BY <2>1, <1>2, FreshLocal, PressClear
<1>5. CASE /\ draft[t].then # "create" /\ GoTo(t, draft[t].then)
           /\ draft' = [draft EXCEPT ![t] = NoDraft] /\ UNCHANGED local
  <2>1. Moves(t, draft[t].then, local[t], NoDraft)
    BY <1>5 DEF Moves, Put, GoTo
  <2>2. PressKept(draft[t].then, local[t], NoDraft)
    BY <1>1, <1>2, <1>5 DEF PressKept, PressInv, StreakPressed, InRun, Onward
  <2>. QED  BY <2>1, <2>2, PressMoves
<1>. QED  BY <1>3, <1>4, <1>5 DEF Replace

LEMMA PressStart ==
  ASSUME PressInv, NEW t \in Terminals,
         StartFresh(t) \/ Resume(t) \/ Continue(t)
  PROVE  PressInv'
<1>1. ASSUME NEW given \in BOOLEAN, NEW there, Begin(t, given), GoTo(t, there),
             UNCHANGED draft
      PROVE  PressInv'
  <2>1. Moves(t, there, NewLocal(given), draft[t]) /\ draft[t].then \in Onward
    BY <1>1 DEF Moves, Put, GoTo, Begin, PressInv
  <2>. QED  BY <2>1, FreshLocal, PressClear
<1>2. ASSUME NEW given \in BOOLEAN, Begin(t, given), Save(t, {}, AfterStart(given))
      PROVE  PressInv'
  <2>1. AfterStart(given) \in Onward
    BY DEF AfterStart, Onward
  <2>2. PICK d : d.then = AfterStart(given) /\ Moves(t, "saving", NewLocal(given), d)
    BY <1>2 DEF Moves, Put, GoTo, Begin, Save
  <2>. QED  BY <2>1, <2>2, FreshLocal, PressClear
<1>3. CASE GoTo(t, "off") /\ UNCHANGED <<local, draft>>
  BY <1>3, PressGo DEF InRun
<1>4. CASE StartFresh(t)
  <2>1. PICK given \in Given(t) :
          \/ Begin(t, given) /\ Save(t, {}, AfterStart(given))
          \/ GoTo(t, "off") /\ UNCHANGED <<local, draft>>
          \/ Begin(t, given) /\ (\E there : GoTo(t, there)) /\ UNCHANGED draft
    BY <1>4 DEF StartFresh
  <2>. QED  BY <2>1, <1>1, <1>2, <1>3 DEF Given
<1>5. ASSUME NEW f, StartWith(t, f)
      PROVE  PressInv'
  <2>1. PICK given \in Given(t) :
          \/ GoTo(t, "off") /\ UNCHANGED <<local, draft>>
          \/ Begin(t, given) /\ (\E there : GoTo(t, there)) /\ UNCHANGED draft
    BY <1>5 DEF StartWith, Given
  <2>. QED  BY <2>1, <1>1, <1>3 DEF Given
<1>6. CASE Resume(t)
  BY <1>5, <1>6 DEF Resume
<1>7. CASE Continue(t)
  BY <1>3, <1>5, <1>7 DEF Continue
<1>. QED  BY <1>4, <1>6, <1>7

LEMMA PressCommand ==
  ASSUME PressInv, NEW t \in Terminals,
         EnterKey(t) \/ PressAtPrompt(t) \/ Quit(t) \/ New(t) \/ Compact(t)
           \/ EndCompact(t) \/ Model(t) \/ EndModel(t) \/ Task(t) \/ Die(t)
  PROVE  PressInv'
<1>1. CASE \E how : Exit(t, how)
  BY <1>1, PressExit
<1>2. CASE \E keys : (Save(t, keys, "create") \/ Save(t, keys, "prompt")) /\ UNCHANGED local
  BY <1>2, PressSave
<1>3. CASE GoTo(t, "prompt") /\ UNCHANGED <<local, draft>>
  BY <1>3, PressGo DEF InRun
<1>4. CASE \E there : Accept(t) /\ (GoTo(t, there) \/ UNCHANGED pc) /\ UNCHANGED draft
  BY <1>4, PressAccept
<1>5. CASE EnterKey(t)
  BY <1>1, <1>2, <1>3, <1>5 DEF EnterKey
<1>6. CASE PressAtPrompt(t)
  <2>1. CASE local[t].streak + 1 >= 2
    BY <1>1, <1>6, <2>1 DEF PressAtPrompt
  <2>2. CASE ~(local[t].streak + 1 >= 2)
    <3>. DEFINE new == [local[t] EXCEPT !.streak = @ + 1, !.pressed = 1]
    <3>1. pc[t] = "prompt" /\ IsLocal(local[t]) /\ draft[t].then \in Onward
      BY <1>6 DEF PressAtPrompt, AtPrompt, PressInv
    <3>2. local[t].streak = 0
      BY <2>2, <3>1 DEF IsLocal
    <3>3. IsLocal(new) /\ new.pressed = 1
      BY <3>1, <3>2 DEF IsLocal
    <3>4. Moves(t, "prompt", new, draft[t])
      BY <1>6, <2>2, <3>1 DEF PressAtPrompt, Moves, Put
    <3>. HIDE DEF new
    <3>5. PressKept("prompt", new, draft[t])
      BY <3>1, <3>3 DEF PressKept, InRun
    <3>. QED  BY <3>4, <3>5, PressMoves
  <2>. QED  BY <2>1, <2>2
<1>7. CASE Quit(t) \/ Die(t)
  BY <1>1, <1>7 DEF Quit, Die
<1>8. CASE New(t) \/ Compact(t) \/ Model(t) \/ Task(t)
  BY <1>4, <1>8 DEF New, Compact, Model, Task
<1>9. CASE EndCompact(t)
  BY <1>1, <1>3, <1>9 DEF EndCompact
<1>10. CASE EndModel(t)
  BY <1>1, <1>2, <1>3, <1>10 DEF EndModel
<1>. QED  BY <1>5, <1>6, <1>7, <1>8, <1>9, <1>10

\* How a run is left: the streak is 1 only with a Ctrl+C, or with what an
\* earlier run left, both of which new records.
LEMMA PressAfterRun ==
  ASSUME PressInv, NEW t \in Terminals, pc[t] \in InRun,
         NEW last \in Reasons \cup {"none"}, NEW byInterrupt \in BOOLEAN, NEW new,
         AfterRun(t, last, byInterrupt, new), UNCHANGED draft \/ local[t].once,
         IsLocal(new), new.streak = 0,
         byInterrupt \/ last = "cancelled" => new.pressed = 1 \/ new.stale
  PROVE  PressInv'
<1>1. CASE local[t].once
  BY <1>1, PressExit DEF AfterRun
<1>2. CASE ~local[t].once
  <2>. DEFINE to == [new EXCEPT !.reason = last,
                                !.streak = IF byInterrupt \/ last = "cancelled" THEN 1 ELSE @]
  <2>1. IsLocal(to) /\ (to.streak = 1 => to.pressed = 1 \/ to.stale)
    BY DEF IsLocal
  <2>2. Moves(t, "prompt", to, draft[t]) /\ draft[t].then \in Onward
    BY <1>2 DEF AfterRun, Moves, Put, GoTo, PressInv
  <2>. HIDE DEF to
  <2>3. PressKept("prompt", to, draft[t])
    BY <2>1, <2>2 DEF PressKept, InRun
  <2>. QED  BY <2>2, <2>3, PressMoves
<1>. QED  BY <1>1, <1>2

LEMMA PressRun ==
  ASSUME PressInv, NEW t \in Terminals, Run(t)
  PROVE  PressInv'
<1>1. IsLocal(local[t]) /\ draft[t].then \in Onward
  BY DEF PressInv
<1>2. ASSUME NEW kind, NEW from \in InRun, NEW to, Commit(t, from, kind, to), UNCHANGED local
      PROVE  PressInv'
  <2>1. local[t].streak = 0
    BY <1>2 DEF Commit, PressInv, StreakPressed
  <2>2. Moves(t, to, local[t], draft[t])
    BY <1>2 DEF Commit, GoTo, Moves, Put
  <2>. QED  BY <1>1, <2>1, <2>2, PressClear
<1>3. CASE BeginRun(t)
  <2>. DEFINE new == [local[t] EXCEPT !.reason = "none"]
  <2>1. local[t].streak = 0
    BY <1>3 DEF BeginRun, Commit, PressInv, StreakPressed, InRun
  <2>2. IsLocal(new) /\ new.streak = 0
    BY <1>1, <2>1 DEF IsLocal
  <2>3. Moves(t, "work", new, draft[t])
    BY <1>3 DEF BeginRun, Commit, GoTo, Moves, Put
  <2>. HIDE DEF new
  <2>. QED  BY <1>1, <2>2, <2>3, PressClear
<1>4. CASE CallTools(t) \/ EndTools(t) \/ Answer(t)
  BY <1>2, <1>4 DEF CallTools, EndTools, Answer, InRun
<1>5. CASE EndRun(t)
  <2>1. PICK r \in Reasons :
          /\ pc[t] \in InRun
          /\ AfterRun(t, r, FALSE, [local[t] EXCEPT !.pressed = IF r = "cancelled" THEN 1 ELSE @])
    BY <1>5 DEF EndRun, InRun
  <2>. DEFINE new == [local[t] EXCEPT !.pressed = IF r = "cancelled" THEN 1 ELSE @]
  <2>2. local[t].streak = 0
    BY <2>1 DEF PressInv, StreakPressed
  <2>3. IsLocal(new) /\ new.streak = 0 /\ (r = "cancelled" => new.pressed = 1)
    BY <1>1, <2>2 DEF IsLocal
  <2>4. UNCHANGED draft \/ local[t].once
    BY <2>1 DEF AfterRun
  <2>5. AfterRun(t, r, FALSE, new)
    BY <2>1
  <2>. HIDE DEF new
  <2>. QED  BY <2>1, <2>3, <2>4, <2>5, PressAfterRun
<1>6. CASE RaiseRun(t)
  <2>. DEFINE last == local[t].reason
              hit == [local[t] EXCEPT !.pressed = 1]
              old == [local[t] EXCEPT !.stale = last = "cancelled"]
  <2>1. /\ pc[t] \in InRun
        /\ AfterRun(t, last, TRUE, hit) \/ AfterRun(t, last, FALSE, old)
    BY <1>6 DEF RaiseRun
  <2>2. local[t].streak = 0
    BY <2>1 DEF PressInv, StreakPressed
  <2>6. last \in Reasons \cup {"none"}
    BY <1>1 DEF IsLocal
  <2>3. IsLocal(hit) /\ hit.streak = 0 /\ hit.pressed = 1
    BY <1>1, <2>2 DEF IsLocal
  <2>4. IsLocal(old) /\ old.streak = 0 /\ (last = "cancelled" => old.stale)
    BY <1>1, <2>2 DEF IsLocal
  <2>5. UNCHANGED draft \/ local[t].once
    BY <2>1 DEF AfterRun
  <2>. HIDE DEF last, hit, old
  <2>. QED  BY <2>1, <2>3, <2>4, <2>5, <2>6, PressAfterRun
<1>. QED  BY <1>3, <1>4, <1>5, <1>6 DEF Run

LEMMA PressStep == PressInv /\ [Next]_vars => PressInv'
<1>. SUFFICES ASSUME PressInv, [Next]_vars PROVE PressInv'
  OBVIOUS
<1>1. CASE UNCHANGED vars
  BY <1>1, PressStay DEF vars
<1>2. CASE Next
  BY <1>2, PressStart, PressReplace, PressCommand, PressRun DEF Next
<1>. QED  BY <1>1, <1>2

LEMMA PressInit == Init => PressInv
<1>1. NoDraft.then \in Onward /\ NoDraft.then # "begin" /\ "off" \notin InRun
  BY DEF NoDraft, Onward, InRun
<1>2. IsLocal(NewLocal(FALSE)) /\ NewLocal(FALSE).streak = 0
  BY FreshLocal
<1>3. ASSUME Init, NEW t \in Terminals
      PROVE  local[t] = NewLocal(FALSE) /\ draft[t] = NoDraft /\ pc[t] = "off"
  BY <1>3 DEF Init
<1>4. ASSUME Init, NEW t \in Terminals PROVE IsLocal(local[t])
  BY <1>2, <1>3, <1>4
<1>5. ASSUME Init, NEW t \in Terminals PROVE StreakPressed(t) /\ draft[t].then \in Onward
  <2>1. local[t].streak = 0
    BY <1>2, <1>3, <1>5
  <2>2. draft[t].then \in Onward /\ draft[t].then # "begin" /\ pc[t] \notin InRun
    BY <1>1, <1>3, <1>5
  <2>. QED  BY <2>1, <2>2 DEF StreakPressed
<1>. QED  BY <1>4, <1>5 DEF Init, PressInv

\* The two ways to end that say something; a process ends any other way too.
Ends == {"interrupts", "completed"}
Otherwise(s, how) == UNCHANGED pc \/ \E there : there # how /\ GoTo(s, there)

LEMMA EndsOtherwise ==
  ASSUME PressInv, NEW s \in Terminals, NEW how, Otherwise(s, how),
         NEW t \in Terminals, pc[t] # pc'[t]
  PROVE  pc'[t] # how
BY DEF Otherwise, GoTo, PressInv

LEMMA ExitOtherwise ==
  ASSUME NEW s \in Terminals, NEW as, NEW how, as # how, how # "off", Exit(s, as)
  PROVE  Otherwise(s, how)
BY DEF Otherwise, Exit

LEMMA StartOtherwise ==
  ASSUME NEW s \in Terminals, NEW how \in Ends,
         StartFresh(s) \/ Resume(s) \/ Continue(s)
  PROVE  Otherwise(s, how)
<1>1. ASSUME NEW f, StartWith(s, f) PROVE Otherwise(s, how)
  BY <1>1 DEF StartWith, AfterStart, Otherwise, Ends
<1>2. CASE StartFresh(s)
  BY <1>2 DEF StartFresh, Save, Otherwise, Ends
<1>3. CASE Resume(s)
  BY <1>1, <1>3 DEF Resume
<1>4. CASE Continue(s)
  BY <1>1, <1>4 DEF Continue, Otherwise, Ends
<1>. QED  BY <1>2, <1>3, <1>4

LEMMA CommandOtherwise ==
  ASSUME PressInv, NEW s \in Terminals, NEW how \in Ends,
         EnterKey(s) \/ Replace(s) \/ Quit(s) \/ New(s) \/ Compact(s) \/ EndCompact(s)
           \/ Model(s) \/ EndModel(s) \/ Task(s) \/ Die(s)
  PROVE  Otherwise(s, how)
<1>1. ASSUME Exit(s, "off") PROVE Otherwise(s, how)
  BY <1>1, ExitOtherwise DEF Ends
<1>2. ASSUME NEW keys, NEW there, Save(s, keys, there) PROVE Otherwise(s, how)
  BY <1>2 DEF Save, Otherwise, Ends
<1>3. CASE EnterKey(s)
  BY <1>1, <1>2, <1>3 DEF EnterKey, Otherwise, Ends
<1>4. CASE Replace(s)
  <2>1. draft[s].then \in Onward
    BY DEF PressInv
  <2>2. draft[s].then # how /\ "prompt" # how /\ "off" # how
    BY <2>1 DEF Onward, Ends
  <2>. QED  BY <1>4, <2>2 DEF Replace, Otherwise
<1>5. CASE Quit(s) \/ Die(s)
  BY <1>1, <1>5 DEF Quit, Die
<1>6. CASE New(s) \/ Compact(s) \/ Model(s) \/ Task(s)
  BY <1>6 DEF New, Compact, Model, Task, Otherwise, Ends
<1>7. CASE EndCompact(s)
  BY <1>1, <1>7 DEF EndCompact, Otherwise, Ends
<1>8. CASE EndModel(s)
  BY <1>1, <1>2, <1>8 DEF EndModel, Otherwise, Ends
<1>. QED  BY <1>3, <1>4, <1>5, <1>6, <1>7, <1>8

LEMMA AfterRunOtherwise ==
  ASSUME NEW s \in Terminals, NEW how \in Ends, NEW last, NEW byInterrupt, NEW new,
         AfterRun(s, last, byInterrupt, new),
         local[s].once /\ ~byInterrupt => ExitCode(last) # how
  PROVE  Otherwise(s, how)
<1>1. "off" # how /\ "prompt" # how /\ "cancelled" # how
  BY DEF Ends
<1>2. CASE local[s].once
  BY <1>1, <1>2, ExitOtherwise DEF AfterRun
<1>3. CASE ~local[s].once
  BY <1>1, <1>3 DEF AfterRun, Otherwise
<1>. QED  BY <1>2, <1>3

LEMMA CommitOtherwise ==
  ASSUME NEW s \in Terminals, NEW how \in Ends,
         BeginRun(s) \/ CallTools(s) \/ EndTools(s) \/ Answer(s)
  PROVE  Otherwise(s, how)
BY DEF BeginRun, CallTools, EndTools, Answer, Commit, Otherwise, Ends

\* Only a Ctrl+C at the prompt ends a process the way "interrupts" does.
LEMMA RunOtherwise ==
  ASSUME PressInv, NEW s \in Terminals, Run(s)
  PROVE  Otherwise(s, "interrupts")
<1>0. "interrupts" \in Ends
  BY DEF Ends
<1>1. ASSUME NEW last \in Reasons \cup {"none"}, NEW byInterrupt, NEW new,
             AfterRun(s, last, byInterrupt, new)
      PROVE  Otherwise(s, "interrupts")
  <2>1. ExitCode(last) # "interrupts"
    BY DEF ExitCode, Reasons
  <2>. QED  BY <1>0, <1>1, <2>1, AfterRunOtherwise
<1>2. CASE EndRun(s)
  BY <1>1, <1>2 DEF EndRun
<1>3. CASE RaiseRun(s)
  <2>1. local[s].reason \in Reasons \cup {"none"}
    BY DEF PressInv, IsLocal
  <2>. QED  BY <1>1, <1>3, <2>1 DEF RaiseRun
<1>. QED  BY <1>0, <1>2, <1>3, CommitOtherwise DEF Run

LEMMA PressTwice ==
  ASSUME PressInv, NEW t \in Terminals, [Next]_vars,
         pc[t] # pc'[t], pc'[t] = "interrupts"
  PROVE  local[t].pressed = 1 \/ local[t].stale
<1>1. PICK s \in Terminals : Otherwise(s, "interrupts") \/ PressAtPrompt(s)
  BY StartOtherwise, CommandOtherwise, RunOtherwise DEF Next, vars, Ends
<1>2. PressAtPrompt(s)
  BY <1>1, EndsOtherwise
<1>3. CASE s # t
  BY <1>2, <1>3 DEF PressAtPrompt, Exit, GoTo, PressInv
<1>4. CASE s = t
  <2>1. local[t].streak + 1 >= 2 /\ local[t].streak \in 0 .. 1
    BY <1>2, <1>4 DEF PressAtPrompt, PressInv, IsLocal
  <2>2. local[t].streak = 1
    BY <2>1
  <2>. QED  BY <2>2 DEF PressInv, StreakPressed
<1>. QED  BY <1>3, <1>4

\* Ctrl+C at the prompt leaves the program only when another came right before
\* it, or an earlier run left its "cancelled" behind (cli/app.py 760-860,
\* cli).
THEOREM SecondPressExits == Spec => TwiceToExit
<1>1. PressInv /\ [Next]_vars =>
        [\A t \in Terminals :
           pc[t] # pc'[t] /\ pc'[t] = "interrupts" =>
             local[t].pressed = 1 \/ local[t].stale]_vars
  BY PressTwice
<1>. QED  BY <1>1, PressInit, PressStep, PTL DEF Spec, TwiceToExit

-------------------------------------------------------------------------------
(* Paths.  PathTo is a recursive function of the entries: it is well        *)
(* defined when every entry names an earlier one as its parent.             *)

\* A set of natural numbers has a least one.
LEMMA LeastOf ==
  ASSUME NEW S, S \subseteq Nat, S # {}
  PROVE  \E x \in S : \A y \in S : x <= y
<1>. DEFINE R == OpToRel(<, Nat)
<1>1. \A x, y \in Nat : y < x => <<y, x>> \in R
  BY DEF OpToRel
<1>2. IsWellFoundedOn(R, Nat)
  BY NatLessThanWellFounded
<1>. HIDE DEF R
<1>3. PICK x \in S : \A y \in S : ~(<<y, x>> \in R)
  BY <1>2, WFMin
<1>4. ASSUME NEW y \in S PROVE x <= y
  <2>1. x \in Nat /\ y \in Nat /\ ~(y < x)
    BY <1>1, <1>3
  <2>. QED  BY <2>1
<1>. QED  BY <1>4

Chained(es) == es \in Seq(Entry) /\ \A i \in 1 .. Len(es) : es[i].parent < i

LEMMA Parents ==
  ASSUME NEW es, Chained(es)
  PROVE  /\ Len(es) \in Nat /\ DOMAIN es = 1 .. Len(es)
         /\ \A i \in 1 .. Len(es) : es[i] \in Entry /\ es[i].parent \in 0 .. i - 1
<1>1. Len(es) \in Nat /\ DOMAIN es = 1 .. Len(es)
  BY DEF Chained
<1>2. ASSUME NEW i \in 1 .. Len(es) PROVE es[i] \in Entry /\ es[i].parent \in 0 .. i - 1
  <2>1. es[i] \in Entry
    BY DEF Chained
  <2>2. es[i].parent \in Nat /\ es[i].parent < i
    BY <2>1 DEF Entry, Chained
  <2>. QED  BY <1>1, <2>1, <2>2
<1>. QED  BY <1>1, <1>2

IsPaths(p, es, n) ==
  p = [i \in 0 .. n |-> IF i = 0 THEN {} ELSE p[es[i].parent] \cup {i}]
Paths(es) == CHOOSE p : IsPaths(p, es, Len(es))

LEMMA PathIsPaths == ASSUME NEW es, NEW n PROVE PathTo(es, n) = Paths(es)[n]
BY DEF PathTo, Paths, IsPaths

LEMMA PathsExist ==
  ASSUME NEW es, Chained(es)
  PROVE  \E p : IsPaths(p, es, Len(es))
<1>. DEFINE Bad == {n \in 0 .. Len(es) : \A p : ~IsPaths(p, es, n)}
<1>0. Len(es) \in Nat
  BY Parents
<1>1. \E p : IsPaths(p, es, 0)
  <2>. DEFINE p == [i \in 0 .. 0 |-> {}]
  <2>1. IsPaths(p, es, 0)
    BY DEF IsPaths
  <2>. QED  BY <2>1
<1>2. ASSUME NEW n \in Nat, n + 1 <= Len(es), NEW p, IsPaths(p, es, n)
      PROVE  \E q : IsPaths(q, es, n + 1)
  <2>. DEFINE up == es[n + 1].parent
              q == [i \in 0 .. n + 1 |-> IF i = n + 1 THEN p[up] \cup {i} ELSE p[i]]
  <2>1. up \in 0 .. n
    <3>1. n + 1 \in 1 .. Len(es)
      BY <1>0, <1>2
    <3>2. up \in 0 .. (n + 1) - 1
      BY <3>1, Parents
    <3>. QED  BY <3>2
  <2>2. \A i \in 0 .. n : q[i] = p[i]
    OBVIOUS
  <2>3. q[n + 1] = p[up] \cup {n + 1}
    OBVIOUS
  <2>4. \A i \in 0 .. n : p[i] = IF i = 0 THEN {} ELSE p[es[i].parent] \cup {i}
    BY <1>2 DEF IsPaths
  <2>5. q = [i \in 0 .. n + 1 |-> q[i]]
    OBVIOUS
  <2>. HIDE DEF q
  <2>6. ASSUME NEW i \in 0 .. n + 1
        PROVE  q[i] = IF i = 0 THEN {} ELSE q[es[i].parent] \cup {i}
    <3>1. CASE i = n + 1
      BY <2>1, <2>2, <2>3, <3>1
    <3>2. CASE i = 0
      <4>1. 0 \in 0 .. n
        OBVIOUS
      <4>. QED  BY <2>2, <2>4, <3>2, <4>1
    <3>3. CASE i # 0 /\ i # n + 1
      <4>1. i \in 0 .. n /\ i \in 1 .. Len(es)
        BY <1>0, <1>2, <3>3
      <4>2. es[i].parent \in 0 .. i - 1
        BY <4>1, Parents
      <4>3. es[i].parent \in 0 .. n
        BY <4>1, <4>2
      <4>. QED  BY <2>2, <2>4, <3>3, <4>1, <4>3
    <3>. QED  BY <3>1, <3>2, <3>3
  <2>7. q = [i \in 0 .. n + 1 |-> IF i = 0 THEN {} ELSE q[es[i].parent] \cup {i}]
    BY <2>5, <2>6
  <2>. QED  BY <2>7 DEF IsPaths
<1>3. Bad = {}
  <2>. SUFFICES ASSUME Bad # {} PROVE FALSE
    OBVIOUS
  <2>1. PICK n \in Bad : \A m \in Bad : n <= m
    <3>1. Bad \subseteq Nat
      OBVIOUS
    <3>. HIDE DEF Bad
    <3>. QED  BY <3>1, LeastOf
  <2>2. n \in 0 .. Len(es) /\ \A p : ~IsPaths(p, es, n)
    OBVIOUS
  <2>3. n # 0
    BY <1>1, <2>2
  <2>4. n - 1 \in Nat /\ n - 1 \in 0 .. Len(es) /\ (n - 1) + 1 = n /\ n <= Len(es) /\ ~(n <= n - 1)
    BY <1>0, <2>2, <2>3
  <2>5. n - 1 \notin Bad
    <3>. HIDE DEF Bad
    <3>. QED  BY <2>1, <2>4
  <2>6. \E p : IsPaths(p, es, n - 1)
    BY <2>4, <2>5
  <2>. QED  BY <1>2, <2>2, <2>4, <2>6, Zenon
<1>4. Len(es) \in 0 .. Len(es) /\ Len(es) \notin Bad
  BY <1>0, <1>3
<1>. QED  BY <1>4

\* The path to an entry is that to its parent, and the entry.
LEMMA PathStep ==
  ASSUME NEW es, Chained(es)
  PROVE  /\ PathTo(es, 0) = {}
         /\ \A i \in 1 .. Len(es) : PathTo(es, i) = PathTo(es, es[i].parent) \cup {i}
<1>0. Len(es) \in Nat
  BY Parents
<1>. DEFINE p == Paths(es)
<1>1. IsPaths(p, es, Len(es))
  BY PathsExist DEF Paths
<1>. HIDE DEF p
<1>2. \A i \in 0 .. Len(es) : p[i] = IF i = 0 THEN {} ELSE p[es[i].parent] \cup {i}
  BY <1>1 DEF IsPaths
<1>3. 0 \in 0 .. Len(es) /\ \A i \in 1 .. Len(es) : i \in 0 .. Len(es) /\ i # 0
  BY <1>0
<1>4. p[0] = {} /\ \A i \in 1 .. Len(es) : p[i] = p[es[i].parent] \cup {i}
  BY <1>2, <1>3
<1>. QED  BY <1>4, PathIsPaths DEF p

\* What holds of the entry before the first, and of an entry when it holds of its
\* parent, holds of all: the form in which the facts below use it.
LEMMA NoLeastEntry ==
  ASSUME NEW n \in Nat, NEW Bad, Bad \subseteq 0 .. n, 0 \notin Bad,
         \A i \in 1 .. n : i \in Bad => \E j \in 0 .. i - 1 : j \in Bad
  PROVE  Bad = {}
<1>. SUFFICES ASSUME Bad # {} PROVE FALSE
  OBVIOUS
<1>1. Bad \subseteq Nat
  OBVIOUS
<1>2. PICK i \in Bad : \A j \in Bad : i <= j
  BY <1>1, LeastOf
<1>3. i \in 1 .. n
  <2>1. i # 0 /\ i \in 0 .. n
    BY <1>2
  <2>. QED  BY <2>1
<1>4. PICK j \in 0 .. i - 1 : j \in Bad
  BY <1>2, <1>3
<1>5. i <= j /\ ~(i <= j)
  BY <1>2, <1>3, <1>4
<1>. QED  BY <1>5

LEMMA PathWithin ==
  ASSUME NEW es, Chained(es), NEW n \in 0 .. Len(es)
  PROVE  PathTo(es, n) \subseteq 1 .. n
<1>. DEFINE Bad == {i \in 0 .. Len(es) : ~(PathTo(es, i) \subseteq 1 .. i)}
<1>0. Len(es) \in Nat
  BY Parents
<1>1. 0 \notin Bad
  BY PathStep
<1>2. ASSUME NEW i \in 1 .. Len(es), i \in Bad
      PROVE  \E j \in 0 .. i - 1 : j \in Bad
  <2>1. es[i].parent \in 0 .. i - 1 /\ PathTo(es, i) = PathTo(es, es[i].parent) \cup {i}
    BY PathStep, Parents
  <2>. DEFINE j == es[i].parent
  <2>2. j \in 0 .. i - 1 /\ j \in 0 .. Len(es) /\ 1 .. j \subseteq 1 .. i
    BY <1>0, <2>1
  <2>3. ~(PathTo(es, i) \subseteq 1 .. i) /\ i \in 1 .. i
    BY <1>0, <1>2
  <2>4. ~(PathTo(es, j) \subseteq 1 .. j)
    BY <2>1, <2>2, <2>3
  <2>. QED  BY <2>2, <2>4
<1>3. Bad = {}
  <2>1. Bad \subseteq 0 .. Len(es)
    OBVIOUS
  <2>. HIDE DEF Bad
  <2>. QED  BY <1>0, <1>1, <1>2, <2>1, NoLeastEntry
<1>. QED  BY <1>3

\* Entries appended later change no path.
Extends(es, gs) == Len(es) <= Len(gs) /\ \A i \in 1 .. Len(es) : gs[i] = es[i]

LEMMA PathStays ==
  ASSUME NEW es, NEW gs, Chained(es), Chained(gs), Extends(es, gs), NEW n \in 0 .. Len(es)
  PROVE  PathTo(gs, n) = PathTo(es, n)
<1>. DEFINE Bad == {i \in 0 .. Len(es) : PathTo(gs, i) # PathTo(es, i)}
<1>0. Len(es) \in Nat /\ Len(gs) \in Nat /\ Len(es) <= Len(gs)
  BY Parents DEF Extends
<1>1. 0 \notin Bad
  BY PathStep
<1>2. ASSUME NEW i \in 1 .. Len(es), i \in Bad
      PROVE  \E j \in 0 .. i - 1 : j \in Bad
  <2>. DEFINE j == es[i].parent
  <2>1. i \in 1 .. Len(gs) /\ gs[i] = es[i]
    BY <1>0 DEF Extends
  <2>2. j \in 0 .. i - 1 /\ PathTo(es, i) = PathTo(es, j) \cup {i}
    BY PathStep, Parents
  <2>3. PathTo(gs, i) = PathTo(gs, j) \cup {i}
    BY <2>1, PathStep
  <2>4. PathTo(gs, j) # PathTo(es, j)
    BY <1>2, <2>2, <2>3
  <2>5. j \in 0 .. Len(es)
    BY <1>0, <2>2
  <2>. QED  BY <2>2, <2>4, <2>5
<1>3. Bad = {}
  <2>1. Bad \subseteq 0 .. Len(es)
    OBVIOUS
  <2>. HIDE DEF Bad
  <2>. QED  BY <1>0, <1>1, <1>2, <2>1, NoLeastEntry
<1>. QED  BY <1>3

\* In a file where every entry continues the one before, the path is everything.
LEMMA LinePath ==
  ASSUME NEW es, Chained(es), \A i \in 1 .. Len(es) : es[i].parent = i - 1
  PROVE  PathTo(es, Len(es)) = DOMAIN es
<1>. DEFINE Bad == {i \in 0 .. Len(es) : PathTo(es, i) # 1 .. i}
<1>0. Len(es) \in Nat /\ DOMAIN es = 1 .. Len(es)
  BY Parents
<1>1. 0 \notin Bad
  BY PathStep
<1>2. ASSUME NEW i \in 1 .. Len(es), i \in Bad
      PROVE  \E j \in 0 .. i - 1 : j \in Bad
  <2>1. PathTo(es, i) = PathTo(es, i - 1) \cup {i}
    BY PathStep
  <2>2. i - 1 \in 0 .. i - 1 /\ i - 1 \in 0 .. Len(es) /\ 1 .. i = (1 .. i - 1) \cup {i}
    BY <1>0
  <2>3. PathTo(es, i - 1) # 1 .. i - 1
    BY <1>2, <2>1, <2>2
  <2>. QED  BY <2>2, <2>3
<1>3. Bad = {}
  <2>1. Bad \subseteq 0 .. Len(es)
    OBVIOUS
  <2>. HIDE DEF Bad
  <2>. QED  BY <1>0, <1>1, <1>2, <2>1, NoLeastEntry
<1>. QED  BY <1>0, <1>3

-------------------------------------------------------------------------------
(* What a path answers.                                                     *)

LEMMA AnsweredStays ==
  ASSUME NEW es, NEW gs, Chained(es), Chained(gs), Extends(es, gs), NEW n \in 0 .. Len(es),
         Answered(es, n)
  PROVE  Answered(gs, n)
<1>1. PathTo(gs, n) = PathTo(es, n) /\ PathTo(es, n) \subseteq 1 .. n
  BY PathStays, PathWithin
<1>2. \A i \in PathTo(es, n) : gs[i] = es[i]
  BY <1>1, Parents DEF Extends
<1>. QED  BY <1>1, <1>2 DEF Answered

\* The calls at the end of a path are the only ones it does not answer.
OpenCalls(es, n) ==
  /\ es[n].kind = "calls"
  /\ \A i \in PathTo(es, n) \ {n} : es[i].kind = "calls" =>
       \E j \in PathTo(es, n) : es[j].parent = i /\ es[j].kind = "results"

LEMMA OpenCallsStay ==
  ASSUME NEW es, NEW gs, Chained(es), Chained(gs), Extends(es, gs), NEW n \in 1 .. Len(es),
         OpenCalls(es, n)
  PROVE  OpenCalls(gs, n)
<1>0. n \in 0 .. Len(es) /\ gs[n] = es[n]
  BY Parents DEF Extends
<1>1. PathTo(gs, n) = PathTo(es, n) /\ PathTo(es, n) \subseteq 1 .. n
  BY <1>0, PathStays, PathWithin
<1>2. \A i \in PathTo(es, n) : gs[i] = es[i]
  BY <1>0, <1>1, Parents DEF Extends
<1>. QED  BY <1>0, <1>1, <1>2 DEF OpenCalls

\* One entry more, after the n-th one.
OneMore(es, gs, n, kind) ==
  /\ Chained(es) /\ Chained(gs) /\ Extends(es, gs)
  /\ Len(gs) = Len(es) + 1 /\ n \in 0 .. Len(es)
  /\ gs[Len(gs)].parent = n /\ gs[Len(gs)].kind = kind

LEMMA PathOneMore ==
  ASSUME NEW es, NEW gs, NEW n, NEW kind, OneMore(es, gs, n, kind)
  PROVE  /\ PathTo(gs, Len(gs)) = PathTo(es, n) \cup {Len(gs)}
         /\ \A i \in PathTo(es, n) : gs[i] = es[i] /\ i # Len(gs)
<1>1. Len(es) \in Nat /\ Len(gs) \in 1 .. Len(gs)
  BY Parents DEF OneMore
<1>2. PathTo(gs, Len(gs)) = PathTo(gs, n) \cup {Len(gs)}
  BY <1>1, PathStep DEF OneMore
<1>3. PathTo(gs, n) = PathTo(es, n) /\ PathTo(es, n) \subseteq 1 .. n
  BY PathStays, PathWithin DEF OneMore
<1>4. \A i \in 1 .. n : gs[i] = es[i] /\ i # Len(gs)
  BY <1>1 DEF OneMore, Extends
<1>. QED  BY <1>2, <1>3, <1>4

LEMMA AnsweredMore ==
  ASSUME NEW es, NEW gs, NEW n, NEW kind, OneMore(es, gs, n, kind), Answered(es, n),
         kind # "calls"
  PROVE  Answered(gs, Len(gs))
<1>. DEFINE path == PathTo(es, n)
            m == Len(gs)
<1>1. PathTo(gs, m) = path \cup {m} /\ gs[m].kind # "calls"
      /\ \A i \in path : gs[i] = es[i]
  BY PathOneMore DEF OneMore
<1>2. \A i \in path : es[i].kind = "calls" =>
        \E j \in path : es[j].parent = i /\ es[j].kind = "results"
  BY DEF Answered
<1>. HIDE DEF path, m
<1>3. \A i \in path \cup {m} : gs[i].kind = "calls" =>
        \E j \in path \cup {m} : gs[j].parent = i /\ gs[j].kind = "results"
  BY <1>1, <1>2
<1>. QED  BY <1>1, <1>3 DEF Answered, m

LEMMA CallsMore ==
  ASSUME NEW es, NEW gs, NEW n, OneMore(es, gs, n, "calls"), Answered(es, n)
  PROVE  OpenCalls(gs, Len(gs))
<1>. DEFINE path == PathTo(es, n)
            m == Len(gs)
<1>1. PathTo(gs, m) = path \cup {m} /\ gs[m].kind = "calls"
      /\ \A i \in path : gs[i] = es[i]
  BY PathOneMore DEF OneMore
<1>2. \A i \in path : es[i].kind = "calls" =>
        \E j \in path : es[j].parent = i /\ es[j].kind = "results"
  BY DEF Answered
<1>. HIDE DEF path, m
<1>3. \A i \in (path \cup {m}) \ {m} : gs[i].kind = "calls" =>
        \E j \in path \cup {m} : gs[j].parent = i /\ gs[j].kind = "results"
  BY <1>1, <1>2
<1>. QED  BY <1>1, <1>3 DEF OpenCalls, m

LEMMA ResultsMore ==
  ASSUME NEW es, NEW gs, NEW n, OneMore(es, gs, n, "results"), OpenCalls(es, n)
  PROVE  Answered(gs, Len(gs))
<1>. DEFINE path == PathTo(es, n)
            m == Len(gs)
<1>1. PathTo(gs, m) = path \cup {m} /\ gs[m].kind = "results" /\ gs[m].parent = n
      /\ \A i \in path : gs[i] = es[i]
  BY PathOneMore DEF OneMore
<1>2. \A i \in path \ {n} : es[i].kind = "calls" =>
        \E j \in path : es[j].parent = i /\ es[j].kind = "results"
  BY DEF OpenCalls
<1>. HIDE DEF path, m
<1>3. \A i \in path \cup {m} : gs[i].kind = "calls" =>
        \E j \in path \cup {m} : gs[j].parent = i /\ gs[j].kind = "results"
  BY <1>1, <1>2
<1>. QED  BY <1>1, <1>3 DEF Answered, m

-------------------------------------------------------------------------------
(* The files.                                                               *)

EntriesOf(f) == files[f].entries

\* Every entry follows an earlier one, and a process stands at one of them.
Tree(f) ==
  /\ Chained(EntriesOf(f))
  /\ \A t \in Terminals : session[t] = f => leaf[t] \in 0 .. Len(EntriesOf(f))

\* What one process at a time works on: it stands at the end.
Alone(f) == \A t, u \in Terminals : session[t] = f /\ session[u] = f => t = u
Line(f) ==
  /\ \A i \in 1 .. Len(EntriesOf(f)) : EntriesOf(f)[i].parent = i - 1
  /\ \A t \in Terminals : session[t] = f => leaf[t] = Len(EntriesOf(f))
  /\ Alone(f)

\* One root, and only a process alone on an empty file would write another one.
Rooted(f) ==
  /\ SingleRoot(EntriesOf(f))
  /\ \A t \in Terminals : session[t] = f /\ leaf[t] = 0 => Len(EntriesOf(f)) = 0
  /\ Len(EntriesOf(f)) = 0 => Alone(f)

FileOK(f) ==
  /\ Tree(f)
  /\ f \notin shared => Line(f)
  /\ f \notin sharedEmpty => Rooted(f)

File == [header : {"whole", "torn"}, entries : Seq(Entry)]

StoreInv ==
  /\ files \in Seq(File) /\ latest \in 0 .. Len(files)
  /\ session \in [Terminals -> 0 .. Len(files)] /\ leaf \in [Terminals -> Nat]
  /\ \A f \in 1 .. Len(files) : FileOK(f)

LEMMA StoreResumes == StoreInv => ResumesWork
<1>. SUFFICES ASSUME StoreInv, NEW f \in 1 .. Len(files)
              PROVE  /\ f \notin shared =>
                          PathTo(EntriesOf(f), Len(EntriesOf(f))) = DOMAIN EntriesOf(f)
                     /\ f \notin sharedEmpty => SingleRoot(EntriesOf(f))
  BY DEF StoreInv, ResumesWork, EntriesOf
<1>1. Tree(f) /\ (f \notin shared => Line(f)) /\ (f \notin sharedEmpty => Rooted(f))
  BY DEF StoreInv, FileOK
<1>. QED  BY <1>1, LinePath DEF Tree, Line, Rooted

\* A file that no process newly opens, and that nothing is written to.
LEMMA FileStays ==
  ASSUME NEW f, FileOK(f), files'[f] = files[f],
         \A t \in Terminals : session'[t] = f => session[t] = f /\ leaf'[t] = leaf[t],
         shared \subseteq shared', sharedEmpty \subseteq sharedEmpty'
  PROVE  FileOK(f)'
<1>1. EntriesOf(f)' = EntriesOf(f)
  BY DEF EntriesOf
<1>2. Alone(f) => Alone(f)'
  BY DEF Alone
<1>3. Tree(f)'
  BY <1>1 DEF FileOK, Tree
<1>4. Line(f) => Line(f)'
  BY <1>1, <1>2 DEF Line
<1>5. Rooted(f) => Rooted(f)'
  BY <1>1, <1>2 DEF Rooted
<1>. QED  BY <1>3, <1>4, <1>5 DEF FileOK

\* A new file is empty, and only the process that made it may have it open.
LEMMA FileNew ==
  ASSUME NEW f, files'[f].entries = <<>>, Alone(f)',
         \A t \in Terminals : session'[t] = f => leaf'[t] = 0
  PROVE  FileOK(f)'
<1>1. EntriesOf(f)' = <<>> /\ Len(<<>>) = 0 /\ <<>> \in Seq(Entry) /\ DOMAIN <<>> = {}
  BY DEF EntriesOf
<1>2. Chained(<<>>) /\ SingleRoot(<<>>)
  BY <1>1 DEF Chained, SingleRoot
<1>3. Tree(f)'
  BY <1>1, <1>2 DEF Tree
<1>4. Line(f)'
  BY <1>1 DEF Line
<1>5. Rooted(f)'
  BY <1>1, <1>2 DEF Rooted
<1>. QED  BY <1>3, <1>4, <1>5 DEF FileOK

\* One file more.
LEMMA FileAppended ==
  ASSUME StoreInv, NEW header \in {"whole", "torn"},
         files' = Append(files, [header |-> header, entries |-> <<>>])
  PROVE  /\ files' \in Seq(File) /\ Len(files) \in Nat /\ Len(files') = Len(files) + 1
         /\ \A f \in 1 .. Len(files) : files'[f] = files[f]
         /\ files'[Len(files')].entries = <<>>
<1>. DEFINE new == [header |-> header, entries |-> <<>>]
<1>1. new \in File /\ new.entries = <<>>
  BY DEF File
<1>2. files \in Seq(File) /\ files' = Append(files, new)
  BY DEF StoreInv
<1>. HIDE DEF new
<1>. QED  BY <1>1, <1>2

LEMMA StoreCreate ==
  ASSUME StoreInv, NEW t \in Terminals, Create(t)
  PROVE  StoreInv'
<1>. DEFINE n == Len(files')
<1>1. /\ files' \in Seq(File) /\ Len(files) \in Nat /\ n = Len(files) + 1
      /\ \A f \in 1 .. Len(files) : files'[f] = files[f]
      /\ files'[n].entries = <<>>
  BY FileAppended DEF Create
<1>2. /\ session' = [session EXCEPT ![t] = n] /\ leaf' = [leaf EXCEPT ![t] = 0]
      /\ latest' = n /\ UNCHANGED <<shared, sharedEmpty>>
  BY DEF Create
<1>3. session \in [Terminals -> 0 .. Len(files)] /\ leaf \in [Terminals -> Nat]
  BY DEF StoreInv
<1>. HIDE DEF n
<1>4. session' \in [Terminals -> 0 .. n] /\ leaf' \in [Terminals -> Nat]
  BY <1>1, <1>2, <1>3
<1>5. \A u \in Terminals \ {t} :
        session'[u] = session[u] /\ leaf'[u] = leaf[u] /\ session[u] # n
  BY <1>1, <1>2, <1>3
<1>6. session'[t] = n /\ leaf'[t] = 0
  BY <1>2, <1>3
<1>7. ASSUME NEW f \in 1 .. n PROVE FileOK(f)'
  <2>1. CASE f = n
    <3>1. \A u \in Terminals : session'[u] = f => u = t
      BY <1>5, <2>1
    <3>. QED  BY <1>1, <1>6, <2>1, <3>1, FileNew DEF Alone
  <2>2. CASE f # n
    <3>1. f \in 1 .. Len(files)
      BY <1>1, <2>2
    <3>2. \A u \in Terminals : session'[u] = f => session[u] = f /\ leaf'[u] = leaf[u]
      BY <1>5, <1>6, <2>2
    <3>3. FileOK(f)
      BY <3>1 DEF StoreInv
    <3>. QED  BY <1>1, <1>2, <3>1, <3>2, <3>3, FileStays
  <2>. QED  BY <2>1, <2>2
<1>8. latest' \in 0 .. n
  BY <1>1, <1>2
<1>. QED  BY <1>1, <1>4, <1>7, <1>8 DEF StoreInv, n

LEMMA StoreCreateTorn ==
  ASSUME StoreInv, CreateTorn
  PROVE  StoreInv'
<1>. DEFINE n == Len(files')
<1>1. /\ files' \in Seq(File) /\ Len(files) \in Nat /\ n = Len(files) + 1
      /\ \A f \in 1 .. Len(files) : files'[f] = files[f]
      /\ files'[n].entries = <<>>
  BY FileAppended DEF CreateTorn
<1>2. latest' = n /\ UNCHANGED <<session, leaf, shared, sharedEmpty>>
  BY DEF CreateTorn
<1>3. session \in [Terminals -> 0 .. Len(files)] /\ leaf \in [Terminals -> Nat]
  BY DEF StoreInv
<1>. HIDE DEF n
<1>4. session' \in [Terminals -> 0 .. n] /\ leaf' \in [Terminals -> Nat]
  BY <1>1, <1>2, <1>3
<1>5. \A u \in Terminals : session'[u] = session[u] /\ session[u] # n
  BY <1>1, <1>2, <1>3
<1>6. ASSUME NEW f \in 1 .. n PROVE FileOK(f)'
  <2>1. CASE f = n
    BY <1>1, <1>5, <2>1, FileNew DEF Alone
  <2>2. CASE f # n
    <3>1. f \in 1 .. Len(files)
      BY <1>1, <2>2
    <3>2. FileOK(f)
      BY <3>1 DEF StoreInv
    <3>. QED  BY <1>1, <1>2, <3>1, <3>2, FileStays
  <2>. QED  BY <2>1, <2>2
<1>7. latest' \in 0 .. n
  BY <1>1, <1>2
<1>. QED  BY <1>1, <1>4, <1>6, <1>7 DEF StoreInv, n

LEMMA StoreLeave ==
  ASSUME StoreInv, NEW t \in Terminals, Leave(t)
  PROVE  StoreInv'
<1>1. /\ session' = [session EXCEPT ![t] = 0] /\ leaf' = [leaf EXCEPT ![t] = 0]
      /\ UNCHANGED <<files, latest, shared, sharedEmpty>>
  BY DEF Leave
<1>2. /\ files \in Seq(File) /\ Len(files) \in Nat /\ latest \in 0 .. Len(files)
      /\ session \in [Terminals -> 0 .. Len(files)] /\ leaf \in [Terminals -> Nat]
  BY DEF StoreInv
<1>3. session' \in [Terminals -> 0 .. Len(files)] /\ leaf' \in [Terminals -> Nat]
  BY <1>1, <1>2
<1>4. ASSUME NEW f \in 1 .. Len(files) PROVE FileOK(f)'
  <2>1. \A u \in Terminals : session'[u] = f => session[u] = f /\ leaf'[u] = leaf[u]
    BY <1>1, <1>2
  <2>2. FileOK(f)
    BY DEF StoreInv
  <2>. QED  BY <1>1, <2>1, <2>2, FileStays
<1>. QED  BY <1>1, <1>2, <1>3, <1>4 DEF StoreInv

LEMMA StoreOpen ==
  ASSUME StoreInv, NEW t \in Terminals, NEW f \in 1 .. Len(files), Open(t, f)
  PROVE  StoreInv'
<1>. DEFINE es == EntriesOf(f)
            other == \E u \in Terminals \ {t} : session[u] = f
<1>1. /\ session' = [session EXCEPT ![t] = f] /\ leaf' = [leaf EXCEPT ![t] = Len(es)]
      /\ UNCHANGED <<files, latest>>
      /\ shared' = IF other THEN shared \cup {f} ELSE shared
      /\ sharedEmpty' = IF other /\ es = <<>> THEN sharedEmpty \cup {f} ELSE sharedEmpty
  BY DEF Open, EntriesOf
<1>2. /\ files \in Seq(File) /\ Len(files) \in Nat /\ latest \in 0 .. Len(files)
      /\ session \in [Terminals -> 0 .. Len(files)] /\ leaf \in [Terminals -> Nat]
  BY DEF StoreInv
<1>3. FileOK(f) /\ Chained(es) /\ Len(es) \in Nat
  BY Parents DEF StoreInv, FileOK, Tree
<1>4. es' = es
  BY <1>1 DEF EntriesOf
<1>. HIDE DEF es
<1>5. /\ session'[t] = f /\ leaf'[t] = Len(es)
      /\ \A u \in Terminals \ {t} : session'[u] = session[u] /\ leaf'[u] = leaf[u]
  BY <1>1, <1>2
<1>6. session' \in [Terminals -> 0 .. Len(files)] /\ leaf' \in [Terminals -> Nat]
  BY <1>1, <1>2, <1>3
<1>7. ~other => Alone(f)'
  BY <1>5 DEF Alone
<1>8. Tree(f)'
  BY <1>3, <1>4, <1>5 DEF FileOK, Tree, es
<1>9. f \notin shared' => Line(f)'
  BY <1>1, <1>3, <1>4, <1>5, <1>7 DEF FileOK, Line, es
<1>10. f \notin sharedEmpty' => Rooted(f)'
  <2>1. SUFFICES ASSUME f \notin sharedEmpty' PROVE Rooted(f)'
    OBVIOUS
  <2>2. f \notin sharedEmpty /\ (other => es # <<>>)
    BY <1>1, <2>1
  <2>3. Rooted(f) /\ (other => Len(es) # 0)
    <3>1. es \in Seq(Entry)
      BY <1>3 DEF Chained
    <3>. QED  BY <1>3, <2>2, <3>1 DEF FileOK
  <2>. QED  BY <1>3, <1>4, <1>5, <1>7, <2>3 DEF Rooted, es
<1>11. ASSUME NEW g \in 1 .. Len(files), g # f PROVE FileOK(g)'
  <2>1. \A u \in Terminals : session'[u] = g => session[u] = g /\ leaf'[u] = leaf[u]
    BY <1>5, <1>11
  <2>2. FileOK(g)
    BY DEF StoreInv
  <2>3. shared \subseteq shared' /\ sharedEmpty \subseteq sharedEmpty'
    BY <1>1
  <2>. QED  BY <1>1, <2>1, <2>2, <2>3, FileStays
<1>12. FileOK(f)'
  BY <1>8, <1>9, <1>10 DEF FileOK
<1>. QED  BY <1>1, <1>2, <1>6, <1>11, <1>12 DEF StoreInv

\* An entry written after the own leaf.
LEMMA WriteMore ==
  ASSUME StoreInv, NEW t \in Terminals, session[t] # 0, NEW kind \in Kinds, Write(t, kind)
  PROVE  LET f == session[t] IN
         /\ f \in 1 .. Len(files) /\ files' \in Seq(File) /\ Len(files') = Len(files)
         /\ OneMore(EntriesOf(f), EntriesOf(f)', leaf[t], kind)
         /\ \A g \in 1 .. Len(files) : g # f => files'[g] = files[g]
         /\ leaf' = [leaf EXCEPT ![t] = Len(EntriesOf(f)')]
<1>. DEFINE f == session[t]
            es == EntriesOf(f)
            new == [parent |-> leaf[t], kind |-> kind]
            gs == Append(es, new)
<1>1. /\ files \in Seq(File) /\ Len(files) \in Nat /\ f \in 1 .. Len(files)
      /\ leaf \in [Terminals -> Nat]
  BY DEF StoreInv
<1>2. Tree(f)
  BY <1>1 DEF StoreInv, FileOK
<1>3. Chained(es) /\ leaf[t] \in 0 .. Len(es) /\ Len(es) \in Nat /\ es \in Seq(Entry)
  BY <1>2, Parents DEF Tree, Chained
<1>4. files' = [files EXCEPT ![f].entries = gs]
  BY DEF Write, EntriesOf
<1>5. new \in Entry /\ new.parent = leaf[t] /\ new.kind = kind
  BY <1>1 DEF Entry
<1>6. leaf' = [leaf EXCEPT ![t] = Len(files'[f].entries)]
  BY DEF Write
<1>. HIDE DEF new
<1>7. /\ gs \in Seq(Entry) /\ Len(gs) = Len(es) + 1
      /\ \A i \in 1 .. Len(es) : gs[i] = es[i]
      /\ gs[Len(es) + 1] = new
  BY <1>3, <1>5
<1>8. Chained(gs)
  <2>1. ASSUME NEW i \in 1 .. Len(gs) PROVE gs[i].parent < i
    <3>1. CASE i \in 1 .. Len(es)
      BY <1>3, <1>7, <3>1 DEF Chained
    <3>2. CASE i = Len(es) + 1
      BY <1>3, <1>5, <1>7, <3>2
    <3>. QED  BY <1>3, <1>7, <3>1, <3>2
  <2>. QED  BY <1>7, <2>1 DEF Chained
<1>. HIDE DEF gs
<1>9. files[f] \in File
  BY <1>1
<1>10. [files[f] EXCEPT !.entries = gs] \in File
  BY <1>7, <1>9 DEF File
<1>11. /\ files' \in Seq(File) /\ Len(files') = Len(files)
       /\ files'[f].entries = gs
       /\ \A g \in 1 .. Len(files) : g # f => files'[g] = files[g]
  <2>1. files' = [files EXCEPT ![f] = [files[f] EXCEPT !.entries = gs]]
    BY <1>1, <1>4
  <2>2. [files[f] EXCEPT !.entries = gs].entries = gs
    BY <1>9 DEF File
  <2>. DEFINE file == [files[f] EXCEPT !.entries = gs]
  <2>. HIDE DEF file, f
  <2>3. files' \in Seq(File) /\ Len(files') = Len(files) /\ files'[f] = file
        /\ \A g \in 1 .. Len(files) : g # f => files'[g] = files[g]
    BY <1>1, <1>10, <2>1 DEF file
  <2>. QED  BY <2>2, <2>3 DEF file
<1>12. EntriesOf(f)' = gs
  BY <1>11 DEF EntriesOf, Write
<1>13. OneMore(es, gs, leaf[t], kind)
  BY <1>3, <1>5, <1>7, <1>8 DEF OneMore, Extends
<1>. QED  BY <1>1, <1>6, <1>11, <1>12, <1>13

LEMMA FileWritten ==
  ASSUME NEW t \in Terminals, NEW kind, NEW f, NEW es, NEW gs,
         FileOK(f), session[t] = f, EntriesOf(f) = es, EntriesOf(f)' = gs,
         OneMore(es, gs, leaf[t], kind),
         leaf'[t] = Len(gs), \A u \in Terminals \ {t} : leaf'[u] = leaf[u],
         UNCHANGED <<session, shared, sharedEmpty>>
  PROVE  FileOK(f)'
<1>. DEFINE n == Len(es)
<1>1. /\ n \in Nat /\ Len(gs) = n + 1 /\ Chained(gs) /\ Chained(es)
      /\ \A i \in 1 .. n : gs[i] = es[i]
      /\ gs[n + 1].parent = leaf[t] /\ leaf[t] \in 0 .. n
  BY Parents DEF OneMore, Extends
<1>2. DOMAIN es = 1 .. n /\ DOMAIN gs = 1 .. n + 1
  BY <1>1, Parents
<1>3. \A i \in 1 .. n + 1 : i \in 1 .. n \/ i = n + 1
  BY <1>1
<1>4. \A u \in Terminals : session'[u] = session[u]
  OBVIOUS
<1>. HIDE DEF n
<1>5. Tree(f)'
  <2>1. ASSUME NEW u \in Terminals, session'[u] = f PROVE leaf'[u] \in 0 .. Len(gs)
    <3>1. CASE u = t
      BY <1>1, <3>1
    <3>2. CASE u # t
      <4>1. leaf[u] \in 0 .. n
        BY <1>4, <2>1 DEF FileOK, Tree, n
      <4>2. leaf'[u] = leaf[u]
        BY <3>2
      <4>. QED  BY <1>1, <4>1, <4>2
    <3>. QED  BY <3>1, <3>2
  <2>. QED  BY <1>1, <2>1 DEF Tree
<1>6. ASSUME Alone(f) PROVE Alone(f)' /\ \A u \in Terminals : session[u] = f => u = t
  BY <1>4, <1>6 DEF Alone
<1>7. ASSUME f \notin shared PROVE Line(f)'
  <2>1. /\ \A i \in 1 .. n : es[i].parent = i - 1
        /\ leaf[t] = n /\ Alone(f)
    BY <1>7 DEF FileOK, Line, n
  <2>2. \A i \in 1 .. n + 1 : gs[i].parent = i - 1
    <3>1. n = (n + 1) - 1
      BY <1>1
    <3>. QED  BY <1>1, <1>3, <2>1, <3>1
  <2>3. \A u \in Terminals : session'[u] = f => leaf'[u] = Len(gs)
    BY <1>4, <1>6, <2>1
  <2>. QED  BY <1>1, <1>6, <2>1, <2>2, <2>3 DEF Line
<1>8. ASSUME f \notin sharedEmpty PROVE Rooted(f)'
  <2>1. /\ SingleRoot(es)
        /\ \A u \in Terminals : session[u] = f /\ leaf[u] = 0 => n = 0
        /\ n = 0 => Alone(f)
    BY <1>8 DEF FileOK, Rooted, n
  <2>2. leaf[t] = 0 <=> n = 0
    BY <1>1, <2>1
  <2>3. \A i \in 1 .. n : es[i].parent = 0 <=> i = 1
    BY <1>2, <2>1 DEF SingleRoot
  <2>4. \A i \in 1 .. n + 1 : gs[i].parent = 0 <=> i = 1
    <3>1. n = 0 <=> n + 1 = 1
      BY <1>1
    <3>. QED  BY <1>1, <1>3, <2>2, <2>3, <3>1
  <2>5. SingleRoot(gs)
    BY <1>2, <2>4 DEF SingleRoot
  <2>6. ASSUME NEW u \in Terminals, session'[u] = f, leaf'[u] = 0 PROVE FALSE
    <3>1. u # t
      BY <1>1, <2>6
    <3>2. session[u] = f /\ leaf[u] = 0
      BY <1>4, <2>6, <3>1
    <3>3. Alone(f)
      BY <2>1, <3>2
    <3>. QED  BY <1>6, <3>1, <3>2, <3>3
  <2>7. Len(gs) # 0
    BY <1>1
  <2>. QED  BY <2>5, <2>6, <2>7 DEF Rooted
<1>. QED  BY <1>5, <1>7, <1>8 DEF FileOK

LEMMA StoreWrite ==
  ASSUME StoreInv, NEW t \in Terminals, session[t] # 0, NEW kind \in Kinds, Write(t, kind)
  PROVE  StoreInv'
<1>1. PICK f : f = session[t]
  OBVIOUS
<1>2. PICK gs : gs = EntriesOf(f)'
  OBVIOUS
<1>3. /\ f \in 1 .. Len(files) /\ files' \in Seq(File) /\ Len(files') = Len(files)
      /\ OneMore(EntriesOf(f), gs, leaf[t], kind)
      /\ \A g \in 1 .. Len(files) : g # f => files'[g] = files[g]
      /\ leaf' = [leaf EXCEPT ![t] = Len(gs)]
  <2>1. UNCHANGED session
    BY DEF Write
  <2>. QED  BY <1>1, <1>2, <2>1, WriteMore DEF EntriesOf
<1>4. /\ session \in [Terminals -> 0 .. Len(files)] /\ leaf \in [Terminals -> Nat]
      /\ FileOK(f)
  BY <1>3 DEF StoreInv
<1>5. UNCHANGED <<session, shared, sharedEmpty>>
  BY DEF Write
<1>6. Len(gs) \in Nat
  BY <1>3, Parents DEF OneMore
<1>7. leaf' \in [Terminals -> Nat]
  BY <1>3, <1>4, <1>6
<1>8. leaf'[t] = Len(gs) /\ \A u \in Terminals \ {t} : leaf'[u] = leaf[u]
  BY <1>3, <1>4
<1>9. FileOK(f)'
  BY <1>1, <1>2, <1>3, <1>4, <1>5, <1>8, FileWritten
<1>10. ASSUME NEW g \in 1 .. Len(files), g # f PROVE FileOK(g)'
  <2>1. \A u \in Terminals : session'[u] = g => session[u] = g /\ leaf'[u] = leaf[u]
    BY <1>1, <1>5, <1>8, <1>10
  <2>2. FileOK(g)
    BY DEF StoreInv
  <2>3. files'[g] = files[g]
    BY <1>3, <1>10
  <2>4. shared \subseteq shared' /\ sharedEmpty \subseteq sharedEmpty'
    BY <1>5
  <2>. QED  BY <2>1, <2>2, <2>3, <2>4, FileStays
<1>11. session' \in [Terminals -> 0 .. Len(files')]
  BY <1>3, <1>4, <1>5
<1>12. latest' = f /\ latest' \in 0 .. Len(files')
  <2>1. latest' = f
    BY <1>1 DEF Write
  <2>. QED  BY <1>3, <2>1
<1>. QED  BY <1>3, <1>7, <1>9, <1>10, <1>11, <1>12 DEF StoreInv

\* What any step of a process does to the files: only more comes, and only the
\* process itself stands elsewhere.
StoreMove(t) ==
  \/ Create(t) \/ CreateTorn \/ Leave(t) \/ UNCHANGED store
  \/ \E f \in 1 .. Len(files) : Open(t, f)
  \/ session[t] # 0 /\ \E kind \in Kinds : Write(t, kind)

FilesGrow ==
  /\ Len(files) <= Len(files')
  /\ \A f \in 1 .. Len(files) : Extends(EntriesOf(f), EntriesOf(f)')

LEMMA OthersGrow ==
  ASSUME StoreInv, Len(files) <= Len(files'),
         \A f \in 1 .. Len(files) : files'[f] = files[f]
  PROVE  FilesGrow
<1>1. ASSUME NEW f \in 1 .. Len(files) PROVE Extends(EntriesOf(f), EntriesOf(f)')
  <2>1. Len(EntriesOf(f)) \in Nat
    BY Parents DEF StoreInv, FileOK, Tree
  <2>2. EntriesOf(f)' = EntriesOf(f) /\ Len(EntriesOf(f)) <= Len(EntriesOf(f))
    BY <2>1 DEF EntriesOf
  <2>. QED  BY <2>2 DEF Extends
<1>. QED  BY <1>1 DEF FilesGrow

LEMMA StoreStays ==
  ASSUME StoreInv, UNCHANGED store
  PROVE  StoreInv' /\ FilesGrow
<1>1. ASSUME NEW f \in 1 .. Len(files) PROVE FileOK(f)'
  BY FileStays DEF store, StoreInv
<1>2. StoreInv'
  BY <1>1 DEF store, StoreInv
<1>3. FilesGrow
  BY OthersGrow DEF store, StoreInv
<1>. QED  BY <1>2, <1>3

LEMMA StoreMoved ==
  ASSUME StoreInv, NEW t \in Terminals, StoreMove(t)
  PROVE  /\ StoreInv' /\ FilesGrow
         /\ \A u \in Terminals \ {t} : session'[u] = session[u] /\ leaf'[u] = leaf[u]
<1>0. /\ Len(files) \in Nat /\ DOMAIN session = Terminals /\ DOMAIN leaf = Terminals
      /\ \A f \in 1 .. Len(files) : Len(EntriesOf(f)) \in Nat
  BY Parents DEF StoreInv, FileOK, Tree
<1>1. ASSUME Len(files) <= Len(files'), \A f \in 1 .. Len(files) : files'[f] = files[f]
      PROVE  FilesGrow
  BY <1>1, OthersGrow
<1>2. CASE Create(t)
  <2>1. FilesGrow
    BY <1>0, <1>1, <1>2, FileAppended DEF Create
  <2>. QED  BY <1>0, <1>2, <2>1, StoreCreate DEF Create
<1>3. CASE CreateTorn
  <2>1. FilesGrow
    BY <1>0, <1>1, <1>3, FileAppended DEF CreateTorn
  <2>. QED  BY <1>0, <1>3, <2>1, StoreCreateTorn DEF CreateTorn
<1>4. CASE Leave(t)
  <2>1. FilesGrow
    BY <1>0, <1>1, <1>4 DEF Leave
  <2>. QED  BY <1>0, <1>4, <2>1, StoreLeave DEF Leave
<1>5. CASE UNCHANGED store
  BY <1>5, StoreStays DEF store
<1>6. ASSUME NEW f \in 1 .. Len(files), Open(t, f)
      PROVE  /\ StoreInv' /\ FilesGrow
             /\ \A u \in Terminals \ {t} : session'[u] = session[u] /\ leaf'[u] = leaf[u]
  <2>1. FilesGrow
    BY <1>0, <1>1, <1>6 DEF Open
  <2>. QED  BY <1>0, <1>6, <2>1, StoreOpen DEF Open
<1>7. ASSUME session[t] # 0, NEW kind \in Kinds, Write(t, kind)
      PROVE  /\ StoreInv' /\ FilesGrow
             /\ \A u \in Terminals \ {t} : session'[u] = session[u] /\ leaf'[u] = leaf[u]
  <2>1. PICK f : f = session[t]
    OBVIOUS
  <2>2. PICK gs : gs = EntriesOf(f)'
    OBVIOUS
  <2>3. UNCHANGED session
    BY <1>7 DEF Write
  <2>4. /\ f \in 1 .. Len(files) /\ Len(files') = Len(files)
        /\ OneMore(EntriesOf(f), gs, leaf[t], kind)
        /\ \A g \in 1 .. Len(files) : g # f => files'[g] = files[g]
        /\ leaf' = [leaf EXCEPT ![t] = Len(gs)]
    BY <1>7, <2>1, <2>2, <2>3, WriteMore DEF EntriesOf
  <2>5. ASSUME NEW g \in 1 .. Len(files) PROVE Extends(EntriesOf(g), EntriesOf(g)')
    <3>1. CASE g = f
      BY <2>2, <2>4, <3>1 DEF OneMore
    <3>2. CASE g # f
      <4>1. EntriesOf(g)' = EntriesOf(g) /\ Len(EntriesOf(g)) <= Len(EntriesOf(g))
        BY <1>0, <2>4, <3>2 DEF EntriesOf
      <4>. QED  BY <4>1 DEF Extends
    <3>. QED  BY <3>1, <3>2
  <2>6. FilesGrow
    BY <1>0, <2>4, <2>5 DEF FilesGrow
  <2>. QED  BY <1>0, <1>7, <2>3, <2>4, <2>6, StoreWrite
<1>. QED  BY <1>2, <1>3, <1>4, <1>5, <1>6, <1>7 DEF StoreMove

-------------------------------------------------------------------------------
(* The task of a process.                                                   *)

Working(t) == pc[t] \in InRun \/ (pc[t] = "saving" /\ draft[t].then = "begin")

\* Where a task of the command line stands: it starts where every call is
\* answered, and only between a call and its result there is an open one.
Stands(f, n, at) ==
  /\ at # "tool" => Answered(EntriesOf(f), n)
  /\ at = "tool" => n # 0 /\ OpenCalls(EntriesOf(f), n)
  /\ at = "answer" => n # 0 /\ EntriesOf(f)[n].kind = "answer"

\* A process that works has a session; one that was given a prompt does nothing
\* but work, and no run of it ended yet.
TaskOK(t) ==
  /\ Working(t) \/ pc[t] = "compact" => session[t] # 0
  /\ local[t].once =>
       Working(t) /\ local[t].reason = "none" /\ Stands(session[t], leaf[t], pc[t])

TaskInv ==
  /\ PressInv /\ StoreInv
  /\ \A t \in Terminals : TaskOK(t)

LEMMA TaskElsewhere ==
  ASSUME StoreInv, StoreInv', FilesGrow, NEW u \in Terminals, TaskOK(u),
         session'[u] = session[u], leaf'[u] = leaf[u],
         pc'[u] = pc[u], local'[u] = local[u], draft'[u] = draft[u]
  PROVE  TaskOK(u)'
<1>1. Working(u)' <=> Working(u)
  BY DEF Working
<1>2. ASSUME local[u].once PROVE Stands(session[u], leaf[u], pc[u])'
  <2>1. Working(u) /\ session[u] # 0 /\ Stands(session[u], leaf[u], pc[u])
    BY <1>2 DEF TaskOK
  <2>2. PICK f, n : f = session[u] /\ n = leaf[u]
    OBVIOUS
  <2>3. f \in 1 .. Len(files) /\ f \in 1 .. Len(files')
    BY <2>1, <2>2 DEF StoreInv, FilesGrow
  <2>4. Tree(f) /\ Tree(f)'
    BY <2>3 DEF StoreInv, FileOK
  <2>5. PICK es, gs : es = EntriesOf(f) /\ gs = EntriesOf(f)'
    OBVIOUS
  <2>6. Chained(es) /\ Chained(gs) /\ Extends(es, gs) /\ n \in 0 .. Len(es)
    BY <2>2, <2>3, <2>4, <2>5 DEF Tree, FilesGrow
  <2>7. n \in 0 .. Len(es) /\ (n # 0 => n \in 1 .. Len(es) /\ gs[n] = es[n])
    BY <2>6, Parents DEF Extends
  <2>8. pc[u] # "tool" => Answered(gs, n)
    BY <2>1, <2>2, <2>5, <2>6, AnsweredStays DEF Stands
  <2>9. pc[u] = "tool" => n # 0 /\ OpenCalls(gs, n)
    BY <2>1, <2>2, <2>5, <2>6, <2>7, OpenCallsStay DEF Stands
  <2>10. pc[u] = "answer" => n # 0 /\ gs[n].kind = "answer"
    BY <2>1, <2>2, <2>5, <2>7 DEF Stands
  <2>11. Stands(f, n, pc[u])'
    BY <2>5, <2>8, <2>9, <2>10 DEF Stands
  <2>. QED  BY <2>2, <2>11
<1>. QED  BY <1>1, <1>2 DEF TaskOK

\* The others keep their task, whatever process t does.
OnlyOf(t) ==
  \A u \in Terminals \ {t} : pc'[u] = pc[u] /\ local'[u] = local[u] /\ draft'[u] = draft[u]

\* A step of t: it is one of those that keep the files in order, and t stands as
\* it should after it.
TaskMove(t) == StoreMove(t) /\ OnlyOf(t) /\ TaskOK(t)'

LEMMA TaskMoved ==
  ASSUME TaskInv, PressInv', NEW t \in Terminals, TaskMove(t)
  PROVE  TaskInv'
<1>1. StoreInv /\ StoreInv' /\ FilesGrow
      /\ \A u \in Terminals \ {t} : session'[u] = session[u] /\ leaf'[u] = leaf[u]
  BY StoreMoved DEF TaskInv, TaskMove
<1>2. ASSUME NEW u \in Terminals, u # t PROVE TaskOK(u)'
  BY <1>1, <1>2, TaskElsewhere DEF TaskInv, TaskMove, OnlyOf
<1>. QED  BY <1>1, <1>2 DEF TaskInv, TaskMove

LEMMA MovesTo ==
  ASSUME PressInv, NEW t \in Terminals, NEW there, NEW new, NEW d, Moves(t, there, new, d)
  PROVE  pc'[t] = there /\ local'[t] = new /\ draft'[t] = d /\ OnlyOf(t)
BY DEF PressInv, Moves, Put, OnlyOf

\* A step to a process that was given no prompt, and has a session if it works.
LEMMA TaskFree ==
  ASSUME PressInv, NEW t \in Terminals, NEW there, NEW new, NEW d, Moves(t, there, new, d),
         ~new.once,
         \/ session'[t] # 0
         \/ there \notin InRun \cup {"compact"} /\ (there = "saving" => d.then # "begin")
  PROVE  OnlyOf(t) /\ TaskOK(t)'
BY MovesTo DEF TaskOK, Working

\* A step that starts a process with a prompt, in a session that replay accepts.
LEMMA TaskGiven ==
  ASSUME PressInv, NEW t \in Terminals, NEW there, NEW new, NEW d, Moves(t, there, new, d),
         there = "begin" \/ (there = "saving" /\ d.then = "begin"),
         new.reason = "none", session'[t] # 0, Answered(EntriesOf(session[t])', leaf'[t])
  PROVE  OnlyOf(t) /\ TaskOK(t)'
<1>1. pc'[t] = there /\ local'[t] = new /\ draft'[t] = d /\ OnlyOf(t)
  BY MovesTo
<1>2. Working(t)'
  BY <1>1 DEF Working, InRun
<1>3. Stands(session[t], leaf[t], pc[t])'
  BY <1>1 DEF Stands
<1>. QED  BY <1>1, <1>2, <1>3 DEF TaskOK

LEMMA NotGiven ==
  ASSUME TaskInv, NEW t \in Terminals, pc[t] \notin InRun \cup {"saving"}
  PROVE  ~local[t].once
BY DEF TaskInv, TaskOK, Working

LEMMA TaskExit ==
  ASSUME TaskInv, NEW t \in Terminals, NEW how, Exit(t, how)
  PROVE  TaskMove(t)
<1>1. PICK there \in Gone : Moves(t, there, NewLocal(FALSE), NoDraft)
  BY DEF Moves, Put, Exit, GoTo, Gone
<1>2. ~NewLocal(FALSE).once
  BY DEF NewLocal
<1>3. OnlyOf(t) /\ TaskOK(t)'
  BY <1>1, <1>2, TaskFree DEF TaskInv, Gone, InRun
<1>. QED  BY <1>3 DEF TaskMove, StoreMove, Exit

\* The start of a path answers everything.
LEMMA NothingAsked == ASSUME NEW es, Chained(es) PROVE Answered(es, 0)
BY PathStep DEF Answered

LEMMA TaskStartWith ==
  ASSUME TaskInv, NEW t \in Terminals, pc[t] \in Gone, NEW f \in 1 .. Len(files),
         StartWith(t, f)
  PROVE  TaskMove(t)
<1>1. CASE GoTo(t, "off") /\ UNCHANGED <<store, local, draft>>
  <2>1. Moves(t, "off", local[t], draft[t])
    BY <1>1 DEF Moves, Put, GoTo
  <2>2. ~local[t].once
    BY NotGiven DEF Gone, InRun
  <2>3. OnlyOf(t) /\ TaskOK(t)'
    BY <2>1, <2>2, TaskFree DEF TaskInv, InRun
  <2>. QED  BY <1>1, <2>3 DEF TaskMove, StoreMove
<1>2. ASSUME Loads(f), Open(t, f), NEW given \in Given(t), GoTo(t, AfterStart(given)),
             Begin(t, given), UNCHANGED draft
      PROVE  TaskMove(t)
  <2>1. PICK new : new = NewLocal(given)
    OBVIOUS
  <2>2. Moves(t, AfterStart(given), new, draft[t])
    BY <1>2, <2>1 DEF Moves, Put, GoTo, Begin
  <2>3. new.once = given /\ new.reason = "none" /\ given \in BOOLEAN
    BY <2>1 DEF NewLocal, Given
  <2>4. DOMAIN session = Terminals /\ DOMAIN leaf = Terminals
    BY DEF TaskInv, StoreInv
  <2>5. session'[t] = f /\ f # 0 /\ leaf'[t] = Len(EntriesOf(f)) /\ EntriesOf(f)' = EntriesOf(f)
    BY <1>2, <2>4 DEF Open, EntriesOf
  <2>6. Answered(EntriesOf(session[t])', leaf'[t])
    BY <1>2, <2>5 DEF Loads, EntriesOf
  <2>7. OnlyOf(t) /\ TaskOK(t)'
    <3>1. CASE given
      <4>1. AfterStart(given) = "begin"
        BY <3>1 DEF AfterStart
      <4>. QED  BY <2>2, <2>3, <2>5, <2>6, <4>1, TaskGiven DEF TaskInv
    <3>2. CASE ~given
      BY <2>2, <2>3, <2>5, <3>2, TaskFree DEF TaskInv
    <3>. QED  BY <3>1, <3>2
  <2>. QED  BY <1>2, <2>7 DEF TaskMove, StoreMove
<1>. QED  BY <1>1, <1>2 DEF StartWith

LEMMA TaskStart ==
  ASSUME TaskInv, NEW t \in Terminals,
         StartFresh(t) \/ Resume(t) \/ Continue(t)
  PROVE  TaskMove(t)
<1>1. pc[t] \in Gone
  BY DEF StartFresh, Resume, Continue, Launch
<1>2. ~local[t].once
  BY <1>1, NotGiven DEF Gone, InRun
<1>3. files \in Seq(File) /\ Len(files) \in Nat /\ latest \in 0 .. Len(files)
      /\ DOMAIN files = 1 .. Len(files) /\ DOMAIN session = Terminals /\ DOMAIN leaf = Terminals
  BY DEF TaskInv, StoreInv
<1>4. ASSUME NEW there \in {"off", "prompt", "key"}, NEW new, ~new.once,
             Moves(t, there, new, draft[t]), CreateTorn \/ UNCHANGED store
      PROVE  TaskMove(t)
  <2>1. OnlyOf(t) /\ TaskOK(t)'
    BY <1>4, TaskFree DEF TaskInv, InRun
  <2>. QED  BY <1>4, <2>1 DEF TaskMove, StoreMove
<1>5. CASE GoTo(t, "off") /\ UNCHANGED <<local, draft>> /\ (CreateTorn \/ UNCHANGED store)
  <2>1. Moves(t, "off", local[t], draft[t])
    BY <1>5 DEF Moves, Put, GoTo
  <2>. QED  BY <1>2, <1>4, <1>5, <2>1
<1>6. ASSUME NEW given \in BOOLEAN, Create(t), Save(t, {}, AfterStart(given)), Begin(t, given)
      PROVE  TaskMove(t)
  <2>1. PICK new, d : /\ new = NewLocal(given) /\ d.then = AfterStart(given)
                      /\ Moves(t, "saving", new, d)
    BY <1>6 DEF Moves, Put, GoTo, Begin, Save
  <2>2. new.once = given /\ new.reason = "none"
    BY <2>1 DEF NewLocal
  <2>3. StoreInv' /\ StoreMove(t)
    BY <1>6, StoreCreate DEF TaskInv, StoreMove
  <2>4. PICK f : f = Len(files')
    OBVIOUS
  <2>5. f = Len(files) + 1 /\ f \in 1 .. Len(files')
    BY <1>3, <1>6, <2>4, FileAppended DEF TaskInv, Create
  <2>6. session'[t] = f /\ leaf'[t] = 0 /\ f # 0
    BY <1>3, <1>6, <2>4, <2>5 DEF Create
  <2>7. Chained(EntriesOf(f)')
    BY <2>3, <2>5 DEF StoreInv, FileOK, Tree
  <2>8. Answered(EntriesOf(session[t])', leaf'[t])
    BY <2>6, <2>7, NothingAsked DEF EntriesOf
  <2>9. OnlyOf(t) /\ TaskOK(t)'
    <3>1. CASE given
      <4>1. AfterStart(given) = "begin"
        BY <3>1 DEF AfterStart
      <4>. QED  BY <2>1, <2>2, <2>6, <2>8, <4>1, TaskGiven DEF TaskInv
    <3>2. CASE ~given
      BY <2>1, <2>2, <2>6, <3>2, TaskFree DEF TaskInv
    <3>. QED  BY <3>1, <3>2
  <2>. QED  BY <2>3, <2>9 DEF TaskMove
<1>7. CASE StartFresh(t)
  <2>1. PICK given \in BOOLEAN :
          \/ Create(t) /\ Save(t, {}, AfterStart(given)) /\ Begin(t, given)
          \/ GoTo(t, "off") /\ UNCHANGED <<local, draft>> /\ (CreateTorn \/ UNCHANGED store)
          \/ /\ ~given /\ (CreateTorn \/ UNCHANGED store) /\ Begin(t, given) /\ UNCHANGED draft
             /\ \E there \in {"prompt", "key"} : GoTo(t, there)
    BY <1>7 DEF StartFresh, Given
  <2>2. ASSUME ~given, CreateTorn \/ UNCHANGED store, Begin(t, given), UNCHANGED draft,
               NEW there \in {"prompt", "key"}, GoTo(t, there)
        PROVE  TaskMove(t)
    <3>1. PICK new : new = NewLocal(given)
      OBVIOUS
    <3>2. ~new.once
      BY <2>2, <3>1 DEF NewLocal
    <3>3. Moves(t, there, new, draft[t])
      BY <2>2, <3>1 DEF Moves, Put, GoTo, Begin
    <3>. QED  BY <1>4, <2>2, <3>2, <3>3
  <2>. QED  BY <1>5, <1>6, <2>1, <2>2
<1>8. CASE Resume(t)
  BY <1>1, <1>3, <1>8, TaskStartWith DEF Resume
<1>9. CASE Continue(t)
  <2>1. CASE Listed /\ latest # 0
    <3>1. StartWith(t, latest) /\ latest \in 1 .. Len(files)
      BY <1>3, <1>9, <2>1 DEF Continue
    <3>. QED  BY <1>1, <3>1, TaskStartWith
  <2>2. CASE ~(Listed /\ latest # 0)
    BY <1>5, <1>9, <2>2 DEF Continue
  <2>. QED  BY <2>1, <2>2
<1>. QED  BY <1>7, <1>8, <1>9

LEMMA TaskReplace ==
  ASSUME TaskInv, NEW t \in Terminals, Replace(t)
  PROVE  TaskMove(t)
<1>1. pc[t] = "saving" /\ draft[t].then \in Onward /\ TaskOK(t)
  BY DEF TaskInv, PressInv, Replace
<1>2. CASE draft[t].then = "create"
  <2>1. ~local[t].once
    BY <1>1, <1>2 DEF TaskOK, Working, InRun
  <2>2. ~NewLocal(FALSE).once
    BY DEF NewLocal
  <2>3. \/ Create(t) /\ Moves(t, "prompt", local[t], NoDraft)
        \/ CreateTorn /\ Moves(t, "off", NewLocal(FALSE), NoDraft)
    BY <1>2 DEF Replace, Moves, Put, GoTo
  <2>4. OnlyOf(t) /\ TaskOK(t)'
    BY <2>1, <2>2, <2>3, TaskFree DEF TaskInv, InRun
  <2>. QED  BY <2>3, <2>4 DEF TaskMove, StoreMove
<1>3. CASE draft[t].then # "create"
  <2>1. PICK there \in {"off", "begin", "prompt"} : there = draft[t].then
    BY <1>1, <1>3 DEF Onward
  <2>2. Moves(t, there, local[t], NoDraft) /\ UNCHANGED store
    BY <1>3, <2>1 DEF Replace, Moves, Put, GoTo
  <2>3. session'[t] = session[t] /\ leaf'[t] = leaf[t]
        /\ EntriesOf(session[t])' = EntriesOf(session[t])
    BY <2>2 DEF store, EntriesOf
  <2>4. CASE there = "begin"
    <3>1. Working(t)
      BY <1>1, <2>1, <2>4 DEF Working
    <3>2. session[t] # 0
      BY <1>1, <3>1 DEF TaskOK
    <3>3. CASE local[t].once
      <4>1. local[t].reason = "none" /\ Answered(EntriesOf(session[t]), leaf[t])
        BY <1>1, <3>3 DEF TaskOK, Stands
      <4>2. OnlyOf(t) /\ TaskOK(t)'
        BY <2>2, <2>3, <2>4, <3>2, <4>1, TaskGiven DEF TaskInv
      <4>. QED  BY <2>2, <4>2 DEF TaskMove, StoreMove
    <3>4. CASE ~local[t].once
      <4>1. OnlyOf(t) /\ TaskOK(t)'
        BY <2>2, <2>3, <3>2, <3>4, TaskFree DEF TaskInv
      <4>. QED  BY <2>2, <4>1 DEF TaskMove, StoreMove
    <3>. QED  BY <3>3, <3>4
  <2>5. CASE there # "begin"
    <3>1. ~local[t].once
      BY <1>1, <2>1, <2>5 DEF TaskOK, Working, InRun
    <3>2. OnlyOf(t) /\ TaskOK(t)'
      BY <2>2, <2>5, <3>1, TaskFree DEF TaskInv, InRun
    <3>. QED  BY <2>2, <3>2 DEF TaskMove, StoreMove
  <2>. QED  BY <2>4, <2>5
<1>. QED  BY <1>2, <1>3

\* A command of the prompt loop, which was given no prompt.
LEMMA TaskLoop ==
  ASSUME TaskInv, NEW t \in Terminals, pc[t] \notin InRun \cup {"saving"}, StoreMove(t),
         NEW there, NEW new, NEW d, Moves(t, there, new, d), new.once = local[t].once,
         \/ session'[t] # 0
         \/ there \notin InRun \cup {"compact"} /\ (there = "saving" => d.then # "begin")
  PROVE  TaskMove(t)
<1>1. ~new.once
  BY NotGiven
<1>. QED  BY <1>1, TaskFree DEF TaskInv, TaskMove

LEMMA TaskCommand ==
  ASSUME TaskInv, NEW t \in Terminals,
         EnterKey(t) \/ PressAtPrompt(t) \/ Quit(t) \/ New(t) \/ Compact(t)
           \/ EndCompact(t) \/ Model(t) \/ EndModel(t) \/ Task(t) \/ Die(t)
  PROVE  TaskMove(t)
<1>0. IsLocal(local[t]) /\ DOMAIN session = Terminals
  BY DEF TaskInv, PressInv, StoreInv
<1>1. CASE \E how : Exit(t, how)
  BY <1>1, TaskExit
<1>2. ASSUME pc[t] \in {"key", "model", "compact"}, StoreMove(t),
             GoTo(t, "prompt"), UNCHANGED <<local, draft>>
      PROVE  TaskMove(t)
  <2>1. Moves(t, "prompt", local[t], draft[t])
    BY <1>2 DEF Moves, Put, GoTo
  <2>. QED  BY <1>2, <2>1, TaskLoop DEF InRun
<1>3. ASSUME pc[t] \in {"key", "model"}, StoreMove(t), NEW keys,
             NEW there \in {"create", "prompt"}, Save(t, keys, there), UNCHANGED local
      PROVE  TaskMove(t)
  <2>1. PICK d : d.then = there /\ Moves(t, "saving", local[t], d)
    BY <1>3 DEF Moves, Put, Save, GoTo
  <2>. QED  BY <1>3, <2>1, TaskLoop DEF InRun
<1>4. ASSUME pc[t] = "prompt", StoreMove(t), Accept(t), UNCHANGED draft, NEW there,
             GoTo(t, there) \/ (UNCHANGED pc /\ there = pc[t]),
             session'[t] # 0 \/ there \in {"prompt", "model"}
      PROVE  TaskMove(t)
  <2>. DEFINE new == [local[t] EXCEPT !.streak = 0, !.pressed = 0, !.stale = FALSE]
  <2>1. new.once = local[t].once
    BY <1>0 DEF IsLocal
  <2>2. Moves(t, there, new, draft[t])
    BY <1>4 DEF Moves, Put, GoTo, Accept
  <2>. HIDE DEF new
  <2>. QED  BY <1>4, <2>1, <2>2, TaskLoop DEF InRun
<1>5. CASE EnterKey(t)
  BY <1>1, <1>2, <1>3, <1>5 DEF EnterKey, StoreMove
<1>6. CASE PressAtPrompt(t)
  <2>1. CASE local[t].streak + 1 >= 2
    BY <1>1, <1>6, <2>1 DEF PressAtPrompt
  <2>2. CASE ~(local[t].streak + 1 >= 2)
    <3>. DEFINE new == [local[t] EXCEPT !.streak = @ + 1, !.pressed = 1]
    <3>1. new.once = local[t].once
      BY <1>0 DEF IsLocal
    <3>2. Moves(t, "prompt", new, draft[t]) /\ UNCHANGED store /\ pc[t] = "prompt"
      BY <1>6, <2>2 DEF PressAtPrompt, AtPrompt, Moves, Put
    <3>. HIDE DEF new
    <3>. QED  BY <3>1, <3>2, TaskLoop DEF InRun, StoreMove
  <2>. QED  BY <2>1, <2>2
<1>7. CASE Quit(t) \/ Die(t)
  BY <1>1, <1>7 DEF Quit, Die
<1>8. CASE New(t)
  BY <1>4, <1>8 DEF New, AtPrompt, StoreMove
<1>9. CASE Compact(t) \/ Model(t) \/ Task(t)
  <2>1. /\ pc[t] = "prompt" /\ Accept(t) /\ UNCHANGED draft /\ UNCHANGED store
        /\ \/ session[t] # 0 /\ \E there : GoTo(t, there)
           \/ GoTo(t, "model")
    BY <1>9 DEF Compact, Model, Task, AtPrompt
  <2>2. StoreMove(t) /\ session'[t] = session[t]
    BY <2>1 DEF StoreMove, store
  <2>. QED  BY <1>4, <2>1, <2>2
<1>10. CASE EndCompact(t)
  <2>1. CASE Write(t, "checkpoint") /\ GoTo(t, "prompt") /\ UNCHANGED <<local, draft>>
    <3>1. pc[t] = "compact" /\ TaskOK(t)
      BY <1>10 DEF EndCompact, TaskInv
    <3>2. session[t] # 0
      BY <3>1 DEF TaskOK
    <3>3. StoreMove(t)
      BY <2>1, <3>2 DEF StoreMove, Kinds
    <3>. QED  BY <1>2, <2>1, <3>1, <3>3
  <2>2. CASE GoTo(t, "prompt") /\ UNCHANGED <<store, local, draft>>
    BY <1>2, <1>10, <2>2 DEF EndCompact, StoreMove
  <2>. QED  BY <1>1, <1>10, <2>1, <2>2 DEF EndCompact
<1>11. CASE EndModel(t)
  <2>1. pc[t] = "model"
    BY <1>11 DEF EndModel
  <2>2. \/ /\ \E keys : Save(t, keys, "prompt")
           /\ Create(t) \/ UNCHANGED store
           /\ UNCHANGED local
        \/ CreateTorn /\ GoTo(t, "prompt") /\ UNCHANGED <<local, draft>>
        \/ GoTo(t, "prompt") /\ UNCHANGED <<store, local, draft>>
        \/ Exit(t, "off")
    BY <1>11 DEF EndModel
  <2>. QED  BY <1>1, <1>2, <1>3, <2>1, <2>2 DEF StoreMove
<1>. QED  BY <1>5, <1>6, <1>7, <1>8, <1>9, <1>10, <1>11

\* The end of a run: a process that was given a prompt is gone, the other one is
\* back at the prompt.
LEMMA TaskAfterRun ==
  ASSUME TaskInv, NEW t \in Terminals, NEW last, NEW byInterrupt, NEW new,
         AfterRun(t, last, byInterrupt, new),
         DOMAIN new = DOMAIN local[t], new.once = local[t].once
  PROVE  TaskMove(t)
<1>1. CASE local[t].once
  BY <1>1, TaskExit DEF AfterRun
<1>2. CASE ~local[t].once
  <2>. DEFINE to == [new EXCEPT !.reason = last,
                                !.streak = IF byInterrupt \/ last = "cancelled" THEN 1 ELSE @]
  <2>1. to.once = local[t].once
    BY DEF TaskInv, PressInv, IsLocal
  <2>2. Moves(t, "prompt", to, draft[t]) /\ UNCHANGED store
    BY <1>2 DEF AfterRun, Moves, Put, GoTo
  <2>. HIDE DEF to
  <2>3. OnlyOf(t) /\ TaskOK(t)'
    BY <1>2, <2>1, <2>2, TaskFree DEF TaskInv, InRun
  <2>. QED  BY <2>2, <2>3 DEF TaskMove, StoreMove
<1>. QED  BY <1>1, <1>2

\* An entry of the run: what was answered stays so, a call opens, its result
\* closes it again.
LEMMA TaskCommit ==
  ASSUME TaskInv, NEW t \in Terminals, NEW kind \in Kinds, NEW there \in InRun,
         Write(t, kind), pc[t] \in InRun, NEW new, Moves(t, there, new, draft[t]),
         new.once = local[t].once, local[t].once => new.reason = "none",
         kind = "calls" <=> there = "tool", kind = "results" <=> pc[t] = "tool",
         there = "answer" => kind = "answer"
  PROVE  TaskMove(t)
<1>1. session[t] # 0 /\ TaskOK(t) /\ StoreInv
  BY DEF TaskInv, TaskOK, Working
<1>2. UNCHANGED session
  BY DEF Write
<1>3. PICK f, n : f = session[t] /\ n = leaf[t]
  OBVIOUS
<1>4. PICK es, gs : es = EntriesOf(f) /\ gs = EntriesOf(f)'
  OBVIOUS
<1>5. OneMore(es, gs, n, kind) /\ leaf' = [leaf EXCEPT ![t] = Len(gs)]
  BY <1>1, <1>2, <1>3, <1>4, WriteMore DEF EntriesOf
<1>6. Len(gs) # 0 /\ gs[Len(gs)].kind = kind
  BY <1>5, Parents DEF OneMore
<1>7. leaf'[t] = Len(gs) /\ session'[t] = f
  BY <1>1, <1>2, <1>3, <1>5 DEF StoreInv
<1>8. /\ pc'[t] = there /\ local'[t] = new /\ draft'[t] = draft[t] /\ OnlyOf(t)
  BY MovesTo DEF TaskInv
<1>9. ASSUME local[t].once PROVE Stands(session[t], leaf[t], pc[t])'
  <2>1. Stands(f, n, pc[t])
    BY <1>1, <1>3, <1>9 DEF TaskOK
  <2>2. CASE kind = "results"
    <3>1. OpenCalls(es, n)
      BY <1>4, <2>1, <2>2 DEF Stands
    <3>2. Answered(gs, Len(gs))
      BY <1>5, <2>2, <3>1, ResultsMore
    <3>. QED  BY <1>4, <1>6, <1>7, <1>8, <2>2, <3>2 DEF Stands
  <2>3. CASE kind = "calls"
    <3>1. Answered(es, n)
      BY <1>4, <2>1, <2>3 DEF Stands
    <3>2. OpenCalls(gs, Len(gs))
      BY <1>5, <2>3, <3>1, CallsMore
    <3>. QED  BY <1>4, <1>6, <1>7, <1>8, <2>3, <3>2 DEF Stands
  <2>4. CASE kind \notin {"calls", "results"}
    <3>1. Answered(es, n)
      BY <1>4, <2>1, <2>4 DEF Stands
    <3>2. Answered(gs, Len(gs))
      BY <1>5, <2>4, <3>1, AnsweredMore
    <3>. QED  BY <1>4, <1>6, <1>7, <1>8, <2>4, <3>2 DEF Stands
  <2>. QED  BY <2>2, <2>3, <2>4
<1>10. TaskOK(t)'
  BY <1>1, <1>2, <1>8, <1>9 DEF TaskOK, Working
<1>. QED  BY <1>1, <1>8, <1>10 DEF TaskMove, StoreMove

LEMMA TaskRun ==
  ASSUME TaskInv, NEW t \in Terminals, Run(t)
  PROVE  TaskMove(t)
<1>0. IsLocal(local[t]) /\ TaskOK(t)
  BY DEF TaskInv, PressInv
<1>1. CASE BeginRun(t)
  <2>. DEFINE new == [local[t] EXCEPT !.reason = "none"]
  <2>1. new.once = local[t].once /\ new.reason = "none"
    BY <1>0 DEF IsLocal
  <2>2. /\ Moves(t, "work", new, draft[t]) /\ Write(t, "task") /\ pc[t] = "begin"
    BY <1>1 DEF BeginRun, Commit, GoTo, Moves, Put
  <2>. HIDE DEF new
  <2>. QED  BY <2>1, <2>2, TaskCommit DEF Kinds, InRun
<1>2. ASSUME NEW kind \in Kinds, NEW from \in InRun, NEW to \in InRun,
             Commit(t, from, kind, to), UNCHANGED local,
             kind = "calls" <=> to = "tool", kind = "results" <=> from = "tool",
             to = "answer" => kind = "answer"
      PROVE  TaskMove(t)
  <2>1. Moves(t, to, local[t], draft[t]) /\ Write(t, kind) /\ pc[t] = from
    BY <1>2 DEF Commit, GoTo, Moves, Put
  <2>2. local[t].once => local[t].reason = "none"
    BY <1>0 DEF TaskOK
  <2>. QED  BY <1>2, <2>1, <2>2, TaskCommit
<1>3. CASE CallTools(t)
  BY <1>2, <1>3 DEF CallTools, Kinds, InRun
<1>4. CASE EndTools(t)
  BY <1>2, <1>4 DEF EndTools, Kinds, InRun
<1>5. CASE Answer(t)
  BY <1>2, <1>5 DEF Answer, Kinds, InRun
<1>6. CASE EndRun(t)
  <2>1. PICK r \in Reasons :
          AfterRun(t, r, FALSE, [local[t] EXCEPT !.pressed = IF r = "cancelled" THEN 1 ELSE @])
    BY <1>6 DEF EndRun
  <2>. DEFINE new == [local[t] EXCEPT !.pressed = IF r = "cancelled" THEN 1 ELSE @]
  <2>2. DOMAIN new = DOMAIN local[t] /\ new.once = local[t].once
    BY <1>0 DEF IsLocal
  <2>3. AfterRun(t, r, FALSE, new)
    BY <2>1
  <2>. HIDE DEF new
  <2>. QED  BY <2>2, <2>3, TaskAfterRun
<1>7. CASE RaiseRun(t)
  <2>. DEFINE last == local[t].reason
              hit == [local[t] EXCEPT !.pressed = 1]
              old == [local[t] EXCEPT !.stale = last = "cancelled"]
  <2>1. AfterRun(t, last, TRUE, hit) \/ AfterRun(t, last, FALSE, old)
    BY <1>7 DEF RaiseRun
  <2>2. DOMAIN hit = DOMAIN local[t] /\ hit.once = local[t].once
    BY <1>0 DEF IsLocal
  <2>3. DOMAIN old = DOMAIN local[t] /\ old.once = local[t].once
    BY <1>0 DEF IsLocal
  <2>. HIDE DEF last, hit, old
  <2>. QED  BY <2>1, <2>2, <2>3, TaskAfterRun
<1>. QED  BY <1>1, <1>3, <1>4, <1>5, <1>6, <1>7 DEF Run

LEMMA TaskInit == Init => TaskInv
<1>. SUFFICES ASSUME Init PROVE TaskInv
  OBVIOUS
<1>1. PressInv
  BY PressInit
<1>2. /\ files = <<>> /\ latest = 0 /\ files \in Seq(File) /\ Len(files) = 0
      /\ session = [t \in Terminals |-> 0] /\ leaf = [t \in Terminals |-> 0]
  BY DEF Init, StoreInit
<1>3. StoreInv
  <2>1. session \in [Terminals -> 0 .. 0] /\ leaf \in [Terminals -> Nat]
    BY <1>2
  <2>2. \A f \in 1 .. Len(files) : FALSE
    BY <1>2
  <2>. QED  BY <1>2, <2>1, <2>2 DEF StoreInv
<1>4. ASSUME NEW t \in Terminals PROVE TaskOK(t)
  <2>1. pc[t] = "off" /\ local[t] = NewLocal(FALSE)
    BY DEF Init
  <2>2. ~NewLocal(FALSE).once
    BY DEF NewLocal
  <2>. QED  BY <2>1, <2>2 DEF TaskOK, Working, InRun
<1>. QED  BY <1>1, <1>3, <1>4 DEF TaskInv

LEMMA TaskStep == TaskInv /\ [Next]_vars => TaskInv'
<1>. SUFFICES ASSUME TaskInv, [Next]_vars PROVE TaskInv'
  OBVIOUS
<1>0. PressInv'
  BY PressStep DEF TaskInv
<1>1. CASE UNCHANGED vars
  <2>1. FilesGrow /\ StoreInv'
    BY <1>1, StoreStays DEF vars, TaskInv
  <2>2. ASSUME NEW t \in Terminals PROVE TaskOK(t)'
    BY <1>1, <2>1, TaskElsewhere DEF vars, store, TaskInv
  <2>. QED  BY <1>0, <2>1, <2>2 DEF TaskInv
<1>2. CASE Next
  BY <1>0, <1>2, TaskStart, TaskReplace, TaskCommand, TaskRun, TaskMoved DEF Next
<1>. QED  BY <1>1, <1>2

\* Where one process at a time worked on a session, it is a single line of
\* entries; where two did, a tree that load accepts, unless both started from the
\* empty file (_append, _validate_loaded_entry).
THEOREM SessionsResume == Spec => []ResumesWork
<1>1. TaskInv => ResumesWork
  BY StoreResumes DEF TaskInv
<1>. QED  BY <1>1, TaskInit, TaskStep, PTL DEF Spec

\* A process ends with 0 only by the end of a completed run, after its answer.
LEMMA OnlyAnswerCompletes ==
  ASSUME TaskInv, NEW s \in Terminals, Run(s)
  PROVE  Otherwise(s, "completed") \/ (pc[s] = "answer" /\ local[s].once)
<1>0. "completed" \in Ends /\ TaskOK(s)
  BY DEF Ends, TaskInv
<1>1. CASE EndRun(s)
  <2>1. PICK r \in Reasons :
          (\E new : AfterRun(s, r, FALSE, new)) /\ (r = "completed" => pc[s] = "answer")
    BY <1>1 DEF EndRun
  <2>2. r # "completed" => ExitCode(r) # "completed"
    BY DEF ExitCode
  <2>. QED  BY <1>0, <2>1, <2>2, AfterRunOtherwise
<1>2. CASE RaiseRun(s)
  <2>1. PICK byInterrupt \in BOOLEAN : \E new : AfterRun(s, local[s].reason, byInterrupt, new)
    BY <1>2 DEF RaiseRun
  <2>2. local[s].once => ExitCode(local[s].reason) # "completed"
    BY <1>0 DEF TaskOK, ExitCode
  <2>. QED  BY <1>0, <2>1, <2>2, AfterRunOtherwise
<1>. QED  BY <1>0, <1>1, <1>2, CommitOtherwise DEF Run

LEMMA PressGoesOn ==
  ASSUME NEW s \in Terminals, PressAtPrompt(s)
  PROVE  Otherwise(s, "completed")
BY ExitOtherwise DEF PressAtPrompt, Otherwise

LEMMA CompletedAnswer ==
  ASSUME TaskInv, NEW t \in Terminals, [Next]_vars, pc[t] # pc'[t], pc'[t] = "completed"
  PROVE  /\ leaf[t] # 0 /\ files[session[t]].entries[leaf[t]].kind = "answer"
         /\ Answered(files[session[t]].entries, leaf[t])
<1>0. PressInv
  BY DEF TaskInv
<1>1. PICK s \in Terminals : Otherwise(s, "completed") \/ Run(s)
  BY <1>0, StartOtherwise, CommandOtherwise, PressGoesOn DEF Next, vars, Ends
<1>2. Run(s) /\ pc[s] = "answer" /\ local[s].once
  BY <1>0, <1>1, EndsOtherwise, OnlyAnswerCompletes
<1>3. s = t
  BY <1>0, <1>2, TaskRun DEF TaskMove, OnlyOf
<1>4. Stands(session[t], leaf[t], pc[t]) /\ pc[t] = "answer"
  BY <1>2, <1>3 DEF TaskInv, TaskOK
<1>. QED  BY <1>4 DEF Stands, EntriesOf

\* A task of the command line exits with 0 only when its answer is the last entry
\* of its branch in the session file, and nothing before it is unanswered,
\* whatever other processes wrote in between (cli 590-616, _exit_code_for).
THEOREM SuccessHasAnswer == Spec => SuccessIsAnswered
<1>1. TaskInv /\ [Next]_vars =>
        [\A t \in Terminals :
           pc[t] # pc'[t] /\ pc'[t] = "completed" =>
             leaf[t] # 0 /\ files[session[t]].entries[leaf[t]].kind = "answer"
             /\ Answered(files[session[t]].entries, leaf[t])]_vars
  BY CompletedAnswer
<1>. QED  BY <1>1, TaskInit, TaskStep, PTL DEF Spec, SuccessIsAnswered
===============================================================================
