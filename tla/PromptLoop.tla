------------------------------ MODULE PromptLoop -------------------------------
(***************************************************************************)
(* Processes of the command line (mini_pi/cli/app.py) on one workspace:    *)
(* start, one task or a prompt loop, the commands that change state, the   *)
(* Ctrl+C that cancels and the one that leaves, exit codes, and the saved  *)
(* connection and keys they share (mini_pi/auth.py).                       *)
(*                                                                         *)
(* pc of a process:                                                        *)
(*   off      not started yet, or gone                                     *)
(*   key      asking for a missing key at the start                        *)
(*   saving   auth.json was read and is about to be replaced               *)
(*   prompt   reader.read()                                                *)
(*   begin    in agent.run, before its AgentStartEvent                     *)
(*   work     in the run, no call of a tool open;  tool: in a tool;        *)
(*            answer: the final reply is committed                         *)
(*   compact  /compact waits for the summary;  model: /model asks          *)
(*                                                                         *)
(* What a run does inside is AgentLoop's matter: here it commits replies,  *)
(* calls and results, and ends in one of its ways.                         *)
(***************************************************************************)
EXTENDS SessionStore

CONSTANTS
  Providers,    \* PROVIDERS
  EnvKeys,      \* providers whose key is in the environment
  Interactive,  \* bound: terminals where a prompt loop may run
  MaxLaunches   \* bound: processes started

ASSUME PromptLoopAssumption ==
  /\ EnvKeys \subseteq Providers
  /\ Interactive \subseteq Terminals
  /\ MaxLaunches \in Nat /\ MaxFiles \in Nat /\ MaxEntries \in Nat

\* "stopped" is error, budget_limit and step_limit: ended, and not as asked.
Reasons == {"completed", "stopped", "cancelled"}

\* How a process ended: with exit code 0 after its task, by Ctrl+C at the prompt,
\* or any other way (a command, another exit code, an exception, a signal).
Gone == {"off", "interrupts", "completed"}
InRun == {"begin", "work", "tool", "answer"}

VARIABLES
  auth,         \* auth.json: the providers with a key
  pc,           \* Gone when the process ended
  local,        \* once: a prompt was given on the command line;
                \* streak: interrupt_streak; reason: renderer.last_end_reason.
                \* History: pressed, Ctrl+C since the last accepted line; stale,
                \* the streak was set by the end of an earlier run
  draft,        \* what a process in saving read, what it will write and add, and
                \* where it goes on
  \* History: keys reported as saved, and keys overwritten by a process that
  \* had read the file before they were in it.
  saved, raced,
  launches

vars == <<store, auth, pc, local, draft, saved, raced, launches>>

NoDraft == [seen |-> {}, keys |-> {}, adds |-> {}, then |-> "off"]
NewLocal(given) ==
  [once |-> given, streak |-> 0, reason |-> "none",
   pressed |-> 0, stale |-> FALSE]

Init ==
  /\ StoreInit
  /\ auth = {}
  /\ pc = [t \in Terminals |-> "off"]
  /\ local = [t \in Terminals |-> NewLocal(FALSE)]
  /\ draft = [t \in Terminals |-> NoDraft]
  /\ saved = {} /\ raced = {}
  /\ launches = 0

GoTo(t, there) == pc' = [pc EXCEPT ![t] = there]

\* The process ends; its runtime is closed.
Exit(t, how) ==
  /\ GoTo(t, IF how \in Gone THEN how ELSE "off")
  /\ local' = [local EXCEPT ![t] = NewLocal(FALSE)]
  /\ draft' = [draft EXCEPT ![t] = NoDraft]
  /\ Leave(t)

-------------------------------------------------------------------------------
(* auth.json: every save reads the file and then replaces it as a whole.   *)

HasKey(p) == p \in EnvKeys \cup auth

\* Mutant: the keys of the file are dropped.
SaveOnly(t, keys, there) ==
  /\ GoTo(t, "saving")
  /\ draft' = [draft EXCEPT ![t] =
       [seen |-> auth, keys |-> keys, adds |-> keys, then |-> there]]

\* save_connection with the key just entered, save_last_connection with none.
Save(t, keys, there) ==
  /\ GoTo(t, "saving")
  /\ draft' = [draft EXCEPT ![t] =
       [seen |-> auth, keys |-> auth \cup keys, adds |-> keys, then |-> there]]

\* os.replace of auth.json.  A prompt of the command line then starts its task;
\* the key entered at the start is saved before there is a session, and a
\* session that cannot be made then ends the program.
Replace(t) ==
  /\ pc[t] = "saving"
  /\ LET d == draft[t] IN
     /\ auth' = d.keys
     /\ saved' = saved \cup d.adds
     /\ raced' = raced \cup (auth \ d.seen)
     /\ \/ /\ d.then = "create"
           /\ Create(t)
           /\ GoTo(t, "prompt")
           /\ draft' = [draft EXCEPT ![t] = NoDraft]
           /\ UNCHANGED local
        \/ /\ d.then = "create"
           /\ CreateTorn
           /\ GoTo(t, "off")
           /\ draft' = [draft EXCEPT ![t] = NoDraft]
           /\ local' = [local EXCEPT ![t] = NewLocal(FALSE)]
        \/ /\ d.then # "create"
           /\ GoTo(t, d.then)
           /\ draft' = [draft EXCEPT ![t] = NoDraft]
           /\ UNCHANGED <<store, local>>
  /\ UNCHANGED launches

-------------------------------------------------------------------------------
(* The start.  The provider is any of them: given, saved, detected or that   *)
(* of the session.                                                         *)

Launch(t) ==
  /\ pc[t] \in Gone
  /\ launches < MaxLaunches
  /\ launches' = launches + 1
  /\ UNCHANGED <<auth, saved, raced>>

Begin(t, given) == local' = [local EXCEPT ![t] = NewLocal(given)]
\* Whether a prompt is given on the command line.
Given(t) == IF t \in Interactive THEN BOOLEAN ELSE {TRUE}
AfterStart(given) == IF given THEN "begin" ELSE "prompt"

\* A new session.  Without one a task of the command line fails, and the prompt
\* loop goes on; without a key the prompt loop asks for it first.
StartFresh(t) ==
  /\ Launch(t)
  /\ \E given \in Given(t), p \in Providers :
       \/ /\ HasKey(p)
          /\ Create(t)
          /\ Save(t, {}, AfterStart(given))
          /\ Begin(t, given)
       \/ /\ given
          /\ IF HasKey(p) THEN CreateTorn ELSE UNCHANGED store
          /\ GoTo(t, "off")
          /\ UNCHANGED <<local, draft>>
       \/ /\ ~given
          /\ IF HasKey(p) THEN CreateTorn ELSE UNCHANGED store
          /\ GoTo(t, IF HasKey(p) THEN "prompt" ELSE "key")
          /\ Begin(t, given)
          /\ UNCHANGED draft

StartWith(t, f) ==
  \/ /\ Loads(f)
     /\ \E p \in Providers : HasKey(p)
     /\ Open(t, f)
     /\ \E given \in Given(t) : GoTo(t, AfterStart(given)) /\ Begin(t, given)
     /\ UNCHANGED draft
  \/ /\ ~Loads(f) \/ \E p \in Providers : ~HasKey(p)
     /\ GoTo(t, "off")
     /\ UNCHANGED <<store, local, draft>>

Resume(t) == Launch(t) /\ \E f \in DOMAIN files : StartWith(t, f)

\* --continue: the file last active, when all of them load.
Continue(t) ==
  /\ Launch(t)
  /\ IF Listed /\ latest # 0 THEN StartWith(t, latest)
     ELSE GoTo(t, "off") /\ UNCHANGED <<store, local, draft>>

\* _prompt_and_build: no key given, one the provider refuses, or one it takes;
\* Ctrl+C in the question leaves the program.
EnterKey(t) ==
  /\ pc[t] = "key"
  /\ \/ GoTo(t, "prompt") /\ UNCHANGED <<store, local, draft>>
     \/ /\ \E p \in Providers \ EnvKeys : Save(t, {p}, "create")
        /\ UNCHANGED <<store, local>>
     \/ Exit(t, "off")
  /\ UNCHANGED <<auth, saved, raced, launches>>

-------------------------------------------------------------------------------
(* The prompt.                                                             *)

AtPrompt(t) == pc[t] = "prompt" /\ UNCHANGED <<auth, saved, raced, launches>>

\* A line was read: neither Ctrl+C before it nor what it left counts any more.
Accept(t) ==
  local' = [local EXCEPT ![t].streak = 0, ![t].pressed = 0, ![t].stale = FALSE]

\* Ctrl+C while a line is read.  Bytes that are no UTF-8 are refused and read
\* again with the streak as it is (app.py:673-679): a step that changes nothing.
PressAtPrompt(t) ==
  /\ AtPrompt(t)
  /\ IF local[t].streak + 1 >= 2
       THEN Exit(t, "interrupts")
       ELSE /\ local' = [local EXCEPT ![t].streak = @ + 1, ![t].pressed = 1]
            /\ UNCHANGED <<store, pc, draft>>

\* /exit, /quit and the end of the input.
Quit(t) == AtPrompt(t) /\ Exit(t, "off")

\* /new: a file that cannot be made leaves the session as it is.
New(t) ==
  /\ AtPrompt(t) /\ Accept(t)
  /\ session[t] # 0
  /\ Create(t) \/ CreateTorn
  /\ UNCHANGED <<pc, draft>>

Compact(t) ==
  /\ AtPrompt(t) /\ Accept(t)
  /\ session[t] # 0
  /\ GoTo(t, "compact")
  /\ UNCHANGED <<store, draft>>

\* The checkpoint is written, or a MiniPiError is shown (always one when the
\* session has a call without its result); Ctrl+C leaves the program.
EndCompact(t) ==
  /\ pc[t] = "compact"
  /\ \/ /\ leaf[t] # 0 /\ Answered(files[session[t]].entries, leaf[t])
        /\ Write(t, "checkpoint")
        /\ GoTo(t, "prompt")
        /\ UNCHANGED <<local, draft>>
     \/ GoTo(t, "prompt") /\ UNCHANGED <<store, local, draft>>
     \/ Exit(t, "off")
  /\ UNCHANGED <<auth, saved, raced, launches>>

Model(t) ==
  /\ AtPrompt(t) /\ Accept(t)
  /\ GoTo(t, "model")
  /\ UNCHANGED <<store, draft>>

\* _switch_connection: a saved key is used again, another one is asked for and
\* verified; without a session one is made; then the choice is saved.  Ctrl+C in
\* a question, or auth.json that cannot be written, leaves the program.
EndModel(t) ==
  /\ pc[t] = "model"
  /\ \/ \E p \in Providers :
          /\ IF session[t] = 0 THEN Create(t) ELSE UNCHANGED store
          /\ Save(t, IF HasKey(p) THEN {} ELSE {p}, "prompt")
          /\ UNCHANGED local
     \/ /\ session[t] = 0
        /\ CreateTorn
        /\ GoTo(t, "prompt")
        /\ UNCHANGED <<local, draft>>
     \/ GoTo(t, "prompt") /\ UNCHANGED <<store, local, draft>>
     \/ Exit(t, "off")
  /\ UNCHANGED <<auth, saved, raced, launches>>

-------------------------------------------------------------------------------
(* A task.                                                                 *)

\* Mutant: Ctrl+C before the task still counts.
TaskKeepsStreak(t) ==
  /\ AtPrompt(t)
  /\ session[t] # 0
  /\ local' = [local EXCEPT ![t].pressed = 0, ![t].stale = FALSE]
  /\ GoTo(t, "begin")
  /\ UNCHANGED <<store, draft>>

Task(t) ==
  /\ AtPrompt(t) /\ Accept(t)
  /\ session[t] # 0
  /\ GoTo(t, "begin")
  /\ UNCHANGED <<store, draft>>

\* Mutant: a run that ended is a success.
ExitCodeOfEnd(last) == IF last = "none" THEN "stopped" ELSE "completed"

\* _exit_code_for: no reason was seen, which is no success.
ExitCode(last) == IF last = "none" THEN "stopped" ELSE last

\* run() is over with this last_end_reason, byInterrupt when KeyboardInterrupt
\* left it.  A task of the command line exits; an interrupted one of the prompt
\* loop counts as the first Ctrl+C.
AfterRun(t, last, byInterrupt, new) ==
  \/ /\ local[t].once
     /\ Exit(t, IF byInterrupt THEN "cancelled" ELSE ExitCode(last))
  \/ /\ ~local[t].once
     /\ GoTo(t, "prompt")
     /\ local' = [local EXCEPT ![t] =
          [new EXCEPT !.reason = last,
                      !.streak = IF byInterrupt \/ last = "cancelled" THEN 1 ELSE @]]
     /\ UNCHANGED <<store, draft>>

\* A run that reports how it ended; one that ends before its start (prepare_mcp,
\* begin_run, _abort_before_prompt) reports both.
EndRun(t) ==
  /\ \E r \in Reasons :
       /\ \/ pc[t] = "begin" /\ r \in {"stopped", "cancelled"}
          \/ pc[t] = "work" /\ r # "completed"
          \/ pc[t] = "answer" /\ r \in {"completed", "cancelled"}
       /\ AfterRun(t, r, FALSE,
                   [local[t] EXCEPT !.pressed = IF r = "cancelled" THEN 1 ELSE @])
  /\ UNCHANGED <<auth, saved, raced, launches>>

\* An exception leaves the run without AgentEnd: the file could not be written,
\* or Ctrl+C landed outside what catches it.  Before AgentStart the reason is
\* still that of the run before.
RaiseRun(t) ==
  /\ pc[t] \in InRun
  /\ LET last == local[t].reason IN
     \/ AfterRun(t, last, TRUE, [local[t] EXCEPT !.pressed = 1])
     \/ AfterRun(t, last, FALSE, [local[t] EXCEPT !.stale = last = "cancelled"])
  /\ UNCHANGED <<auth, saved, raced, launches>>

Commit(t, from, kind, to) ==
  /\ pc[t] = from
  /\ Write(t, kind)
  /\ GoTo(t, to)
  /\ UNCHANGED <<auth, draft, saved, raced, launches>>

\* The user message is committed, then AgentStart resets the reason.
BeginRun(t) ==
  /\ Commit(t, "begin", "task", "work")
  /\ local' = [local EXCEPT ![t].reason = "none"]
CallTools(t) == Commit(t, "work", "calls", "tool") /\ UNCHANGED local
EndTools(t) == Commit(t, "tool", "results", "work") /\ UNCHANGED local
Answer(t) == Commit(t, "work", "answer", "answer") /\ UNCHANGED local

-------------------------------------------------------------------------------
\* The process is killed: what it had not written is gone.
Die(t) ==
  /\ pc[t] \notin Gone
  /\ Exit(t, "off")
  /\ UNCHANGED <<auth, saved, raced, launches>>

Run(t) == BeginRun(t) \/ CallTools(t) \/ EndTools(t) \/ Answer(t) \/ EndRun(t) \/ RaiseRun(t)
Next ==
  \E t \in Terminals :
    \/ StartFresh(t) \/ Resume(t) \/ Continue(t) \/ EnterKey(t) \/ Replace(t)
    \/ PressAtPrompt(t) \/ Quit(t) \/ New(t) \/ Compact(t) \/ EndCompact(t)
    \/ Model(t) \/ EndModel(t) \/ Task(t) \/ Run(t) \/ Die(t)

Spec == Init /\ [][Next]_vars

-------------------------------------------------------------------------------
TypeOK ==
  /\ StoreType
  /\ auth \subseteq Providers
  /\ pc \in [Terminals -> Gone \cup InRun \cup {"key", "saving", "prompt", "compact", "model"}]
  /\ local \in [Terminals ->
       [once : BOOLEAN, streak : 0 .. 1,
        reason : Reasons \cup {"none"}, pressed : 0 .. 1, stale : BOOLEAN]]
  /\ \A t \in Terminals : pc[t] \in InRun \cup {"compact"} => session[t] # 0
  /\ saved \subseteq Providers /\ raced \subseteq Providers

\* Ctrl+C at the prompt leaves the program only when there was another one since
\* the last line the prompt accepted, at the prompt or in that task; or, the
\* exception of app.py:835, when the task before raised without an AgentStart and
\* an earlier one had been cancelled.
TwiceToExit ==
  [][\A t \in Terminals :
       pc[t] # pc'[t] /\ pc'[t] = "interrupts" => local[t].pressed = 1 \/ local[t].stale]_vars

\* A task of the command line exits with 0 only when its answer is the last
\* entry of its branch in the session file (cli 590-616, _exit_code_for).
SuccessIsAnswered ==
  [][\A t \in Terminals :
       pc[t] # pc'[t] /\ pc'[t] = "completed" =>
         leaf[t] # 0 /\ files[session[t]].entries[leaf[t]].kind = "answer"
         /\ Answered(files[session[t]].entries, leaf[t])]_vars

\* A key the program said it saved stays in auth.json, whatever connections are
\* saved after it by whatever process, unless that process had read the file
\* before the key was in it (_write_auth_file, no lock).
KeysKept == saved \subseteq auth \cup raced
===============================================================================
