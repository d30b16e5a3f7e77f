---------------------------- MODULE WriterContext ----------------------------
(***************************************************************************)
(* The writer context of the Web UI (webui/memory-store.js): which Agent Zero  *)
(* chat or task the dashboard's requests are sent under, how that choice is      *)
(* kept per project, and the activation of a project while the user goes on.    *)
(*                                                                         *)
(* JavaScript runs one handler at a time up to its next await; an action is       *)
(* such a stretch.  What a request brings back is shown and changes nothing here.  *)
(***************************************************************************)
EXTENDS Naturals

CONSTANTS
  Chats,      \* chats and tasks: contexts of Agent Zero
  NoChat,
  Projects,
  NoProject,
  Deselect,   \* may the page be without an active chat?
  Reassign,   \* may a chat change its project?
  Upgraded,   \* may the browser hold a writer kept by the plugin's previous version?
  MaxChanges  \* bound: what Agent Zero and the user's browser do to the page

ASSUME WriterAssumption ==
  /\ NoChat \notin Chats /\ NoProject \notin Projects
  /\ Deselect \in BOOLEAN /\ Reassign \in BOOLEAN /\ Upgraded \in BOOLEAN
  /\ MaxChanges \in Nat

Names == Projects \cup {NoProject}

\* Where an activation is: before or after its configuration has been saved.
Steps == {"idle", "save", "preflight"}

VARIABLES
  chats,    \* the contexts the server has
  listed,   \* those the page knows; none before its first poll
  project,  \* [Chats -> Names]
  active,   \* the active chat
  writer,   \* writerContextId
  saved,    \* [Names -> chat]: localStorage, writer-context.v2
  legacy,   \* sessionStorage, writer-context
  step,     \* of the activation in progress (activationBusy)
  chat,     \* its contextId
  target,   \* its projectName
  changes,
  past,     \* history: which chat has been in which project
  aligned,  \* history: project of the last opening, while nothing has changed since
  sent      \* history: where the last write went, and where the panel said writes go

page       == <<writer, saved, legacy>>
activation == <<step, chat, target>>
world      == <<chats, listed, project, active, changes, past>>
vars       == <<chats, listed, project, active, writer, saved, legacy, step, chat, target,
                changes, past, aligned, sent>>

Init ==
  /\ chats = Chats /\ listed = {}
  /\ project \in [Chats -> Names]
  /\ active \in IF Deselect THEN Chats \cup {NoChat} ELSE Chats
  /\ writer = NoChat
  /\ saved = [p \in Names |-> NoChat]
  /\ legacy \in IF Upgraded THEN Chats \cup {NoChat} ELSE {NoChat}
  /\ step = "idle" /\ chat = NoChat /\ target = NoProject
  /\ changes = 0
  /\ past = {<<c, project[c]>> : c \in Chats}
  /\ aligned = NoProject
  /\ sent = [to |-> NoProject, shown |-> NoProject]

-----------------------------------------------------------------------------
(* Reading the page. *)

\* currentContextId: the writer context, or else the active chat.
CurrentContext == IF writer # NoChat THEN writer ELSE active

\* currentProjectName: the active chat decides, without one the writer.
CurrentProject ==
  LET c == IF active # NoChat THEN active ELSE writer
  IN IF c \in listed THEN project[c] ELSE NoProject

\* writerContexts
WriterContexts(p) == {c \in listed : p = NoProject \/ project[c] = p}

\* writerContextSummary: the project it names, if any.
SummaryProject ==
  IF CurrentContext \in WriterContexts(CurrentProject) /\ project[CurrentContext] # NoProject
  THEN project[CurrentContext] ELSE CurrentProject

\* savedWriterContextId
SavedFor(p) == IF saved[p] # NoChat THEN saved[p] ELSE legacy

\* Mutant: a remembered writer needs no second look.
ChosenUnchecked(p) ==
  IF writer # NoChat THEN {writer}
  ELSE IF SavedFor(p) # NoChat THEN {SavedFor(p)}
  ELSE IF active \in WriterContexts(p) THEN {active}
  ELSE IF WriterContexts(p) # {} THEN WriterContexts(p) ELSE {NoChat}

\* Mutant: contexts[0]?.id is taken as it is.
ChosenUndefined(p) ==
  LET available == WriterContexts(p) IN
  IF writer \in available THEN {writer}
  ELSE IF SavedFor(p) \in available THEN {SavedFor(p)}
  ELSE IF active \in available THEN {active}
  ELSE IF available # {} THEN available ELSE {"undefined"}

\* Mutant: the active chat goes before the remembered writer.
ChosenActiveFirst(p) ==
  LET available == WriterContexts(p) IN
  IF active \in available THEN {active}
  ELSE IF writer \in available THEN {writer}
  ELSE IF SavedFor(p) \in available THEN {SavedFor(p)}
  ELSE IF available # {} THEN available ELSE {NoChat}

\* What syncWriterContext may choose: a remembered writer that is still there, the active
\* chat, or the first one, whichever Agent Zero lists first.
Chosen(p) ==
  LET available == WriterContexts(p) IN
  IF writer \in available THEN {writer}
  ELSE IF SavedFor(p) \in available THEN {SavedFor(p)}
  ELSE IF active \in available THEN {active}
  ELSE IF available # {} THEN available ELSE {NoChat}

\* Mutant: the choice is filed under the project of the active chat.
SyncFilesUnderCurrent(p) ==
  /\ writer' \in Chosen(p)
  /\ saved' = [saved EXCEPT ![CurrentProject] = writer']
  /\ legacy' = NoChat

\* syncWriterContext and saveWriterContextId
Sync(p) ==
  /\ writer' \in Chosen(p)
  /\ saved' = [saved EXCEPT ![p] = writer']
  /\ legacy' = NoChat

-----------------------------------------------------------------------------
(* The store. *)

\* The store is created, or the panel is opened.
Open ==
  /\ Sync(CurrentProject)
  /\ aligned' = CurrentProject
  /\ UNCHANGED <<world, activation, sent>>

\* remember, mark, forgetSelected, maintenance, rebuild_fts: post refuses without a
\* context.
SendWrite ==
  /\ CurrentContext # NoChat
  /\ sent' = [to |-> project[CurrentContext], shown |-> SummaryProject]
  /\ UNCHANGED <<world, page, activation, aligned>>

\* activateProject, for the project chosen in the settings' own menu; its button is
\* disabled while an activation is in progress.
Activate ==
  /\ step = "idle"
  /\ \E p \in Projects : Sync(p) /\ target' = p
  /\ chat' = writer'
  /\ step' = "save"
  /\ aligned' = NoProject
  /\ UNCHANGED <<world, sent>>

Idle == step' = "idle" /\ chat' = NoChat /\ target' = NoProject

\* Mutant: the context is looked up again after the configuration was saved.
ConfigSavedRereads ==
  /\ step = "save"
  /\ \/ /\ CurrentContext # NoChat
        /\ step' = "preflight" /\ chat' = CurrentContext /\ UNCHANGED target
     \/ Idle
  /\ UNCHANGED <<world, page, aligned, sent>>

\* The configuration is saved, and a chat of the project proves the activation; or the
\* save fails, or there is no chat.
ConfigSaved ==
  /\ step = "save"
  /\ \/ /\ chat # NoChat
        /\ step' = "preflight" /\ UNCHANGED <<chat, target>>
     \/ Idle
  /\ UNCHANGED <<world, page, aligned, sent>>

PreflightAnswered ==
  /\ step = "preflight"
  /\ Idle
  /\ UNCHANGED <<world, page, aligned, sent>>

-----------------------------------------------------------------------------
(* Agent Zero, the browser and the user. *)

\* The page learns which contexts there are.
Poll ==
  /\ listed' = chats
  /\ UNCHANGED <<chats, project, active, changes, past, page, activation, aligned, sent>>

Change == changes < MaxChanges /\ changes' = changes + 1 /\ aligned' = NoProject

Selectable(cs) == IF Deselect THEN cs \cup {NoChat} ELSE cs

SwitchChat ==
  /\ Change
  /\ active' \in Selectable(chats) \ {active}
  /\ UNCHANGED <<chats, listed, project, past, page, activation, sent>>

\* A chat is moved to another project, or out of its project.
ChangeProject ==
  /\ Reassign /\ Change
  /\ \E c \in chats, p \in Names :
       project' = [project EXCEPT ![c] = p] /\ past' = past \cup {<<c, p>>}
  /\ UNCHANGED <<chats, listed, active, page, activation, sent>>

DeleteChat ==
  /\ Change
  /\ \E c \in chats :
       /\ chats' = chats \ {c}
       /\ active' \in IF active = c THEN Selectable(chats') ELSE {active}
  /\ UNCHANGED <<listed, project, past, page, activation, sent>>

\* The page is loaded again: only the browser's storage is kept.
Reload ==
  /\ Change
  /\ listed' = {} /\ active' \in Selectable(chats)
  /\ writer' = NoChat /\ Idle
  /\ UNCHANGED <<chats, project, past, saved, legacy, sent>>

-----------------------------------------------------------------------------
Store == Open \/ SendWrite \/ Activate \/ ConfigSaved \/ PreflightAnswered

Next == Store \/ Poll \/ SwitchChat \/ ChangeProject \/ DeleteChat \/ Reload

Spec == Init /\ [][Next]_vars

-----------------------------------------------------------------------------
(* Properties. *)

TypeOK ==
  /\ chats \subseteq Chats /\ listed \subseteq Chats
  /\ project \in [Chats -> Names]
  /\ active \in Chats \cup {NoChat} /\ writer \in Chats \cup {NoChat}
  /\ saved \in [Names -> Chats \cup {NoChat}]
  /\ legacy \in Chats \cup {NoChat}
  /\ step \in Steps /\ chat \in Chats \cup {NoChat} /\ target \in Names
  /\ changes \in Nat
  /\ past \subseteq Chats \X Names
  /\ aligned \in Names
  /\ sent \in [to : Names, shown : Names]

\* "Writer identity is project scoped" (test_webui.py): the writer remembered for a
\* project is a chat that has been in that project, also when it was remembered by the
\* activation of a project other than the active chat's.
SavedInProject ==
  \A p \in Projects : saved[p] # NoChat => <<saved[p], p>> \in past

\* From an opening of the panel until the active chat, a project or the list changes or
\* another project is activated, every request is sent under a chat of the active project,
\* and the panel names no other project as the one that writes use.
OpenedInProject == aligned # NoProject =>
  /\ CurrentContext # NoChat /\ project[CurrentContext] = aligned
  /\ SummaryProject \in {aligned, NoProject}

\* "uses a matching project chat for receipt-backed preflight" (webui/config.html): the
\* activation's preflight is sent under a chat that has been in the activated project,
\* whatever was opened, selected or deleted while the configuration was being saved.
ProvedInProject == step = "preflight" => <<chat, target>> \in past

\* Writer identity "persists" (test_webui.py): while the writer remembered for a project
\* is listed in it, only the writer in use takes its place.
WriterPersists ==
  [][ \A p \in Projects :
        saved[p] \in WriterContexts(p) => saved'[p] \in {saved[p], writer} ]_vars

\* "Writes use the active <project> project context" (writerContextSummary): a write goes
\* to the project that the panel names when it is sent.
WritesGoWhereShown == sent.shown # NoProject => sent.to = sent.shown
=============================================================================
