------------------------- MODULE WriterContextProofs -------------------------
(***************************************************************************)
(* What the Web UI's writer context keeps for every set of chats and projects    *)
(* and any sequence of changes of the page.                                   *)
(***************************************************************************)
EXTENDS WriterContext, TLAPS

\* The history knows where every chat is.
Placed == \A c \in Chats : <<c, project[c]>> \in past

\* After an opening the writer itself is in the active project, and so is the active chat.
WriterAligned == aligned # NoProject =>
  /\ writer \in Chats /\ project[writer] = aligned
  /\ active # NoChat => project[active] = aligned

\* An activation holds a chat of its project from its first step on.
ActivatesInProject ==
  step = "preflight" \/ (step = "save" /\ chat # NoChat) => <<chat, target>> \in past

IInv == TypeOK /\ Placed /\ SavedInProject /\ WriterAligned /\ ActivatesInProject

USE DEF Names, Steps

LEMMA Initially == Init => IInv
<1> SUFFICES ASSUME Init PROVE IInv
  OBVIOUS
<1>1. TypeOK
  <2>1. past \subseteq Chats \X Names
    BY DEF Init
  <2>2. /\ active \in Chats \cup {NoChat} /\ legacy \in Chats \cup {NoChat}
        /\ changes \in Nat
    BY DEF Init
  <2> QED BY <2>1, <2>2 DEF Init, TypeOK
<1>2. Placed /\ SavedInProject /\ WriterAligned /\ ActivatesInProject
  BY DEF Init, Placed, SavedInProject, WriterAligned, ActivatesInProject
<1> QED BY <1>1, <1>2 DEF IInv

-----------------------------------------------------------------------------
\* Whatever syncWriterContext chooses is a listed chat of the project it was called for,
\* and there is one when a chat of the project is listed.
LEMMA ChosenInProject ==
  ASSUME TypeOK, NEW p \in Names, NEW c \in Chosen(p)
  PROVE  /\ c = NoChat \/ c \in WriterContexts(p)
         /\ WriterContexts(p) # {} => c \in WriterContexts(p)
  BY WriterAssumption DEF Chosen, TypeOK, WriterContexts

\* The choice is typed and filed under a project it belongs to.
LEMMA SyncFiles ==
  ASSUME IInv, NEW p \in Names, Sync(p)
  PROVE  /\ writer' \in Chats \cup {NoChat}
         /\ saved' \in [Names -> Chats \cup {NoChat}]
         /\ legacy' \in Chats \cup {NoChat}
         /\ \A q \in Projects : saved'[q] # NoChat => <<saved'[q], q>> \in past
         /\ p \in Projects /\ writer' # NoChat => <<writer', p>> \in past
<1>1. writer' = NoChat \/ writer' \in WriterContexts(p)
  BY ChosenInProject DEF Sync, IInv
<1>2. WriterContexts(p) \subseteq Chats
  BY DEF WriterContexts, IInv, TypeOK
<1>3. p \in Projects /\ writer' # NoChat => <<writer', p>> \in past
  BY <1>1, WriterAssumption DEF WriterContexts, IInv, TypeOK, Placed
<1>4. saved' \in [Names -> Chats \cup {NoChat}] /\ saved' = [saved EXCEPT ![p] = writer']
  BY <1>1, <1>2 DEF Sync, IInv, TypeOK
<1>5. \A q \in Projects : saved'[q] # NoChat => <<saved'[q], q>> \in past
  BY <1>3, <1>4 DEF IInv, TypeOK, SavedInProject
<1> QED BY <1>1, <1>2, <1>3, <1>4, <1>5 DEF Sync

LEMMA OpenKeeps == ASSUME IInv, Open PROVE IInv'
<1> DEFINE p == CurrentProject
<1>1. p \in Names /\ Sync(p)
  BY DEF Open, CurrentProject, IInv, TypeOK
<1>2. TypeOK'
  BY <1>1, SyncFiles DEF Open, IInv, TypeOK, world, activation
<1>3. Placed' /\ SavedInProject' /\ ActivatesInProject'
  BY <1>1, SyncFiles DEF Open, IInv, Placed, SavedInProject, ActivatesInProject, world, activation
<1>4. ASSUME p # NoProject PROVE writer' \in Chats /\ project[writer'] = p
  <2>1. WriterContexts(p) # {}
    BY <1>4 DEF CurrentProject, WriterContexts
  <2>2. writer' \in WriterContexts(p)
    BY <1>1, <2>1, ChosenInProject DEF Sync, IInv
  <2> QED BY <1>4, <2>2 DEF WriterContexts, IInv, TypeOK
<1>5. ASSUME p # NoProject, active # NoChat PROVE project[active] = p
  BY <1>5 DEF CurrentProject
<1>6. WriterAligned'
  BY <1>4, <1>5 DEF Open, WriterAligned, world
<1> QED BY <1>2, <1>3, <1>6 DEF IInv

LEMMA WriteKeeps == ASSUME IInv, SendWrite PROVE IInv'
<1>1. TypeOK'
  <2>1. SummaryProject \in Names /\ CurrentContext \in Chats
    BY DEF SendWrite, SummaryProject, CurrentContext, CurrentProject, WriterContexts, IInv, TypeOK
  <2> QED BY <2>1 DEF SendWrite, IInv, TypeOK, world, page, activation
<1> QED BY <1>1 DEF SendWrite, IInv, Placed, SavedInProject, WriterAligned,
    ActivatesInProject, world, page, activation

LEMMA ActivateKeeps == ASSUME IInv, Activate PROVE IInv'
<1>1. PICK p \in Projects : Sync(p) /\ target' = p
  BY DEF Activate
<1>2. p \in Names
  OBVIOUS
<1>3. TypeOK'
  BY <1>1, <1>2, SyncFiles DEF Activate, IInv, TypeOK, world
<1>4. Placed' /\ SavedInProject' /\ WriterAligned'
  BY <1>1, <1>2, SyncFiles DEF Activate, IInv, Placed, SavedInProject, WriterAligned, world
<1>5. ActivatesInProject'
  BY <1>1, <1>2, SyncFiles DEF Activate, ActivatesInProject, world
<1> QED BY <1>3, <1>4, <1>5 DEF IInv

\* The rest of an activation changes nothing of the page.
LEMMA ActivationKeeps == ASSUME IInv, ConfigSaved \/ PreflightAnswered PROVE IInv'
<1>1. TypeOK'
  BY DEF ConfigSaved, PreflightAnswered, Idle, IInv, TypeOK, world, page
<1>2. Placed' /\ SavedInProject' /\ WriterAligned'
  BY DEF ConfigSaved, PreflightAnswered, IInv, Placed, SavedInProject, WriterAligned, world, page
<1>3. ActivatesInProject'
  BY DEF ConfigSaved, PreflightAnswered, Idle, IInv, ActivatesInProject, world
<1> QED BY <1>1, <1>2, <1>3 DEF IInv

-----------------------------------------------------------------------------
\* Agent Zero and the browser end an alignment rather than break it.
LEMMA WorldKeeps ==
  ASSUME IInv, Poll \/ SwitchChat \/ ChangeProject \/ DeleteChat \/ Reload
  PROVE  IInv'
<1> USE DEF page, activation
<1>1. CASE Poll
  <2>1. TypeOK'
    BY <1>1 DEF Poll, IInv, TypeOK
  <2> QED BY <1>1, <2>1 DEF Poll, IInv, Placed, SavedInProject, WriterAligned, ActivatesInProject
<1>2. CASE SwitchChat
  <2>1. TypeOK'
    BY <1>2 DEF SwitchChat, Change, Selectable, IInv, TypeOK
  <2> QED BY <1>2, <2>1 DEF SwitchChat, Change, IInv, Placed, SavedInProject, WriterAligned,
            ActivatesInProject
<1>3. CASE ChangeProject
  <2>1. PICK c \in chats, p \in Names :
          project' = [project EXCEPT ![c] = p] /\ past' = past \cup {<<c, p>>}
    BY <1>3 DEF ChangeProject
  <2>2. TypeOK'
    BY <1>3, <2>1 DEF ChangeProject, Change, IInv, TypeOK
  <2>3. Placed'
    BY <2>1 DEF IInv, TypeOK, Placed
  <2>4. SavedInProject' /\ WriterAligned' /\ ActivatesInProject'
    BY <1>3, <2>1 DEF ChangeProject, Change, IInv, SavedInProject, WriterAligned,
       ActivatesInProject
  <2> QED BY <2>2, <2>3, <2>4 DEF IInv
<1>4. CASE DeleteChat
  <2>1. TypeOK'
    BY <1>4 DEF DeleteChat, Change, Selectable, IInv, TypeOK
  <2> QED BY <1>4, <2>1 DEF DeleteChat, Change, IInv, Placed, SavedInProject, WriterAligned,
            ActivatesInProject
<1>5. CASE Reload
  <2>1. TypeOK'
    BY <1>5 DEF Reload, Change, Selectable, Idle, IInv, TypeOK
  <2> QED BY <1>5, <2>1 DEF Reload, Change, Idle, IInv, Placed, SavedInProject, WriterAligned,
            ActivatesInProject
<1> QED BY <1>1, <1>2, <1>3, <1>4, <1>5

LEMMA StepKeeps == IInv /\ [Next]_vars => IInv'
<1> SUFFICES ASSUME IInv, [Next]_vars PROVE IInv'
  OBVIOUS
<1>1. CASE Next
  BY <1>1, OpenKeeps, WriteKeeps, ActivateKeeps, ActivationKeeps, WorldKeeps DEF Next, Store
<1>2. CASE UNCHANGED vars
  <2>1. TypeOK'
    BY <1>2 DEF vars, IInv, TypeOK
  <2> QED BY <1>2, <2>1 DEF vars, IInv, Placed, SavedInProject, WriterAligned,
            ActivatesInProject
<1> QED BY <1>1, <1>2

\* The inductive invariant.
THEOREM WriterInvariance == Spec => []IInv
<1>1. Init => IInv
  BY Initially
<1>2. IInv /\ [Next]_vars => IInv'
  BY StepKeeps
<1> QED BY <1>1, <1>2, PTL DEF Spec

\* Every variable of the page keeps its type.
THEOREM WriterTypeCorrect == Spec => []TypeOK
<1>1. IInv => TypeOK
  BY DEF IInv
<1> QED BY <1>1, WriterInvariance, PTL

\* syncWriterContext and saveWriterContextId never remember a writer for a project it was
\* never in.
THEOREM IdentityScoped == Spec => []SavedInProject
<1>1. IInv => SavedInProject
  BY DEF IInv
<1> QED BY <1>1, WriterInvariance, PTL

\* While the panel is aligned it sends to the active project and shows that one, or none.
LEMMA AlignedShown == ASSUME IInv PROVE OpenedInProject
<1>1. CASE aligned # NoProject
  <2>1. CurrentContext = writer /\ writer # NoChat /\ project[writer] = aligned
    BY <1>1, WriterAssumption DEF IInv, WriterAligned, CurrentContext
  <2>2. CurrentProject \in {aligned, NoProject}
    BY <1>1, <2>1 DEF IInv, WriterAligned, CurrentProject
  <2> QED BY <2>1, <2>2 DEF OpenedInProject, SummaryProject
<1> QED BY <1>1 DEF OpenedInProject

\* Opening the panel puts the requests of currentContextId into the active project, and
\* writerContextSummary names that project, if any.
THEOREM OpeningAligns == Spec => []OpenedInProject
<1>1. IInv => OpenedInProject
  BY AlignedShown
<1> QED BY <1>1, WriterInvariance, PTL

\* A write goes where the panel says, which the run writer_shown refutes in general, while
\* the panel is aligned: what it takes to send one elsewhere is a change since the opening.
THEOREM AlignedWrites ==
  Spec => [][aligned # NoProject /\ SendWrite => sent'.to = aligned /\ WritesGoWhereShown']_vars
<1> DEFINE Step == aligned # NoProject /\ SendWrite => sent'.to = aligned /\ WritesGoWhereShown'
<1>1. IInv /\ [Next]_vars => [Step]_vars
  BY AlignedShown DEF SendWrite, OpenedInProject, WritesGoWhereShown
<1> QED BY <1>1, WriterInvariance, PTL DEF Spec

\* activateProject proves the project it was asked to activate.
THEOREM ActivationProved == Spec => []ProvedInProject
<1>1. IInv => ProvedInProject
  BY DEF IInv, ActivatesInProject, ProvedInProject
<1> QED BY <1>1, WriterInvariance, PTL

\* syncWriterContext replaces a remembered writer that is still listed in its project by
\* the writer in use, and by nothing else.
THEOREM WriterKept == Spec => WriterPersists
<1> DEFINE Kept == \A p \in Projects :
      saved[p] \in WriterContexts(p) => saved'[p] \in {saved[p], writer}
<1>1. IInv /\ [Next]_vars => [Kept]_vars
  <2> SUFFICES ASSUME IInv, Next, NEW p \in Projects, saved[p] \in WriterContexts(p)
      PROVE saved'[p] \in {saved[p], writer}
    OBVIOUS
  <2>1. ASSUME NEW q \in Names, Sync(q) PROVE saved'[p] \in {saved[p], writer}
    <3>1. saved[p] # NoChat
      BY WriterAssumption DEF WriterContexts, IInv, TypeOK
    <3>2. CASE q = p
      <4>1. writer' \in {saved[p], writer}
        BY <2>1, <3>1, <3>2 DEF Sync, Chosen, SavedFor
      <4> QED BY <2>1, <3>2, <4>1 DEF Sync, IInv, TypeOK
    <3>3. CASE q # p
      BY <2>1, <3>3 DEF Sync, IInv, TypeOK
    <3> QED BY <3>2, <3>3
  <2>2. CASE Open
    BY <2>1, <2>2 DEF Open, CurrentProject, IInv, TypeOK
  <2>3. CASE Activate
    BY <2>1, <2>3 DEF Activate
  <2>4. CASE ~Open /\ ~Activate
    BY <2>4 DEF Next, Store, SendWrite, ConfigSaved, PreflightAnswered, Poll, SwitchChat,
       ChangeProject, DeleteChat, Reload, page
  <2> QED BY <2>2, <2>3, <2>4
<1> QED BY <1>1, WriterInvariance, PTL DEF Spec, WriterPersists
=============================================================================
