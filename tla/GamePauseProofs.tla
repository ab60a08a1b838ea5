-------------------------- MODULE GamePauseProofs --------------------------
(***************************************************************************)
(* Theorems about GamePause, for any threads, any limit of the list and    *)
(* every use: the inductive invariant PauseInv, from it that the game runs *)
(* between two menus, and that GamePause implements Freeze.                *)
(***************************************************************************)
EXTENDS GamePause, TLAPS

(* A step of Freeze, or none.                                              *)
FreezeStep == [F!Next]_(F!vars)

Walking == {"pausing", "resuming"}

LEMMA IdListsLive ==
  ASSUME NEW S \in IdLists
  PROVE  S \subseteq alive \cup Other \cup {thid}
  BY DEF IdLists, Living

(* The walks reach the game's threads and no others.                       *)
LEMMA SkippedExactly ==
  ASSUME NEW t \in Thread \cup Other \cup {thid}
  PROVE  Skipped(t) <=> t \notin Thread
  BY ThreadAssumption DEF Skipped

LEMMA InitPauseInv == Init => PauseInv /\ F!Init
  BY ThreadAssumption
     DEF Init, PauseInv, TypeOK, WalksOwned, WalksReturn, WalkedOver, Paused, Held,
         ListInUse, Places, F!Init, Phase

(* gamePause, wherever it is called: the game is stopped already, or the   *)
(* walk begins.                                                            *)
LEMMA PauseEffect ==
  ASSUME PauseInv, pc \notin Walking, UNCHANGED game,
         NEW next \in {"top", "shotMenu", "shotLoop"}, gamePause(next)
  PROVE  /\ now' \subseteq Thread \cup Other \cup {thid} /\ todo' \subseteq now'
         /\ pauseuid' \in {None, thid} /\ back' \in Places
         /\ pc' \in Places \cup Walking
         /\ (WalksOwned /\ WalksReturn /\ WalkedOver)'
         /\ FreezeStep
<1> USE ThreadAssumption
<1>1. CASE pauseuid # None /\ pc' = next /\ UNCHANGED walk
  <2>1. pc' \notin Walking /\ pc' \in Places /\ pc' \notin {"loop", "standby", "screenshot"}
    BY <1>1 DEF Walking, Places
  <2>2. Phase' = Phase
    BY <1>1, <2>1 DEF Phase, Walking, walk
  <2> QED BY <1>1, <2>1, <2>2 DEF PauseInv, TypeOK, WalksOwned, WalksReturn, WalkedOver,
        Paused, Held, ListInUse, Walking, walk, game, FreezeStep, F!vars
<1>2. CASE /\ pauseuid = None /\ pauseuid' = thid
           /\ now' \in IdLists /\ todo' = now' /\ pc' = "pausing" /\ back' = next
  <2>1. now' \subseteq alive \cup Other \cup {thid}
    BY <1>2, IdListsLive
  <2>2. suspended = {} /\ alive \subseteq Thread
    BY <1>2 DEF PauseInv, TypeOK, WalkedOver, ListInUse, Walking
  <2>3. Phase = "off" /\ Phase' = "stopping"
    BY <1>2 DEF Phase, Walking
  <2>4. F!Begin
    BY <2>1, <2>2, <2>3 DEF F!Begin, game
  <2>5. FreezeStep
    BY <2>4 DEF FreezeStep, F!Next
  <2> QED BY <1>2, <2>1, <2>2, <2>5 DEF PauseInv, TypeOK, WalksOwned, WalksReturn,
        WalkedOver, Paused, Held, ListInUse, Walking, Places, game
<1> QED BY <1>1, <1>2 DEF gamePause

(* gameResume, wherever it is called: nothing is stopped, or the walk back *)
(* begins.                                                                 *)
LEMMA ResumeEffect ==
  ASSUME PauseInv, pc \notin Walking, UNCHANGED game,
         NEW next \in Places, gameResume(next)
  PROVE  /\ now' \subseteq Thread \cup Other \cup {thid} /\ todo' \subseteq now'
         /\ pauseuid' = None /\ back' \in Places
         /\ pc' \in Places \cup Walking
         /\ (WalksOwned /\ WalksReturn /\ WalkedOver)'
         /\ FreezeStep
<1> USE ThreadAssumption
<1>1. CASE pauseuid # thid /\ pc' = next /\ UNCHANGED walk
  <2>1. pc' \notin Walking /\ pc' \in Places /\ pauseuid = None
    BY <1>1 DEF Walking, Places, PauseInv, TypeOK
  <2>2. Phase' = Phase
    BY <1>1, <2>1 DEF Phase, Walking, walk
  <2> QED BY <1>1, <2>1, <2>2 DEF PauseInv, TypeOK, WalksOwned, WalksReturn, WalkedOver,
        Paused, Held, ListInUse, Walking, walk, game, FreezeStep, F!vars
<1>2. CASE /\ pauseuid = thid /\ pauseuid' = None
           /\ todo' = now /\ now' = now /\ pc' = "resuming" /\ back' = next
  <2>1. Phase = "on" /\ Phase' = "starting"
    BY <1>2 DEF Phase, Walking
  <2>2. F!Release
    BY <1>2, <2>1 DEF F!Release, game
  <2>3. FreezeStep
    BY <2>2 DEF FreezeStep, F!Next
  <2> QED BY <1>2, <2>3 DEF PauseInv, TypeOK, WalksOwned, WalksReturn,
        WalkedOver, Paused, Held, ListInUse, Walking, Places, game
<1> QED BY <1>1, <1>2 DEF gameResume

(* A step of mainThread outside the walks that calls neither of them.      *)
LEMMA PlainEffect ==
  ASSUME PauseInv, pc \notin Walking, UNCHANGED <<game, walk>>,
         pc' \in Places,
         pc' \in {"loop", "standby", "screenshot"} => pc \in {"loop", "standby", "screenshot"}
  PROVE  /\ now' \subseteq Thread \cup Other \cup {thid} /\ todo' \subseteq now'
         /\ pauseuid' \in {None, thid} /\ back' \in Places
         /\ pc' \in Places \cup Walking
         /\ (WalksOwned /\ WalksReturn /\ WalkedOver)'
         /\ FreezeStep
<1>1. pc' \notin Walking
  BY DEF Places, Walking
<1>2. Phase' = Phase
  BY <1>1 DEF Phase, Walking, walk
<1> QED BY <1>1, <1>2 DEF PauseInv, TypeOK, WalksOwned, WalksReturn, WalkedOver,
      Paused, Held, ListInUse, Walking, walk, game, FreezeStep, F!vars

LEMMA SuspendNextKeeps ==
  ASSUME PauseInv, SuspendNext
  PROVE  PauseInv' /\ FreezeStep
<1> USE ThreadAssumption
<1>1. PICK t \in todo :
        /\ todo' = todo \ {t}
        /\ suspended' = IF Skipped(t) \/ t \notin Living THEN suspended
                                                         ELSE suspended \cup {t}
  BY DEF SuspendNext
<1>2. /\ pc = "pausing" /\ pc' = pc /\ alive' = alive /\ now' = now
      /\ pauseuid' = pauseuid /\ back' = back /\ options' = options /\ Paused
  BY DEF SuspendNext, PauseInv, WalksOwned
<1>3. t \in now /\ (Skipped(t) <=> t \notin Thread)
  BY SkippedExactly DEF PauseInv, TypeOK
<1>4. t \in Thread => (t \in Living <=> t \in alive)
  BY DEF Living
<1>5. Phase = "stopping" /\ Phase' = "stopping"
  BY <1>2 DEF Phase
<1>6. CASE t \in Thread \cap alive
  <2>1. suspended' = suspended \cup {t}
    BY <1>1, <1>3, <1>4, <1>6
  <2>2. F!Stop(t)
    BY <1>2, <1>3, <1>5, <1>6, <2>1 DEF F!Stop
  <2>3. FreezeStep
    BY <1>6, <2>2 DEF FreezeStep, F!Next
  <2> QED BY <1>1, <1>2, <1>3, <1>6, <2>1, <2>3 DEF PauseInv, TypeOK, WalksOwned,
        WalksReturn, WalkedOver, Paused, Held, ListInUse, options
<1>7. CASE t \notin Thread \cap alive
  <2>1. suspended' = suspended
    BY <1>1, <1>3, <1>4, <1>7
  <2>2. FreezeStep
    BY <1>2, <1>5, <2>1 DEF FreezeStep, F!vars
  <2> QED BY <1>1, <1>2, <1>3, <1>7, <2>1, <2>2 DEF PauseInv, TypeOK, WalksOwned,
        WalksReturn, WalkedOver, Paused, Held, ListInUse, options
<1> QED BY <1>6, <1>7

LEMMA ResumeNextKeeps ==
  ASSUME PauseInv, ResumeNext
  PROVE  PauseInv' /\ FreezeStep
<1>1. PICK t \in todo :
        /\ todo' = todo \ {t}
        /\ suspended' = IF Skipped(t) THEN suspended ELSE suspended \ {t}
  BY DEF ResumeNext
<1>2. /\ pc = "resuming" /\ pc' = pc /\ alive' = alive /\ now' = now
      /\ pauseuid' = pauseuid /\ back' = back /\ options' = options /\ ~Paused
  BY DEF ResumeNext, PauseInv, WalksOwned
<1>3. suspended' = suspended \ {t}
  <2>1. Skipped(t) => t \notin suspended
    BY SkippedExactly DEF PauseInv, TypeOK
  <2> QED BY <1>1, <2>1
<1>4. Phase = "starting" /\ Phase' = "starting"
  BY <1>2 DEF Phase
<1>5. FreezeStep
  <2>1. CASE t \in Thread
    BY <1>2, <1>3, <1>4, <2>1 DEF FreezeStep, F!Next, F!Start
  <2>2. CASE t \notin Thread
    <3>1. suspended' = suspended
      BY <1>3, <2>2 DEF PauseInv, TypeOK
    <3> QED BY <1>2, <1>4, <3>1 DEF FreezeStep, F!vars
  <2> QED BY <2>1, <2>2
<1> QED BY <1>1, <1>2, <1>3, <1>5 DEF PauseInv, TypeOK, WalksOwned, WalksReturn,
      WalkedOver, Paused, Held, ListInUse, options

LEMMA WalkDoneKeeps ==
  ASSUME PauseInv, WalkDone
  PROVE  PauseInv' /\ FreezeStep
<1>1. /\ pc \in {"pausing", "resuming"} /\ todo = {} /\ pc' = back
      /\ UNCHANGED <<game, walk, options>>
  BY DEF WalkDone
<1>2. back \in Places /\ pc' \notin Walking
  BY <1>1 DEF PauseInv, TypeOK, Places, Walking
<1>3. CASE pc = "pausing"
  <2>1. Paused /\ pc' \in {"top", "shotMenu", "shotLoop"} /\ Held \subseteq suspended
    BY <1>1, <1>3 DEF PauseInv, WalksOwned, WalksReturn, WalkedOver
  <2>2. Phase = "stopping" /\ Phase' = "on"
    BY <1>1, <1>2, <1>3, <2>1 DEF Phase, Walking, Paused, walk
  <2>3. FreezeStep
    BY <1>1, <2>1, <2>2 DEF FreezeStep, F!Next, F!Hold, Held, game, walk
  <2> QED BY <1>1, <1>2, <2>1, <2>3 DEF PauseInv, TypeOK, WalksOwned, WalksReturn,
        WalkedOver, Paused, Held, ListInUse, options, game, walk, Walking
<1>4. CASE pc = "resuming"
  <2>1. ~Paused /\ suspended = {}
    BY <1>1, <1>4 DEF PauseInv, WalksOwned, WalkedOver
  <2>2. Phase = "starting" /\ Phase' = "off"
    BY <1>1, <1>2, <1>4, <2>1 DEF Phase, Walking, Paused, walk
  <2>3. FreezeStep
    BY <1>1, <2>1, <2>2 DEF FreezeStep, F!Next, F!Over, game, walk
  <2> QED BY <1>1, <1>2, <2>1, <2>3 DEF PauseInv, TypeOK, WalksOwned, WalksReturn,
        WalkedOver, Paused, Held, ListInUse, options, game, walk, Walking
<1> QED BY <1>1, <1>3, <1>4

(* The game's own steps: an id that is in use is not given out again.      *)
LEMMA GameKeeps ==
  ASSUME PauseInv, Game
  PROVE  PauseInv' /\ FreezeStep
<1>1. alive \ suspended # {} /\ UNCHANGED <<walk, pc, options>>
  BY DEF Game
<1>2. PICK t \in Thread : Create(t) \/ End(t)
  BY DEF Game
<1>3. Phase' = Phase
  BY <1>1 DEF Phase, walk
<1>4. CASE Create(t)
  <2>1. ~ListInUse => pc # "pausing"
    BY DEF ListInUse, PauseInv, WalksOwned, Paused
  <2>2. Phase = "off" \/ t \notin now \cap Thread
    BY <1>2, <1>4 DEF Create, Phase, ListInUse, PauseInv, WalksOwned, Paused
  <2>3. F!Create(t)
    BY <1>1, <1>2, <1>3, <1>4, <2>2 DEF F!Create, Create, walk
  <2>4. FreezeStep
    BY <1>1, <1>2, <2>3 DEF FreezeStep, F!Next, F!Game
  <2>5. WalkedOver'
    <3>1. CASE ListInUse
      <4>1. Held' = Held /\ suspended' = suspended
        BY <1>1, <1>4, <3>1 DEF Create, Held, walk
      <4> QED BY <1>1, <4>1, <3>1 DEF PauseInv, WalkedOver, ListInUse, Paused, walk
    <3>2. CASE ~ListInUse
      <4>1. suspended' = {}
        BY <1>4, <3>2 DEF Create, PauseInv, WalkedOver
      <4> QED BY <1>1, <2>1, <4>1, <3>2 DEF WalkedOver, ListInUse, Paused, walk
    <3> QED BY <3>1, <3>2
  <2> QED BY <1>1, <1>2, <1>4, <2>4, <2>5 DEF Create, PauseInv, TypeOK, WalksOwned,
        WalksReturn, Paused, options, walk
<1>5. CASE End(t)
  <2>1. F!End(t)
    BY <1>1, <1>3, <1>5 DEF F!End, End, walk
  <2>2. FreezeStep
    BY <1>1, <1>2, <2>1 DEF FreezeStep, F!Next, F!Game
  <2> QED BY <1>1, <1>2, <1>5, <2>2 DEF End, PauseInv, TypeOK, WalksOwned,
        WalksReturn, WalkedOver, Paused, Held, ListInUse, options, walk
<1> QED BY <1>2, <1>4, <1>5

(* The callback only asks.                                                 *)
LEMMA PressKeeps ==
  ASSUME PauseInv, PressMenu \/ PressScreen
  PROVE  PauseInv' /\ FreezeStep
<1>1. UNCHANGED <<game, walk, pc, cheatPause, copyMenu, suspend>>
      /\ menuDrawn' \in BOOLEAN /\ screenTime' \in BOOLEAN
  BY DEF PressMenu, PressScreen, PauseInv, TypeOK
<1>2. Phase' = Phase
  BY <1>1 DEF Phase, walk
<1> QED BY <1>1, <1>2 DEF PauseInv, TypeOK, WalksOwned, WalksReturn, WalkedOver,
      Paused, Held, ListInUse, walk, game, FreezeStep, F!vars

(* What mainThread does of itself outside the walks.                       *)
LEMMA LoopKeeps ==
  ASSUME PauseInv,
         \/ EnterMenu \/ Pass \/ Round \/ Left \/ Standby
         \/ NoShot("screenshot", "loop") \/ NoShot("top", "menu")
         \/ Shoot("screenshot", "shotLoop", "loop") \/ ShotTaken("shotLoop", "loop")
         \/ Shoot("top", "shotMenu", "menu") \/ ShotTaken("shotMenu", "menu")
  PROVE  PauseInv' /\ FreezeStep
<1> DEFINE Kept == /\ now' \subseteq Thread \cup Other \cup {thid} /\ todo' \subseteq now'
                   /\ pauseuid' \in {None, thid} /\ back' \in Places
                   /\ pc' \in Places \cup Walking
                   /\ (WalksOwned /\ WalksReturn /\ WalkedOver)'
                   /\ FreezeStep
           Options == /\ cheatPause' \in BOOLEAN /\ menuDrawn' \in BOOLEAN
                      /\ copyMenu' \in BOOLEAN /\ suspend' \in BOOLEAN
                      /\ screenTime' \in BOOLEAN
<1>1. SUFFICES Kept /\ Options /\ UNCHANGED game
  BY DEF PauseInv, TypeOK, Walking, game
<1>2. pc \in Places => pc \notin Walking
  BY DEF Places, Walking
<1>3. /\ cheatPause \in BOOLEAN /\ menuDrawn \in BOOLEAN /\ copyMenu \in BOOLEAN
      /\ suspend \in BOOLEAN /\ screenTime \in BOOLEAN
  BY DEF PauseInv, TypeOK
<1>4. CASE EnterMenu
  <2>1. pc \notin Walking /\ UNCHANGED <<game, options>>
    BY <1>4 DEF EnterMenu, Walking
  <2>2. CASE gamePause("top")
    BY <2>1, <2>2, <1>3, PauseEffect DEF options
  <2>3. CASE pc' = "top" /\ UNCHANGED walk
    <3>1. pc' \in Places /\ pc' \notin {"loop", "standby", "screenshot"}
      BY <2>3 DEF Places
    <3> QED BY <2>1, <2>3, <3>1, <1>3, PlainEffect DEF options
  <2> QED BY <1>4, <2>2, <2>3 DEF EnterMenu
<1>5. CASE Pass \/ Round \/ Standby \/ NoShot("screenshot", "loop") \/ NoShot("top", "menu")
  <2>1. /\ pc \notin Walking /\ UNCHANGED <<game, walk>> /\ pc' \in Places /\ Options
        /\ pc' \in {"loop", "standby", "screenshot"} => pc \in {"loop", "standby", "screenshot"}
    BY <1>3, <1>5 DEF Pass, Round, Standby, NoShot, Walking, Places, options
  <2> QED BY <2>1, PlainEffect
<1>6. CASE Left
  <2>1. /\ pc \notin Walking /\ UNCHANGED game /\ gameResume("standby") /\ Options
    BY <1>3, <1>6 DEF Left, Walking
  <2> QED BY <2>1, ResumeEffect DEF Places
<1>7. ASSUME NEW from \in {"screenshot", "top"}, NEW writing \in {"shotLoop", "shotMenu"},
             NEW next \in {"loop", "menu"},
             from = "top" <=> next = "menu", Shoot(from, writing, next)
      PROVE  Kept /\ Options /\ UNCHANGED game
  <2>1. pc \notin Walking /\ pc = from /\ UNCHANGED game
    BY <1>7 DEF Shoot, Walking
  <2>2. CASE gamePause(writing) /\ screenTime' = screenTime
    BY <1>3, <1>7, <2>1, <2>2, PauseEffect DEF Shoot
  <2>3. CASE pc' = next /\ screenTime' = FALSE /\ UNCHANGED walk
    <3>1. pc' \in Places /\ (pc' \in {"loop", "standby", "screenshot"} =>
                               pc \in {"loop", "standby", "screenshot"})
      BY <1>7, <2>1, <2>3 DEF Places
    <3>2. Options
      BY <1>3, <1>7, <2>3 DEF Shoot
    <3> QED BY <2>1, <2>3, <3>1, <3>2, PlainEffect
  <2> QED BY <1>7, <2>2, <2>3 DEF Shoot
<1>8. ASSUME NEW writing \in {"shotLoop", "shotMenu"}, NEW next \in {"loop", "menu"},
             ShotTaken(writing, next)
      PROVE  Kept /\ Options /\ UNCHANGED game
  <2>1. pc \notin Walking /\ UNCHANGED game /\ gameResume(next) /\ Options
    BY <1>3, <1>8 DEF ShotTaken, Walking
  <2> QED BY <2>1, ResumeEffect DEF Places
<1>9. CASE \/ Shoot("screenshot", "shotLoop", "loop") \/ Shoot("top", "shotMenu", "menu")
  BY <1>7, <1>9
<1>10. CASE ShotTaken("shotLoop", "loop") \/ ShotTaken("shotMenu", "menu")
  BY <1>8, <1>10
<1>11. UNCHANGED game
  BY DEF EnterMenu, Pass, Round, Left, Standby, NoShot, Shoot, ShotTaken
<1> QED BY <1>4, <1>5, <1>6, <1>9, <1>10, <1>11
         DEF EnterMenu, Pass, Round, Left, Standby, NoShot

(* What the user makes it do in the menu, and the exit.                    *)
LEMMA MenuKeeps ==
  ASSUME PauseInv, MenuStep \/ LeaveForStandby
  PROVE  PauseInv' /\ FreezeStep
<1> DEFINE Kept == /\ now' \subseteq Thread \cup Other \cup {thid} /\ todo' \subseteq now'
                   /\ pauseuid' \in {None, thid} /\ back' \in Places
                   /\ pc' \in Places \cup Walking
                   /\ (WalksOwned /\ WalksReturn /\ WalkedOver)'
                   /\ FreezeStep
           Options == /\ cheatPause' \in BOOLEAN /\ menuDrawn' \in BOOLEAN
                      /\ copyMenu' \in BOOLEAN /\ suspend' \in BOOLEAN
                      /\ screenTime' \in BOOLEAN
<1>1. pc = "menu" /\ UNCHANGED game
  BY DEF MenuStep, LeaveForStandby, LeaveByButton, Leave, OpenCopy, CopyRedrawn,
         CloseCopy, TogglePause, AskStandby, CanChoose
<1>2. SUFFICES Kept /\ Options
  BY <1>1 DEF PauseInv, TypeOK, Walking, game
<1>3. /\ cheatPause \in BOOLEAN /\ menuDrawn \in BOOLEAN /\ copyMenu \in BOOLEAN
      /\ suspend \in BOOLEAN /\ screenTime \in BOOLEAN
  BY DEF PauseInv, TypeOK
<1>4. pc \notin Walking /\ "top" \in Places /\ "leaving" \in Places
  BY <1>1 DEF Walking, Places
<1>5. Options
  BY <1>3 DEF MenuStep, LeaveForStandby, LeaveByButton, Leave, OpenCopy, CopyRedrawn,
              CloseCopy, TogglePause, AskStandby
<1>6. CASE pc' = "top" /\ UNCHANGED walk
  BY <1>1, <1>4, <1>5, <1>6, PlainEffect
<1>7. CASE gamePause("top")
  BY <1>1, <1>4, <1>5, <1>7, PauseEffect
<1>8. CASE gameResume("top") \/ gameResume("leaving")
  BY <1>1, <1>4, <1>5, <1>8, ResumeEffect
<1>9. \/ pc' = "top" /\ UNCHANGED walk
      \/ gamePause("top") \/ gameResume("top") \/ gameResume("leaving")
  BY DEF MenuStep, LeaveForStandby, LeaveByButton, Leave, OpenCopy, CopyRedrawn,
         CloseCopy, TogglePause, AskStandby
<1> QED BY <1>6, <1>7, <1>8, <1>9

LEMMA StepKeeps ==
  ASSUME PauseInv, [Next]_vars
  PROVE  PauseInv' /\ FreezeStep
<1>1. CASE SuspendNext
  BY <1>1, SuspendNextKeeps
<1>2. CASE ResumeNext
  BY <1>2, ResumeNextKeeps
<1>3. CASE WalkDone
  BY <1>3, WalkDoneKeeps
<1>4. CASE \/ EnterMenu \/ Pass \/ Round \/ Left \/ Standby
           \/ NoShot("screenshot", "loop") \/ NoShot("top", "menu")
           \/ Shoot("screenshot", "shotLoop", "loop") \/ ShotTaken("shotLoop", "loop")
           \/ Shoot("top", "shotMenu", "menu") \/ ShotTaken("shotMenu", "menu")
  BY <1>4, LoopKeeps
<1>5. CASE MenuStep \/ LeaveForStandby
  BY <1>5, MenuKeeps
<1>6. CASE Game
  BY <1>6, GameKeeps
<1>7. CASE PressMenu \/ PressScreen
  BY <1>7, PressKeeps
<1>8. CASE UNCHANGED vars
  <2>1. Phase' = Phase
    BY <1>8 DEF vars, Phase, walk
  <2> QED BY <1>8, <2>1 DEF vars, game, walk, options, PauseInv, TypeOK, WalksOwned,
        WalksReturn, WalkedOver, Paused, Held, ListInUse, FreezeStep, F!vars
<1> QED BY <1>1, <1>2, <1>3, <1>4, <1>5, <1>6, <1>7, <1>8 DEF Next, MainStep

(* The inductive invariant holds of every reachable state.                 *)
THEOREM PauseInvariant == Spec => []PauseInv
<1>1. Init => PauseInv
  BY InitPauseInv
<1>2. PauseInv /\ [Next]_vars => PauseInv'
  BY StepKeeps
<1> QED BY <1>1, <1>2, PTL DEF Spec

(* gamePause and gameResume (1343-1388) touch the game's threads alone.    *)
THEOREM TypeCorrect == Spec => []TypeOK
<1>1. PauseInv => TypeOK
  BY DEF PauseInv
<1> QED BY <1>1, PauseInvariant, PTL

(* Whenever mainThread is back in its loop (7183-7203), no thread of the   *)
(* game is left suspended.                                                 *)
THEOREM LoopRunsCorrect == Spec => []LoopRuns
<1>1. PauseInv => LoopRuns
  BY DEF PauseInv, WalksOwned, WalkedOver, Paused, ListInUse, LoopRuns
<1> QED BY <1>1, PauseInvariant, PTL

(* The plugin's walks, interleaved with the game's threads and called from *)
(* every place of the menu, implement Freeze.                              *)
THEOREM FreezeImplemented == Spec => ImplementsFreeze
<1>1. Init => F!Init
  BY InitPauseInv
<1>2. PauseInv /\ [Next]_vars => [F!Next]_(F!vars)
  BY StepKeeps DEF FreezeStep
<1> QED BY <1>1, <1>2, PauseInvariant, PTL DEF Spec, F!Spec, ImplementsFreeze
=============================================================================
