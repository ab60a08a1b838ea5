----------------------------- MODULE GamePause -----------------------------
(***************************************************************************)
(* How MKIJIRO stops the game (src/objects/crt0_prx.c): gamePause lists    *)
(* the console's threads and suspends, one call after the other, those     *)
(* that are neither older than the plugin nor mainThread; gameResume walks *)
(* the same list.  mainThread pauses the game when it opens the menu, when *)
(* the user asks for it there and while it writes a screenshot, and        *)
(* resumes it at every way out.                                            *)
(*                                                                         *)
(* The game is preempted between any two calls and preempts mainThread: a  *)
(* thread of it that runs may create and end threads at any moment, in the *)
(* middle of a walk too.  buttonCallback asks for the menu and for         *)
(* screenshots at any moment.  That the game suspends threads of its own   *)
(* is left out.                                                            *)
(***************************************************************************)
EXTENDS Integers, FiniteSets

CONSTANTS
  Thread,       \* the game's threads
  Other,        \* the threads there were before the plugin: thread_buf_start
  thid,         \* mainThread
  None,         \* pauseuid = -1
  MAX_THREAD,   \* threads the list takes (64)
  Uses          \* what this instance contains beyond the menu

(* "copy": the copy menu is used; "standby": so is the options' standby;   *)
(* "screenshot": the build takes screenshots (_SCREENSHOT_).               *)
AllUses == {"copy", "standby", "screenshot"}

(* _start, which fills thread_buf_start, runs in a thread itself.          *)
ASSUME ThreadAssumption ==
  /\ Other # {} /\ Thread \cap Other = {}
  /\ thid \notin Thread \cup Other
  /\ None # thid
  /\ MAX_THREAD \in Nat
  /\ Uses \subseteq AllUses

VARIABLES
  alive,        \* the game's threads that exist
  suspended,    \* the threads that are suspended
  now,          \* thread_buf_now[0 .. thread_count_now-1]
  todo,         \* what the walk over it has left
  pauseuid,     \* the thread that paused the game, or None
  pc,           \* where mainThread is
  back,         \* where it goes on after a walk
  cheatPause,   \* the option "Pause game?"
  menuDrawn,    \* the menu is asked for
  copyMenu,     \* the copy menu is shown over it
  suspend,      \* standby is asked for
  screenTime    \* a screenshot is asked for

game == <<alive, suspended>>
walk == <<now, todo, pauseuid, back>>
options == <<cheatPause, menuDrawn, copyMenu, suspend, screenTime>>
vars == <<game, walk, pc, options>>

(* mainThread: its loop's test of the menu, the top of the menu's loop and *)
(* its look at the buttons, the way out, the standby and the screenshot    *)
(* behind it, and the two places where a bitmap is written.                *)
Places == {"loop", "top", "menu", "leaving", "standby", "screenshot", "shotMenu", "shotLoop"}

Init ==
  /\ alive \in SUBSET Thread /\ suspended = {}
  /\ now = {} /\ todo = {} /\ pauseuid = None
  /\ pc = "loop" /\ back = "loop"
  /\ cheatPause \in BOOLEAN
  /\ menuDrawn = FALSE /\ copyMenu = FALSE /\ suspend = FALSE /\ screenTime = FALSE

-----------------------------------------------------------------------------
(* gamePause and gameResume.                                               *)

Living == alive \cup Other \cup {thid}

(* sceKernelGetThreadmanIdList: as many of the threads as the list takes.  *)
IdLists ==
  {S \in SUBSET Living :
     Cardinality(S) = IF Cardinality(Living) < MAX_THREAD THEN Cardinality(Living)
                                                          ELSE MAX_THREAD}

(* Fault for the checks: thid is not compared.                             *)
SkippedOldOnly(t) == t \in Other

(* The threads a walk leaves alone.  thid is compared in the loop over     *)
(* thread_buf_start, so never if that list is empty.                       *)
Skipped(t) == \E s \in Other : t = s \/ t = thid

gamePause(next) ==
  \/ /\ pauseuid # None
     /\ pc' = next
     /\ UNCHANGED walk
  \/ /\ pauseuid = None
     /\ pauseuid' = thid
     /\ now' \in IdLists /\ todo' = now'
     /\ pc' = "pausing" /\ back' = next

(* Fault for the checks: the list is walked again, but the game stays the  *)
(* plugin's.                                                               *)
gameResumeKept(next) ==
  \/ /\ pauseuid # thid
     /\ pc' = next
     /\ UNCHANGED walk
  \/ /\ pauseuid = thid
     /\ pauseuid' = thid
     /\ todo' = now /\ now' = now
     /\ pc' = "resuming" /\ back' = next

gameResume(next) ==
  \/ /\ pauseuid # thid
     /\ pc' = next
     /\ UNCHANGED walk
  \/ /\ pauseuid = thid
     /\ pauseuid' = None
     /\ todo' = now /\ now' = now
     /\ pc' = "resuming" /\ back' = next

(* One call of sceKernelSuspendThread or sceKernelResumeThread; a thread   *)
(* that has ended meanwhile is refused.                                    *)
SuspendNext ==
  /\ pc = "pausing"
  /\ \E t \in todo :
       /\ todo' = todo \ {t}
       /\ suspended' = IF Skipped(t) \/ t \notin Living THEN suspended
                                                        ELSE suspended \cup {t}
  /\ UNCHANGED <<alive, now, pauseuid, pc, back, options>>

ResumeNext ==
  /\ pc = "resuming"
  /\ \E t \in todo :
       /\ todo' = todo \ {t}
       /\ suspended' = IF Skipped(t) THEN suspended ELSE suspended \ {t}
  /\ UNCHANGED <<alive, now, pauseuid, pc, back, options>>

(* Fault for the checks: the walk stops one short.                         *)
WalkShort ==
  /\ pc \in {"pausing", "resuming"} /\ Cardinality(todo) <= 1
  /\ pc' = back
  /\ UNCHANGED <<game, walk, options>>

WalkDone ==
  /\ pc \in {"pausing", "resuming"} /\ todo = {}
  /\ pc' = back
  /\ UNCHANGED <<game, walk, options>>

-----------------------------------------------------------------------------
(* mainThread's loop.                                                      *)

EnterMenu ==
  /\ pc = "loop" /\ menuDrawn
  /\ \/ cheatPause /\ gamePause("top")
     \/ ~cheatPause /\ pc' = "top" /\ UNCHANGED walk
  /\ UNCHANGED <<game, options>>

(* Without the menu the cheats are applied, which is CheatEngine's.        *)
Pass ==
  /\ pc = "loop" /\ ~menuDrawn
  /\ pc' = "standby"
  /\ UNCHANGED <<game, walk, options>>

(* menuInput returns, and the game is resumed a second time.               *)
Left ==
  /\ pc = "leaving"
  /\ menuDrawn' = FALSE
  /\ gameResume("standby")
  /\ UNCHANGED <<game, cheatPause, copyMenu, suspend, screenTime>>

Standby ==
  /\ pc = "standby" /\ pc' = "screenshot"
  /\ suspend' = FALSE
  /\ UNCHANGED <<game, walk, cheatPause, menuDrawn, copyMenu, screenTime>>

(* takescreenshot, after a pass and at the top of the menu's loop; without *)
(* a frame buffer there is nothing to write.                               *)
Shoot(from, writing, next) ==
  /\ pc = from /\ screenTime
  /\ \/ gamePause(writing) /\ screenTime' = screenTime
     \/ pc' = next /\ screenTime' = FALSE /\ UNCHANGED walk
  /\ UNCHANGED <<game, cheatPause, menuDrawn, copyMenu, suspend>>

ShotTaken(writing, next) ==
  /\ pc = writing
  /\ gameResume(next) /\ screenTime' = FALSE
  /\ UNCHANGED <<game, cheatPause, menuDrawn, copyMenu, suspend>>

NoShot(from, next) ==
  /\ pc = from /\ ~screenTime
  /\ pc' = next
  /\ UNCHANGED <<game, walk, options>>

-----------------------------------------------------------------------------
(* One round of menuInput's loop.  HOME, when it is held at an exit,       *)
(* switches the option off.                                                *)

(* Nothing is pressed, or nothing that matters here.                       *)
Round ==
  /\ pc = "menu" /\ ~suspend
  /\ pc' = "top"
  /\ UNCHANGED <<game, walk, options>>

CanChoose == pc = "menu" /\ ~copyMenu /\ ~suspend

OpenCopy ==
  /\ "copy" \in Uses /\ CanChoose
  /\ copyMenu' = TRUE /\ pc' = "top"
  /\ UNCHANGED <<game, walk, cheatPause, menuDrawn, suspend, screenTime>>

(* hideCopyMenu: the game is resumed whatever the buttons are.             *)
CloseCopy(home) ==
  /\ pc = "menu" /\ copyMenu
  /\ cheatPause' = (cheatPause /\ ~home)
  /\ gameResume("top")
  /\ copyMenu' = FALSE
  /\ UNCHANGED <<game, menuDrawn, suspend, screenTime>>

(* remenu: the game has drawn over the menu.                               *)
CopyRedrawn ==
  /\ pc = "menu" /\ copyMenu
  /\ copyMenu' = FALSE /\ pc' = "top"
  /\ UNCHANGED <<game, walk, cheatPause, menuDrawn, suspend, screenTime>>

TogglePause ==
  /\ CanChoose
  /\ cheatPause' = ~cheatPause
  /\ IF cheatPause' THEN gamePause("top") ELSE gameResume("top")
  /\ UNCHANGED <<game, menuDrawn, copyMenu, suspend, screenTime>>

AskStandby ==
  /\ "standby" \in Uses /\ CanChoose
  /\ suspend' = TRUE
  /\ \/ /\ cheatPause /\ cheatPause' = FALSE /\ menuDrawn' = FALSE
        /\ gameResume("top")
     \/ ~cheatPause /\ pc' = "top" /\ UNCHANGED <<cheatPause, menuDrawn, walk>>
  /\ UNCHANGED <<game, copyMenu, screenTime>>

(* The menu's exit: the game is resumed and menuInput returns (a build     *)
(* with _SWAPBUTTON_ stays in the menu on one line of tab 2; the default   *)
(* one, modelled here, does not have it).                                  *)
Leave(home) ==
  /\ pc = "menu" /\ ~copyMenu
  /\ cheatPause' = (cheatPause /\ ~home)
  /\ gameResume("leaving")
  /\ UNCHANGED <<game, menuDrawn, copyMenu, suspend, screenTime>>

LeaveByButton == ~suspend /\ \E home \in BOOLEAN : Leave(home)

(* Fault for the checks: a menu that is no longer drawn takes no exit.     *)
LeaveIfDrawn == suspend /\ menuDrawn /\ \E home \in BOOLEAN : Leave(home)

(* The next round of the menu's loop leaves by itself once standby is      *)
(* asked for.                                                              *)
LeaveForStandby == suspend /\ \E home \in BOOLEAN : Leave(home)

-----------------------------------------------------------------------------
(* The game and the callback.                                              *)

(* A list in use keeps the ids of the threads that ended: a new thread has *)
(* another one.                                                            *)
ListInUse == pauseuid # None \/ pc = "resuming"

Create(t) ==
  /\ t \notin alive /\ ~(ListInUse /\ t \in now)
  /\ alive' = alive \cup {t} /\ suspended' = suspended

End(t) == alive' = alive \ {t} /\ suspended' = suspended \ {t}

Game ==
  /\ alive \ suspended # {}
  /\ \E t \in Thread : Create(t) \/ End(t)
  /\ UNCHANGED <<walk, pc, options>>

PressMenu ==
  /\ ~menuDrawn /\ menuDrawn' = TRUE
  /\ UNCHANGED <<game, walk, pc, cheatPause, copyMenu, suspend, screenTime>>

(* The key is for the screen without the menu or for the menu, as the      *)
(* settings say.                                                           *)
PressScreen ==
  /\ "screenshot" \in Uses /\ screenTime' = TRUE
  /\ UNCHANGED <<game, walk, pc, cheatPause, menuDrawn, copyMenu, suspend>>

-----------------------------------------------------------------------------

(* What mainThread does of itself, and what the user makes it do.          *)
MainStep ==
  \/ SuspendNext \/ ResumeNext \/ WalkDone
  \/ EnterMenu \/ Pass \/ Round \/ Left \/ Standby
  \/ NoShot("screenshot", "loop") \/ NoShot("top", "menu")
  \/ Shoot("screenshot", "shotLoop", "loop") \/ ShotTaken("shotLoop", "loop")
  \/ Shoot("top", "shotMenu", "menu") \/ ShotTaken("shotMenu", "menu")
  \/ LeaveForStandby

MenuStep ==
  \/ OpenCopy \/ CopyRedrawn \/ TogglePause \/ AskStandby \/ LeaveByButton
  \/ \E home \in BOOLEAN : CloseCopy(home)

Next == MainStep \/ MenuStep \/ Game \/ PressMenu \/ PressScreen

Spec == Init /\ [][Next]_vars

(* mainThread waits for nothing but time: what it can do of itself, it     *)
(* does.                                                                   *)
FairSpec == Spec /\ WF_vars(MainStep)

-----------------------------------------------------------------------------
(* Properties.                                                             *)

(* Only the game's own threads are ever suspended: not mainThread, which   *)
(* would stop the walk in its middle, and none of the system's (1357).     *)
TypeOK ==
  /\ alive \subseteq Thread /\ suspended \subseteq Thread
  /\ now \subseteq Thread \cup Other \cup {thid} /\ todo \subseteq now
  /\ pauseuid \in {None, thid}
  /\ pc \in Places \cup {"pausing", "resuming"} /\ back \in Places
  /\ cheatPause \in BOOLEAN /\ menuDrawn \in BOOLEAN /\ copyMenu \in BOOLEAN
  /\ suspend \in BOOLEAN /\ screenTime \in BOOLEAN

(* Between the menu and the next pass, the standby included (7183-7203),   *)
(* no thread of the game is left suspended, whatever was paused and        *)
(* resumed in the menu, how often, and whatever threads came and went.     *)
LoopRuns ==
  pc \in {"loop", "standby", "screenshot"} => pauseuid = None /\ suspended = {}

(* The walks of gamePause and gameResume (1343-1388), with threads created *)
(* and ended under them, do what Freeze promises.                          *)
Phase ==
  IF pc = "pausing" THEN "stopping"
  ELSE IF pc = "resuming" THEN "starting"
  ELSE IF pauseuid = None THEN "off" ELSE "on"

F == INSTANCE Freeze WITH listed <- now \cap Thread, phase <- Phase

ImplementsFreeze == F!Spec

(* Standby is asked for in the menu (6326-6327), carried out in the loop   *)
(* (7200) and in between comes the exit (5764): it does happen, with the   *)
(* game running.                                                           *)
StandbyHappens == suspend ~> (pc = "standby" /\ suspend /\ suspended = {})

(* "Pauses the game while MKIJIRO's menu is showing" (2833): with the      *)
(* option on, the threads there were when the game was paused for the menu *)
(* are stopped whenever the menu looks at the buttons.                     *)
StoppedInMenu == pc = "menu" /\ cheatPause => now \cap alive \subseteq suspended

-----------------------------------------------------------------------------
(* The inductive invariant of the proofs.                                  *)

Paused == pauseuid # None
Held == now \cap alive \cap Thread

WalksOwned ==
  /\ pc = "pausing" => Paused
  /\ pc = "resuming" => ~Paused
  /\ pc \in {"loop", "standby", "screenshot"} => ~Paused

WalksReturn == pc = "pausing" => back \in {"top", "shotMenu", "shotLoop"}

(* Who is suspended, as far as the walk has come.                          *)
WalkedOver ==
  /\ suspended \subseteq Held
  /\ pc = "pausing" => Held \ todo \subseteq suspended
  /\ Paused /\ pc # "pausing" => Held \subseteq suspended
  /\ pc = "resuming" => suspended \subseteq todo
  /\ ~ListInUse => suspended = {}

PauseInv == TypeOK /\ WalksOwned /\ WalksReturn /\ WalkedOver
=============================================================================
