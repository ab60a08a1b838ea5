------------------------- MODULE CheatEngineProofs -------------------------
(* What the engine keeps to for every table, every choice of bases and any *)
(* order of operations.  In this order:                                    *)
(*   - the flags of the cheats (no pass runs a cheat still to be backed up)*)
(*     and the types of the whole state;                                   *)
(*   - what one step of a call does, and the induction over the rounds of  *)
(*     a call, of the trigger and of cheatApply(0) that carries a property *)
(*     of every step to the whole operation;                               *)
(*   - the properties: freezing lines, own words, backups (and own words   *)
(*     again, with lines that are edited), switching off; each with its    *)
(*     invariant, one lemma per step of a call, one per action, and the    *)
(*     theorem.                                                            *)
(* The conditions on tables are those of CheatLayout.                      *)
EXTENDS CheatLayout, Induction, FiniteSetTheorems, TLAPS

-----------------------------------------------------------------------------
(* The flags, which need none of CheatEngine's assumptions.                *)
(* A pass is only started once the backups are made.                       *)
PassesBackedUp == pc \in {"pass", "enable"} => cheatSaved

FlagInv == FreshHandled /\ PassesBackedUp

LEMMA InitFlags == Init => FlagInv
  BY DEF Init, FlagInv, FreshHandled, PassesBackedUp

(* mainThread's pass only clears FLAG_FRESH.                               *)
LEMMA MainFlags == FlagInv /\ MainStep => FlagInv'
<1> SUFFICES ASSUME FlagInv, MainStep PROVE FlagInv'
  OBVIOUS
<1> USE DEF FlagInv, FreshHandled, PassesBackedUp
<1>1. CASE EnterMenu
  BY <1>1 DEF EnterMenu, flags, status
<1>2. CASE StartPass
  BY <1>2 DEF StartPass, flags
<1>3. CASE PassCheat
  BY <1>3 DEF PassCheat, flags, status
<1>4. CASE PassLine
  BY <1>4 DEF PassLine, flags, status
<1>5. CASE PassCheatEnd
  BY <1>5 DEF PassCheatEnd, status
<1>6. CASE EndPass
  BY <1>6 DEF EndPass, flags
<1> QED  BY <1>1, <1>2, <1>3, <1>4, <1>5, <1>6 DEF MainStep

(* The first trigger unmarks the selected and the constant cheats, which   *)
(* may have been toggled before; every later one finds no constant cheat   *)
(* marked, because the invariant held already.                             *)
LEMMA TriggerFlags == FlagInv /\ PressTrigger => FlagInv'
<1> SUFFICES ASSUME FlagInv, PressTrigger PROVE FlagInv'
  OBVIOUS
<1>1. /\ fresh' = StillFresh /\ cheatSaved'
      /\ UNCHANGED <<selected, constant, pc>>
  BY DEF PressTrigger, main
<1>2. StillFresh \cap (selected \cup constant) = {}
  <2>1. CASE cheatSaved
    BY <2>1 DEF StillFresh, FlagInv, FreshHandled
  <2>2. CASE ~cheatSaved
    BY <2>2 DEF StillFresh
  <2> QED  BY <2>1, <2>2
<1> QED  BY <1>1, <1>2 DEF FlagInv, FreshHandled, PassesBackedUp

(* A toggle marks its cheat; once the backups are made cheatApply(0) has   *)
(* unmarked every cheat before the menu goes on.                           *)
LEMMA ToggleFlags ==
  ASSUME FlagInv, NEW c, NEW sel, NEW con, Toggle(sel, con, c)
  PROVE  FlagInv'
<1>1. UNCHANGED <<cheatSaved, pc>> /\ (cheatSaved => fresh' = {})
  BY DEF Toggle, main
<1> QED  BY <1>1 DEF FlagInv, FreshHandled, PassesBackedUp

LEMMA MenuFlags == FlagInv /\ Menu => FlagInv'
<1> SUFFICES ASSUME FlagInv, Menu PROVE FlagInv'
  OBVIOUS
<1>1. ASSUME NEW c \in Cheat, ToggleSelected(c) \/ ToggleConstant(c)
      PROVE  FlagInv'
  BY <1>1, ToggleFlags DEF ToggleSelected, ToggleConstant
<1>2. ASSUME NEW n \in Slot, EditValue(n) \/ \E w \in EditWords : EditAddress(n, w)
      PROVE  FlagInv'
  BY <1>2 DEF EditValue, EditAddress, FlagInv, FreshHandled, PassesBackedUp,
              flags, status, main
<1>3. CASE LeaveMenu
  BY <1>3 DEF LeaveMenu, FlagInv, FreshHandled, PassesBackedUp, flags, status
<1> QED  BY <1>1, <1>2, <1>3 DEF Menu

LEMMA NextFlags == FlagInv /\ [Next]_vars => FlagInv'
<1> SUFFICES ASSUME FlagInv, [Next]_vars PROVE FlagInv'
  OBVIOUS
<1>1. CASE PressMenu \/ GameStep \/ UNCHANGED vars
  <2>1. UNCHANGED <<selected, constant, fresh, cheatSaved, pc>>
    BY <1>1 DEF PressMenu, GameStep, GameWrite, GameMove, HoldOrRelease, vars,
                flags, status, main
  <2> QED  BY <2>1 DEF FlagInv, FreshHandled, PassesBackedUp
<1> QED  BY <1>1, MainFlags, TriggerFlags, MenuFlags DEF Next

(* Once the backups are made, a cheat that is marked to be on is never     *)
(* left fresh: cheatEnable meets FLAG_FRESH only in the call that switches *)
(* the cheat on.                                                           *)
THEOREM FreshIsHandled == Spec => []FreshHandled
<1>1. FlagInv /\ [Next]_vars => FlagInv'
  BY NextFlags
<1>2. FlagInv => FreshHandled
  BY DEF FlagInv
<1> QED  BY InitFlags, <1>1, <1>2, PTL DEF Spec

(* mainThread applies nothing before the trigger made the backups.         *)
THEOREM NoPassWithoutBackups == Spec => []PassesBackedUp
<1>1. FlagInv /\ [Next]_vars => FlagInv'
  BY NextFlags
<1>2. FlagInv => PassesBackedUp
  BY DEF FlagInv
<1> QED  BY InitFlags, <1>1, <1>2, PTL DEF Spec
-----------------------------------------------------------------------------
(* Types.  What a call works on, outside and inside it.                    *)
State == [mem : [Word -> Value], std : [Slot -> Value], hak : [Slot -> Value],
          dma : Bases \cup {0}]
Call == [mem : [Word -> Value], std : [Slot -> Value], hak : [Slot -> Value],
         dma : Bases \cup {0}, at : Nat, resetDMA : BOOLEAN, NULLPOINTER : BOOLEAN,
         joker : BOOLEAN]

(* What the steps of a call read of the state and do not change.           *)
Fixed == pointer \in [Pointers -> Bases] /\ address \in [Slot -> Word]

LEMMA Numbers ==
  /\ N \in Nat /\ Top \in Nat /\ Low \in Nat /\ Cardinality(Slot) \in Nat
  /\ Word = 0 .. Top /\ Slot = 0 .. Cardinality(Slot) - 1
  /\ Bases \cup {0} \subseteq Nat
  /\ \A c \in Cheat : /\ First[c] \in Nat /\ Length[c] \in Nat
                      /\ Start[c] = First[c] /\ End[c] = First[c] + Length[c]
                      /\ \A n \in Start[c] .. End[c] - 1 : n \in Slot
<1>1. Cardinality(Slot) \in Nat
  BY TableAssumption, FS_CardinalityType
<1>2. ASSUME NEW c \in Cheat
      PROVE  /\ First[c] \in Nat /\ Length[c] \in Nat
             /\ Start[c] = First[c] /\ End[c] = First[c] + Length[c]
  BY TableAssumption DEF Start, End
<1>3. ASSUME NEW c \in Cheat PROVE \A n \in Start[c] .. End[c] - 1 : n \in Slot
  BY <1>2, TableAssumption
<1> QED  BY <1>1, <1>2, <1>3, TableAssumption, MemoryAssumption DEF Word

LEMMA FollowType ==
  ASSUME Fixed, NEW s \in Call, NEW n \in Pointers
  PROVE  FollowPointer(s, n) \in Call
<1>1. pointer[n] \in Bases /\ n \in Slot /\ Base(pointer[n]) \in Value
  BY DEF Fixed, Pointers, Value
<1> QED  BY <1>1 DEF FollowPointer, Call

LEMMA RestoreType ==
  ASSUME Fixed, NEW s \in Call, NEW n \in Slot, NEW last \in Int, last <= Top
  PROVE  Restore(s, n, last) \in Call /\ Restore(s, n, last).at = s.at
<1> DEFINE a == s.dma + address[n]
<1>1. a \in Nat /\ s.std[n] \in Value
  BY Numbers DEF Call, Fixed
<1>2. a <= last => a \in Word
  BY <1>1, Numbers
<1> HIDE DEF a
<1>3. CASE a <= last
  BY <1>1, <1>2, <1>3 DEF Restore, Call, a
<1>4. CASE ~(a <= last)
  BY <1>4 DEF Restore, a
<1> QED  BY <1>3, <1>4

LEMMA WriteType ==
  ASSUME Fixed, NEW s \in Call, NEW n \in Slot, NEW f \in BOOLEAN
  PROVE  Write(s, n, f) \in Call /\ Write(s, n, f).at = s.at
<1> DEFINE a == s.dma + address[n]
           backup == /\ Kind[n] = "plain"
                     /\ (s.dma # 0 /\ s.resetDMA) \/ (f /\ n \in Freeze)
           std == IF backup THEN [s.std EXCEPT ![n] = s.mem[a]] ELSE s.std
           hak == IF backup /\ n \in Freeze THEN [s.hak EXCEPT ![n] = s.mem[a]] ELSE s.hak
<1>1. a \in Nat
  BY Numbers DEF Call, Fixed
<1>2. CASE a <= Top
  <2>1. a \in Word
    BY <1>1, <1>2, Numbers
  <2>2. s.mem[a] \in Value
    BY <2>1 DEF Call
  <2>3. std \in [Slot -> Value] /\ hak \in [Slot -> Value]
    BY <2>2 DEF Call
  <2>4. [s.mem EXCEPT ![a] = hak[n]] \in [Word -> Value]
    BY <2>1, <2>3 DEF Call
  <2>5. Write(s, n, f) = s \/
        Write(s, n, f) = [s EXCEPT !.std = std, !.hak = hak, !.mem[a] = hak[n]]
    BY DEF Write
  <2> HIDE DEF a, std, hak
  <2> QED  BY <2>3, <2>4, <2>5 DEF Call
<1>3. CASE ~(a <= Top)
  BY <1>3 DEF Write
<1> QED  BY <1>2, <1>3

LEMMA EnableLineType ==
  ASSUME Fixed, NEW s \in Call, s.at \in Slot, NEW f \in BOOLEAN
  PROVE  EnableLine(s, f) \in Call
<1> DEFINE isJoker == Kind[s.at] = "joker"
           n == IF isJoker THEN s.at + 1 ELSE s.at
           j == s.joker \/ (isJoker /\ s.at \notin held)
           t == [s EXCEPT !.at = n + 1, !.joker = j]
<1>1. t \in Call
  <2>1. n + 1 \in Nat
    BY DEF Call
  <2>2. j \in BOOLEAN
    OBVIOUS
  <2> HIDE DEF n, j
  <2> QED  BY <2>1, <2>2 DEF Call
<1>2. EnableLine(s, f) = IF n \notin Slot THEN t
     ELSE IF Kind[n] = "pointer" THEN FollowPointer(t, n)
     ELSE IF t.joker THEN Restore(t, n, Top)
     ELSE Write(t, n, f)
  BY DEF EnableLine
<1> HIDE DEF t, n
<1>3. Top \in Int /\ Top <= Top
  BY Numbers
<1>4. CASE n \notin Slot
  BY <1>1, <1>2, <1>4
<1>5. CASE n \in Slot /\ Kind[n] = "pointer"
  BY <1>1, <1>2, <1>5, FollowType DEF Pointers
<1>6. CASE n \in Slot /\ Kind[n] # "pointer" /\ t.joker
  BY <1>1, <1>2, <1>3, <1>6, RestoreType
<1>7. CASE n \in Slot /\ Kind[n] # "pointer" /\ ~t.joker
  BY <1>1, <1>2, <1>7, WriteType
<1> QED  BY <1>4, <1>5, <1>6, <1>7

LEMMA DisableLineType ==
  ASSUME Fixed, NEW s \in Call, s.at \in Slot
  PROVE  DisableLine(s) \in Call /\ DisableLine(s).at = s.at + 1
<1> DEFINE t == [s EXCEPT !.at = @ + 1]
<1>1. t \in Call /\ t.at = s.at + 1
  BY DEF Call
<1>2. DisableLine(s) = IF Kind[s.at] = "pointer" THEN FollowPointer(t, s.at)
                       ELSE Restore(t, s.at, Top - 1)
  BY DEF DisableLine
<1>3. FollowPointer(t, s.at).at = t.at
  BY <1>1 DEF FollowPointer, Call
<1> HIDE DEF t
<1>4. Top - 1 \in Int /\ Top - 1 <= Top
  BY Numbers
<1> QED  BY <1>1, <1>2, <1>3, <1>4, FollowType, RestoreType DEF Pointers
-----------------------------------------------------------------------------
(* The calls, as functions of the round.                                   *)
LEMMA EnterType == \A s \in State : \A c \in Cheat : Enter(s, c) \in Call
BY Numbers DEF Enter, State, Call

LEMMA EnableRoundType ==
  ASSUME Fixed, NEW c \in Cheat, Length[c] > 0, NEW f \in BOOLEAN, NEW t \in Call
  PROVE  EnableRound(t, c, f) \in Call /\ DisableRound(t, c) \in Call
<1> SUFFICES ASSUME t.at < End[c] PROVE EnableLine(t, f) \in Call /\ DisableLine(t) \in Call
  BY DEF EnableRound, DisableRound
<1>1. t.at \in Nat /\ End[c] \in Nat /\ End[c] - 1 \in Slot
  <2>1. End[c] - 1 \in Start[c] .. End[c] - 1
    BY Numbers
  <2> QED  BY <2>1, Numbers DEF Call
<1>2. t.at \in Slot
  BY <1>1, Numbers
<1> QED  BY <1>2, EnableLineType, DisableLineType

LEMMA DisableRoundType ==
  ASSUME Fixed, NEW c \in Cheat, Length[c] > 0, NEW t \in Call
  PROVE  DisableRound(t, c) \in Call
<1>1. TRUE \in BOOLEAN
  OBVIOUS
<1> QED  BY <1>1, EnableRoundType

LEMMA EnableRounds ==
  ASSUME Fixed, NEW s \in State, NEW c \in Cheat, NEW f \in BOOLEAN
  PROVE  \E r \in [0 .. Length[c] -> Call] :
           /\ r[0] = Enter(s, c)
           /\ \A i \in 1 .. Length[c] : r[i] = EnableRound(r[i - 1], c, f)
           /\ cheatEnable(s, c, f) = Leave(r[Length[c]])
<1> DEFINE L == Length[c]
           s0 == Enter(s, c)
           F == [i \in 1 .. L |-> [t \in Call |-> EnableRound(t, c, f)]]
           Body(g) == [i \in 0 .. L |-> IF i = 0 THEN s0 ELSE EnableRound(g[i - 1], c, f)]
           r == CHOOSE g : g = Body(g)
<1>1. cheatEnable(s, c, f) = Leave(r[L])
  BY DEF cheatEnable
<1>2. L \in Nat /\ s0 \in Call
  BY Numbers, EnterType
<1>3. ClosedUnder(L, Call, F)
  BY <1>2, EnableRoundType DEF ClosedUnder
<1>4. \A i \in 1 .. L : \A t \in Call : F[i][t] = EnableRound(t, c, f)
  OBVIOUS
<1> HIDE DEF F, L, s0
<1>5. PICK g : IsRounds(g, L, Call, s0, F)
  BY <1>2, <1>3, RoundsExist
<1>6. ASSUME NEW i \in 1 .. L PROVE i - 1 \in 0 .. L /\ i # 0
  BY <1>2
<1>7. \A i \in 1 .. L : g[i] = EnableRound(g[i - 1], c, f)
  BY <1>4, <1>5, <1>6 DEF IsRounds
<1>8. g = Body(g)
  BY <1>2, <1>5, <1>7 DEF IsRounds
<1>9. r = Body(r)
  <2> HIDE DEF Body
  <2> QED  BY <1>8
<1> HIDE DEF r
<1>10. r[0] = s0 /\ \A i \in 1 .. L : r[i] = EnableRound(r[i - 1], c, f)
  BY <1>2, <1>9
<1>11. \A i \in 0 .. L : r[i] = g[i]
  <2> DEFINE T == {i \in 0 .. L : r[i] = g[i]}
  <2>1. 0 \in T
    BY <1>2, <1>5, <1>10 DEF IsRounds
  <2>2. \A i \in 1 .. L : i - 1 \in T => i \in T
    BY <1>7, <1>10
  <2> HIDE DEF T
  <2>3. 0 .. L \subseteq T
    BY <1>2, <2>1, <2>2, SetInduction
  <2> QED  BY <2>3 DEF T
<1>12. r \in [0 .. L -> Call]
  BY <1>5, <1>9, <1>11 DEF IsRounds
<1> QED  BY <1>1, <1>10, <1>12 DEF L, s0

LEMMA DisableRounds ==
  ASSUME Fixed, NEW s \in State, NEW c \in Cheat
  PROVE  \E r \in [0 .. Length[c] -> Call] :
           /\ r[0] = Enter(s, c)
           /\ \A i \in 1 .. Length[c] : r[i] = DisableRound(r[i - 1], c)
           /\ cheatDisable(s, c) = Leave(r[Length[c]])
<1> DEFINE L == Length[c]
           s0 == Enter(s, c)
           F == [i \in 1 .. L |-> [t \in Call |-> DisableRound(t, c)]]
           Body(g) == [i \in 0 .. L |-> IF i = 0 THEN s0 ELSE DisableRound(g[i - 1], c)]
           r == CHOOSE g : g = Body(g)
<1>1. cheatDisable(s, c) = Leave(r[L])
  BY DEF cheatDisable
<1>2. L \in Nat /\ s0 \in Call
  BY Numbers, EnterType
<1>3. ClosedUnder(L, Call, F)
  BY <1>2, DisableRoundType DEF ClosedUnder
<1>4. \A i \in 1 .. L : \A t \in Call : F[i][t] = DisableRound(t, c)
  OBVIOUS
<1> HIDE DEF F, L, s0
<1>5. PICK g : IsRounds(g, L, Call, s0, F)
  BY <1>2, <1>3, RoundsExist
<1>6. ASSUME NEW i \in 1 .. L PROVE i - 1 \in 0 .. L /\ i # 0
  BY <1>2
<1>7. \A i \in 1 .. L : g[i] = DisableRound(g[i - 1], c)
  BY <1>4, <1>5, <1>6 DEF IsRounds
<1>8. g = Body(g)
  BY <1>2, <1>5, <1>7 DEF IsRounds
<1>9. r = Body(r)
  <2> HIDE DEF Body
  <2> QED  BY <1>8
<1> HIDE DEF r
<1>10. r[0] = s0 /\ \A i \in 1 .. L : r[i] = DisableRound(r[i - 1], c)
  BY <1>2, <1>9
<1>11. \A i \in 0 .. L : r[i] = g[i]
  <2> DEFINE T == {i \in 0 .. L : r[i] = g[i]}
  <2>1. 0 \in T
    BY <1>2, <1>5, <1>10 DEF IsRounds
  <2>2. \A i \in 1 .. L : i - 1 \in T => i \in T
    BY <1>7, <1>10
  <2> HIDE DEF T
  <2>3. 0 .. L \subseteq T
    BY <1>2, <2>1, <2>2, SetInduction
  <2> QED  BY <2>3 DEF T
<1>12. r \in [0 .. L -> Call]
  BY <1>5, <1>9, <1>11 DEF IsRounds
<1> QED  BY <1>1, <1>10, <1>12 DEF L, s0

LEMMA CallType ==
  ASSUME Fixed, NEW s \in State, NEW c \in Cheat, NEW f \in BOOLEAN
  PROVE  cheatEnable(s, c, f) \in State /\ cheatDisable(s, c) \in State
<1>1. \A t \in Call : Leave(t) \in State
  BY DEF Leave, Call, State
<1>2. Length[c] \in 0 .. Length[c]
  BY Numbers
<1>3. cheatEnable(s, c, f) \in State
  BY <1>1, <1>2, EnableRounds
<1>4. cheatDisable(s, c) \in State
  BY <1>1, <1>2, DisableRounds
<1> QED  BY <1>3, <1>4

(* The trigger's walk, its switching of the cheats and cheatApply(0).      *)
LEMMA BackUpLineType ==
  ASSUME Fixed, NEW s \in State, NEW n \in Slot
  PROVE  BackUpLine(s, n) \in State
<1> DEFINE t == IF \E c \in Cheat : Start[c] = n THEN [s EXCEPT !.dma = 0] ELSE s
           a == t.dma + address[n]
<1>1. t \in State /\ t.mem = s.mem
  BY DEF State
<1>2. CASE Kind[n] = "pointer"
  <2>1. pointer[n] \in Bases /\ Base(pointer[n]) \in Value
    BY <1>2 DEF Fixed, Pointers, Value
  <2> DEFINE v == IF Low <= pointer[n] /\ pointer[n] < Top THEN Base(pointer[n]) ELSE t.std[n]
  <2>2. BackUpLine(s, n) = [t EXCEPT !.dma = pointer[n], !.std[n] = v]
    BY <1>2 DEF BackUpLine
  <2> HIDE DEF t
  <2>3. v \in Value
    BY <1>1, <2>1 DEF State
  <2> HIDE DEF v
  <2>4. [t.std EXCEPT ![n] = v] \in [Slot -> Value]
    BY <1>1, <2>3 DEF State
  <2> QED  BY <1>1, <2>1, <2>2, <2>4 DEF State
<1>3. CASE Kind[n] # "pointer" /\ Kind[n] # "joker" /\ a < Top
  <2>1. BackUpLine(s, n) = [t EXCEPT !.std[n] = s.mem[a]]
    BY <1>3 DEF BackUpLine
  <2>2. a \in Word
    BY <1>1, <1>3, Numbers DEF State, Fixed
  <2> HIDE DEF t, a
  <2>3. s.mem[a] \in Value
    BY <2>2 DEF State
  <2> QED  BY <1>1, <2>1, <2>3 DEF State
<1>4. CASE ~(Kind[n] # "joker" /\ a < Top) /\ Kind[n] # "pointer"
  BY <1>1, <1>4 DEF BackUpLine
<1> QED  BY <1>2, <1>3, <1>4

LEMMA PressCheatType ==
  ASSUME Fixed, NEW s \in State, NEW c \in Cheat, NEW isOn \in BOOLEAN
  PROVE  PressCheat(s, c, isOn) \in State
<1>1. TRUE \in BOOLEAN
  OBVIOUS
<1> QED  BY <1>1, CallType DEF PressCheat

LEMMA ApplyFreshType ==
  ASSUME Fixed, NEW s \in State, NEW c \in Cheat, NEW sel, NEW con, NEW fr
  PROVE  ApplyFresh(s, c, sel, con, fr) \in State
<1>1. TRUE \in BOOLEAN
  OBVIOUS
<1> QED  BY <1>1, CallType DEF ApplyFresh

LEMMA BackUpRounds ==
  ASSUME Fixed, NEW s \in State
  PROVE  \E r \in [0 .. Cardinality(Slot) -> State] :
           /\ r[0] = s
           /\ \A i \in 1 .. Cardinality(Slot) : r[i] = BackUpLine(r[i - 1], i - 1)
           /\ BackUp(s) = r[Cardinality(Slot)]
<1> DEFINE L == Cardinality(Slot)
           s0 == s
           F == [i \in 1 .. L |-> [t \in State |-> BackUpLine(t, i - 1)]]
           Body(g) == [i \in 0 .. L |-> IF i = 0 THEN s0 ELSE BackUpLine(g[i - 1], i - 1)]
           r == CHOOSE g : g = Body(g)
<1>1. BackUp(s) = r[L]
  BY DEF BackUp
<1>2. L \in Nat /\ s0 \in State
  BY Numbers
<1>3. ClosedUnder(L, State, F)
  BY <1>2, BackUpLineType, Numbers DEF ClosedUnder
<1>4. \A i \in 1 .. L : \A t \in State : F[i][t] = BackUpLine(t, i - 1)
  OBVIOUS
<1> HIDE DEF F, L, s0
<1>5. PICK g : IsRounds(g, L, State, s0, F)
  BY <1>2, <1>3, RoundsExist
<1>6. ASSUME NEW i \in 1 .. L PROVE i - 1 \in 0 .. L /\ i # 0
  BY <1>2
<1>7. \A i \in 1 .. L : g[i] = BackUpLine(g[i - 1], i - 1)
  BY <1>4, <1>5, <1>6 DEF IsRounds
<1>8. g = Body(g)
  BY <1>2, <1>5, <1>7 DEF IsRounds
<1>9. r = Body(r)
  <2> HIDE DEF Body
  <2> QED  BY <1>8
<1> HIDE DEF r
<1>10. r[0] = s0 /\ \A i \in 1 .. L : r[i] = BackUpLine(r[i - 1], i - 1)
  BY <1>2, <1>9
<1>11. \A i \in 0 .. L : r[i] = g[i]
  <2> DEFINE T == {i \in 0 .. L : r[i] = g[i]}
  <2>1. 0 \in T
    BY <1>2, <1>5, <1>10 DEF IsRounds
  <2>2. \A i \in 1 .. L : i - 1 \in T => i \in T
    BY <1>7, <1>10
  <2> HIDE DEF T
  <2>3. 0 .. L \subseteq T
    BY <1>2, <2>1, <2>2, SetInduction
  <2> QED  BY <2>3 DEF T
<1>12. r \in [0 .. L -> State]
  BY <1>5, <1>9, <1>11 DEF IsRounds
<1> QED  BY <1>1, <1>10, <1>12 DEF L, s0

LEMMA PressedStart ==
  ASSUME Fixed, Machine \in State
  PROVE  (IF cheatSaved THEN Machine ELSE BackUp(Machine)) \in State
<1>1. Cardinality(Slot) \in 0 .. Cardinality(Slot)
  BY Numbers
<1>2. BackUp(Machine) \in State
  BY <1>1, BackUpRounds
<1> QED  BY <1>2

LEMMA PressedRounds ==
  ASSUME Fixed, Machine \in State, cheatStatus \in BOOLEAN
  PROVE  \E r \in [0 .. N -> State] :
           /\ r[0] = (IF cheatSaved THEN Machine ELSE BackUp(Machine))
           /\ \A i \in 1 .. N : r[i] = PressCheat(r[i - 1], i - 1, ~cheatStatus)
           /\ Pressed = r[N]
<1> DEFINE L == N
           s0 == (IF cheatSaved THEN Machine ELSE BackUp(Machine))
           F == [i \in 1 .. L |-> [t \in State |-> PressCheat(t, i - 1, ~cheatStatus)]]
           Body(g) == [i \in 0 .. L |-> IF i = 0 THEN s0 ELSE PressCheat(g[i - 1], i - 1, ~cheatStatus)]
           r == CHOOSE g : g = Body(g)
<1>1. Pressed = r[L]
  BY DEF Pressed
<1>2. L \in Nat /\ s0 \in State
  BY Numbers, PressedStart
<1>3. ClosedUnder(L, State, F)
  <2> SUFFICES ASSUME NEW i \in 1 .. L, NEW t \in State
               PROVE  PressCheat(t, i - 1, ~cheatStatus) \in State
    BY DEF ClosedUnder
  <2>1. i - 1 \in Cheat
    BY <1>2 DEF Cheat
  <2>2. (~cheatStatus) \in BOOLEAN
    OBVIOUS
  <2> QED  BY <2>1, <2>2, PressCheatType
<1>4. \A i \in 1 .. L : \A t \in State : F[i][t] = PressCheat(t, i - 1, ~cheatStatus)
  OBVIOUS
<1> HIDE DEF F, L, s0
<1>5. PICK g : IsRounds(g, L, State, s0, F)
  BY <1>2, <1>3, RoundsExist
<1>6. ASSUME NEW i \in 1 .. L PROVE i - 1 \in 0 .. L /\ i # 0
  BY <1>2
<1>7. \A i \in 1 .. L : g[i] = PressCheat(g[i - 1], i - 1, ~cheatStatus)
  BY <1>4, <1>5, <1>6 DEF IsRounds
<1>8. g = Body(g)
  BY <1>2, <1>5, <1>7 DEF IsRounds
<1>9. r = Body(r)
  <2> HIDE DEF Body
  <2> QED  BY <1>8
<1> HIDE DEF r
<1>10. r[0] = s0 /\ \A i \in 1 .. L : r[i] = PressCheat(r[i - 1], i - 1, ~cheatStatus)
  BY <1>2, <1>9
<1>11. \A i \in 0 .. L : r[i] = g[i]
  <2> DEFINE T == {i \in 0 .. L : r[i] = g[i]}
  <2>1. 0 \in T
    BY <1>2, <1>5, <1>10 DEF IsRounds
  <2>2. \A i \in 1 .. L : i - 1 \in T => i \in T
    BY <1>7, <1>10
  <2> HIDE DEF T
  <2>3. 0 .. L \subseteq T
    BY <1>2, <2>1, <2>2, SetInduction
  <2> QED  BY <2>3 DEF T
<1>12. r \in [0 .. L -> State]
  BY <1>5, <1>9, <1>11 DEF IsRounds
<1> QED  BY <1>1, <1>10, <1>12 DEF L, s0

LEMMA AppliedRounds ==
  ASSUME Fixed, Machine \in State, NEW sel, NEW con, NEW fr
  PROVE  \E r \in [0 .. N -> State] :
           /\ r[0] = Machine
           /\ \A i \in 1 .. N : r[i] = ApplyFresh(r[i - 1], i - 1, sel, con, fr)
           /\ Applied(sel, con, fr) = r[N]
<1> DEFINE L == N
           s0 == Machine
           F == [i \in 1 .. L |-> [t \in State |-> ApplyFresh(t, i - 1, sel, con, fr)]]
           Body(g) == [i \in 0 .. L |-> IF i = 0 THEN s0 ELSE ApplyFresh(g[i - 1], i - 1, sel, con, fr)]
           r == CHOOSE g : g = Body(g)
<1>1. Applied(sel, con, fr) = r[L]
  BY DEF Applied
<1>2. L \in Nat /\ s0 \in State
  BY Numbers
<1>3. ClosedUnder(L, State, F)
  BY <1>2, ApplyFreshType, Numbers DEF ClosedUnder, Cheat
<1>4. \A i \in 1 .. L : \A t \in State : F[i][t] = ApplyFresh(t, i - 1, sel, con, fr)
  OBVIOUS
<1> HIDE DEF F, L, s0
<1>5. PICK g : IsRounds(g, L, State, s0, F)
  BY <1>2, <1>3, RoundsExist
<1>6. ASSUME NEW i \in 1 .. L PROVE i - 1 \in 0 .. L /\ i # 0
  BY <1>2
<1>7. \A i \in 1 .. L : g[i] = ApplyFresh(g[i - 1], i - 1, sel, con, fr)
  BY <1>4, <1>5, <1>6 DEF IsRounds
<1>8. g = Body(g)
  BY <1>2, <1>5, <1>7 DEF IsRounds
<1>9. r = Body(r)
  <2> HIDE DEF Body
  <2> QED  BY <1>8
<1> HIDE DEF r
<1>10. r[0] = s0 /\ \A i \in 1 .. L : r[i] = ApplyFresh(r[i - 1], i - 1, sel, con, fr)
  BY <1>2, <1>9
<1>11. \A i \in 0 .. L : r[i] = g[i]
  <2> DEFINE T == {i \in 0 .. L : r[i] = g[i]}
  <2>1. 0 \in T
    BY <1>2, <1>5, <1>10 DEF IsRounds
  <2>2. \A i \in 1 .. L : i - 1 \in T => i \in T
    BY <1>7, <1>10
  <2> HIDE DEF T
  <2>3. 0 .. L \subseteq T
    BY <1>2, <2>1, <2>2, SetInduction
  <2> QED  BY <2>3 DEF T
<1>12. r \in [0 .. L -> State]
  BY <1>5, <1>9, <1>11 DEF IsRounds
<1> QED  BY <1>1, <1>10, <1>12 DEF L, s0

-----------------------------------------------------------------------------
(* Types, of the whole state.                                              *)
TypeInv == TypeOK /\ (pc = "enable" => cur \in Cheat /\ run.at >= Start[cur])

LEMMA MachineType == TypeInv => Fixed /\ Machine \in State
BY DEF TypeInv, TypeOK, Fixed, Machine, State

LEMMA BecomesType ==
  ASSUME NEW s \in State, Becomes(s)
  PROVE  /\ mem' \in [Word -> Value] /\ stdVal' \in [Slot -> Value]
         /\ hakVal' \in [Slot -> Value] /\ cheatDMA' \in Bases \cup {0}
BY DEF Becomes, State

LEMMA EnableLineAt ==
  ASSUME Fixed, NEW s \in Call, s.at \in Slot, NEW f \in BOOLEAN
  PROVE  EnableLine(s, f).at = IF Kind[s.at] = "joker" THEN s.at + 2 ELSE s.at + 1
<1> DEFINE isJoker == Kind[s.at] = "joker"
           n == IF isJoker THEN s.at + 1 ELSE s.at
           j == s.joker \/ (isJoker /\ s.at \notin held)
           t == [s EXCEPT !.at = n + 1, !.joker = j]
<1>1. t \in Call /\ t.at = n + 1
  <2>1. n + 1 \in Nat
    BY DEF Call
  <2>2. j \in BOOLEAN
    OBVIOUS
  <2> HIDE DEF n, j
  <2> QED  BY <2>1, <2>2 DEF Call
<1>2. EnableLine(s, f) = IF n \notin Slot THEN t
     ELSE IF Kind[n] = "pointer" THEN FollowPointer(t, n)
     ELSE IF t.joker THEN Restore(t, n, Top)
     ELSE Write(t, n, f)
  BY DEF EnableLine
<1>3. n + 1 = IF Kind[s.at] = "joker" THEN s.at + 2 ELSE s.at + 1
  BY DEF Call
<1> HIDE DEF t, n
<1>4. FollowPointer(t, n).at = t.at
  BY <1>1 DEF FollowPointer, Call
<1>5. Top \in Int /\ Top <= Top
  BY Numbers
<1>6. n \in Slot => Restore(t, n, Top).at = t.at /\ Write(t, n, f).at = t.at
  BY <1>1, <1>5, RestoreType, WriteType
<1> QED  BY <1>1, <1>2, <1>3, <1>4, <1>6

LEMMA InitType == Init => TypeInv
<1> SUFFICES ASSUME Init PROVE TypeInv
  OBVIOUS
<1>1. /\ \A a \in Word : Game(a) \in Value
      /\ \A n \in Slot : Hack(n) \in Value
      /\ Unset \in Value
  BY DEF Value
<1>2. NoRun \in [at : Nat, resetDMA : BOOLEAN, NULLPOINTER : BOOLEAN, joker : BOOLEAN]
  BY DEF NoRun
<1>3. 0 \in 0 .. N /\ held \subseteq Jokers
  BY Numbers DEF Init
<1>4. /\ mem \in [Word -> Value] /\ stdVal \in [Slot -> Value] /\ hakVal \in [Slot -> Value]
      /\ address \in [Slot -> Word] /\ pointer \in [Pointers -> Bases] /\ held \subseteq Jokers
  BY <1>1, MemoryAssumption DEF Init
<1>5. /\ selected \subseteq Cheat /\ constant \subseteq Cheat /\ fresh \subseteq Cheat
  BY TableAssumption DEF Init
<1>7. /\ cheatStatus \in BOOLEAN /\ cheatSaved \in BOOLEAN /\ cheatFlash \in 0 .. 2
      /\ cheatDMA \in Bases \cup {0} /\ menuDrawn \in BOOLEAN
      /\ pc = "loop" /\ passOn \in BOOLEAN /\ cur \in 0 .. N
  <2>1. /\ cheatStatus = FALSE /\ cheatSaved = FALSE /\ cheatFlash = 0
        /\ cheatDMA = 0 /\ menuDrawn = FALSE
        /\ pc = "loop" /\ passOn = FALSE /\ cur = 0
    BY DEF Init
  <2>2. /\ cheatStatus \in BOOLEAN /\ cheatSaved \in BOOLEAN /\ menuDrawn \in BOOLEAN
        /\ passOn \in BOOLEAN
    BY <2>1
  <2>3. cheatFlash \in 0 .. 2 /\ cheatDMA \in Bases \cup {0} /\ cur \in 0 .. N
    BY <1>3, <2>1
  <2> QED  BY <2>1, <2>2, <2>3
<1>6. run = NoRun
  BY DEF Init
<1> QED  BY <1>2, <1>4, <1>5, <1>6, <1>7 DEF TypeInv, TypeOK

LEMMA LineType ==
  ASSUME TypeInv, PassLine PROVE TypeInv'
<1> DEFINE t == [mem |-> mem, std |-> stdVal, hak |-> hakVal,
                 dma |-> cheatDMA, at |-> run.at,
                 resetDMA |-> run.resetDMA,
                 NULLPOINTER |-> run.NULLPOINTER,
                 joker |-> run.joker]
           f == cur \in fresh
           s == EnableLine(t, f)
<1>1. t \in Call /\ cur \in Cheat /\ t.at < End[cur] /\ Fixed /\ f \in BOOLEAN
  BY DEF PassLine, TypeInv, TypeOK, Fixed, Call
<1>2. t.at \in Slot
  <2>1. run.at \in Start[cur] .. End[cur] - 1
    BY <1>1, Numbers DEF Call, TypeInv, PassLine
  <2> QED  BY <1>1, <2>1, Numbers
<1>3. s \in Call /\ s.at > t.at
  <2>1. s \in Call
    BY <1>1, <1>2, EnableLineType
  <2>2. s.at = t.at + 1 \/ s.at = t.at + 2
    <3> HIDE DEF s, t
    <3>1. EnableLine(t, f).at = IF Kind[t.at] = "joker" THEN t.at + 2 ELSE t.at + 1
      BY <1>1, <1>2, EnableLineAt
    <3> QED  BY <3>1 DEF s
  <2>3. t.at \in Nat
    BY <1>1 DEF Call
  <2> HIDE DEF s, t
  <2> QED  BY <2>1, <2>2, <2>3
<1>7. t.at = run.at
  OBVIOUS
<1>4. /\ Becomes(s)
      /\ run' = [at |-> s.at, resetDMA |-> s.resetDMA, NULLPOINTER |-> s.NULLPOINTER, joker |-> s.joker]
      /\ UNCHANGED <<game, address, flags, status, menuDrawn, pc, passOn, cur>>
  BY DEF PassLine
<1> HIDE DEF s, t
<1>5. /\ mem' \in [Word -> Value] /\ stdVal' \in [Slot -> Value]
      /\ hakVal' \in [Slot -> Value] /\ cheatDMA' \in Bases \cup {0}
  BY <1>3, <1>4 DEF Becomes, Call
<1>6. run' \in [at : Nat, resetDMA : BOOLEAN, NULLPOINTER : BOOLEAN, joker : BOOLEAN]
  BY <1>3, <1>4 DEF Call
<1>8. run'.at >= Start[cur]'
  BY <1>1, <1>3, <1>4, <1>7, Numbers DEF Call, TypeInv, Start, PassLine
<1> QED  BY <1>1, <1>4, <1>5, <1>6, <1>8 DEF TypeInv, TypeOK, game, flags, status

LEMMA RunStarts ==
  ASSUME NEW x \in Nat
  PROVE  /\ [NoRun EXCEPT !.at = x] \in [at : Nat, resetDMA : BOOLEAN, NULLPOINTER : BOOLEAN, joker : BOOLEAN]
         /\ [NoRun EXCEPT !.at = x].at = x /\ x >= x
<1>1. NoRun \in [at : Nat, resetDMA : BOOLEAN, NULLPOINTER : BOOLEAN, joker : BOOLEAN]
  BY DEF NoRun
<1> QED  BY <1>1

LEMMA PassType ==
  ASSUME TypeInv, EnterMenu \/ StartPass \/ PassCheat \/ PassCheatEnd \/ EndPass
  PROVE  TypeInv'
<1> USE DEF TypeInv, TypeOK
<1>1. CASE EnterMenu
  BY <1>1 DEF EnterMenu, game, lines, flags, status
<1>2. CASE StartPass
  <2>1. AfterPass \in 0 .. 2 /\ 0 \in 0 .. N
    BY Numbers DEF AfterPass
  <2> QED  BY <1>2, <2>1 DEF StartPass, game, lines, flags, status
<1>3. CASE PassCheat
  <2>1. cur \in Cheat /\ cur + 1 \in 0 .. N
    BY <1>3, Numbers DEF PassCheat, Cheat
  <2>3. Start[cur] \in Nat
    BY <2>1, Numbers
  <2> QED  BY <1>3, <2>1, <2>3, RunStarts DEF PassCheat, game, lines, flags, status, Start
<1>4. CASE PassCheatEnd
  <2>1. cur + 1 \in 0 .. N
    BY <1>4, Numbers DEF PassCheatEnd, Cheat
  <2>2. NoRun \in [at : Nat, resetDMA : BOOLEAN, NULLPOINTER : BOOLEAN, joker : BOOLEAN]
    BY DEF NoRun
  <2> QED  BY <1>4, <2>1, <2>2 DEF PassCheatEnd, game, lines, flags, status
<1>5. CASE EndPass
  <2>1. AfterPass \in 0 .. 2 /\ 0 \in 0 .. N
    BY Numbers DEF AfterPass
  <2> QED  BY <1>5, <2>1 DEF EndPass, game, lines, flags, status
<1> QED  BY <1>1, <1>2, <1>3, <1>4, <1>5

LEMMA TriggerType == ASSUME TypeInv, PressTrigger PROVE TypeInv'
<1>1. Pressed \in State
  <2>1. N \in 0 .. N /\ cheatStatus \in BOOLEAN
    BY Numbers DEF TypeInv, TypeOK
  <2> QED  BY <2>1, MachineType, PressedRounds
<1>2. /\ mem' \in [Word -> Value] /\ stdVal' \in [Slot -> Value]
      /\ hakVal' \in [Slot -> Value] /\ cheatDMA' \in Bases \cup {0}
  BY <1>1, BecomesType DEF PressTrigger
<1>3. fresh' \subseteq Cheat /\ cheatStatus' \in BOOLEAN /\ cheatSaved' \in BOOLEAN
  BY DEF PressTrigger, StillFresh, TypeInv, TypeOK
<1> QED  BY <1>2, <1>3 DEF PressTrigger, game, main, TypeInv, TypeOK, Start

LEMMA ToggleType ==
  ASSUME TypeInv, NEW c \in Cheat, NEW sel, NEW con, sel \subseteq Cheat, con \subseteq Cheat,
         Toggle(sel, con, c)
  PROVE  TypeInv'
<1> DEFINE fr == fresh \cup {c}
<1>1. Applied(sel, con, fr) \in State
  <2> HIDE DEF fr
  <2>1. N \in 0 .. N
    BY Numbers
  <2> QED  BY <2>1, MachineType, AppliedRounds
<1>2. fr \subseteq Cheat
  BY DEF TypeInv, TypeOK
<1>3. /\ mem' \in [Word -> Value] /\ stdVal' \in [Slot -> Value]
      /\ hakVal' \in [Slot -> Value] /\ cheatDMA' \in Bases \cup {0}
      /\ fresh' \subseteq Cheat /\ cheatFlash' \in 0 .. 2
  <2>1. CASE cheatSaved
    BY <1>1, <2>1, BecomesType DEF Toggle
  <2>2. CASE ~cheatSaved
    BY <1>2, <2>2 DEF Toggle, TypeInv, TypeOK
  <2> QED  BY <2>1, <2>2
<1>4. /\ selected' = sel /\ constant' = con
      /\ UNCHANGED <<game, address, cheatStatus, cheatSaved, menuDrawn, main>>
  BY DEF Toggle
<1> HIDE DEF fr
<1> QED  BY <1>3, <1>4 DEF game, main, TypeInv, TypeOK, Start

LEMMA EditType ==
  ASSUME TypeInv, NEW n \in Slot, EditValue(n) \/ \E w \in EditWords : EditAddress(n, w)
  PROVE  TypeInv'
<1> USE DEF TypeInv, TypeOK
<1>1. TakenBack(n) \in [Word -> Value]
  BY Numbers DEF TakenBack, Restorable
<1>2. CASE EditValue(n)
  BY <1>1, <1>2 DEF EditValue, game, lines, flags, status, main, Start
<1>3. ASSUME NEW w \in EditWords, EditAddress(n, w) PROVE TypeInv'
  <2>1. w \in Word
    BY MemoryAssumption
  <2>2. mem' \in [Word -> Value] /\ address' \in [Slot -> Word]
    BY <1>1, <1>3, <2>1 DEF EditAddress
  <2> DEFINE a == cheatDMA + w
  <2>3. stdVal' = NewBackup(n, a)
    BY <1>3 DEF EditAddress
  <2>4. a \in Nat
    BY <2>1, Numbers
  <2> HIDE DEF a
  <2>5. Restorable(n, a) => mem'[a] \in Value
    BY <2>2, <2>4, Numbers DEF Restorable
  <2>6. stdVal' \in [Slot -> Value]
    BY <2>3, <2>5 DEF NewBackup
  <2> QED  BY <1>3, <2>2, <2>6 DEF EditAddress, game, flags, status, main, Start
<1> QED  BY <1>2, <1>3

LEMMA NextType == TypeInv /\ [Next]_vars => TypeInv'
<1> SUFFICES ASSUME TypeInv, [Next]_vars PROVE TypeInv'
  OBVIOUS
<1>1. CASE MainStep
  BY <1>1, PassType, LineType DEF MainStep
<1>2. CASE PressTrigger
  BY <1>2, TriggerType
<1>3. CASE Menu
  <2>1. ASSUME NEW c \in Cheat, ToggleSelected(c) \/ ToggleConstant(c) PROVE TypeInv'
    <3>1. /\ Flip(selected, c) \subseteq Cheat /\ Flip(constant, c) \subseteq Cheat
          /\ constant \ {c} \subseteq Cheat /\ selected \ {c} \subseteq Cheat
      BY DEF Flip, TypeInv, TypeOK
    <3> QED  BY <2>1, <3>1, ToggleType DEF ToggleSelected, ToggleConstant
  <2>2. CASE LeaveMenu
    BY <2>2 DEF LeaveMenu, game, lines, flags, status, TypeInv, TypeOK, Start
  <2> QED  BY <1>3, <2>1, <2>2, EditType DEF Menu
<1>4. CASE PressMenu \/ UNCHANGED vars
  BY <1>4 DEF PressMenu, vars, game, lines, flags, status, main, TypeInv, TypeOK, Start
<1>5. CASE GameStep
  <2>1. \A a \in Word : Game(a) \in Value
    BY DEF Value
  <2>2. UNCHANGED <<lines, flags, status, cheatDMA, menuDrawn, main>>
    BY <1>5 DEF GameStep, GameWrite, GameMove, HoldOrRelease
  <2>3. /\ mem' \in [Word -> Value] /\ pointer' \in [Pointers -> Bases] /\ held' \subseteq Jokers
    BY <1>5, <2>1 DEF GameStep, GameWrite, GameMove, HoldOrRelease, Flip, game, TypeInv, TypeOK
  <2> QED  BY <2>2, <2>3 DEF lines, flags, status, main, TypeInv, TypeOK, Start
<1> QED  BY <1>1, <1>2, <1>3, <1>4, <1>5 DEF Next

(* Whatever the table and the operations used, every word holds a value    *)
(* that came from somewhere, no write falls outside the memory, and a pass *)
(* is at a line of a cheat.                                                *)
THEOREM TypeCorrect == Spec => []TypeOK
<1>1. TypeInv => TypeOK
  BY DEF TypeInv
<1> QED  BY <1>1, InitType, NextType, PTL DEF Spec
-----------------------------------------------------------------------------
(* What the steps of a call do, told by what they leave alone.             *)
SameLocals(u, s) ==
  u.at = s.at /\ u.resetDMA = s.resetDMA /\ u.NULLPOINTER = s.NULLPOINTER /\ u.joker = s.joker

LEMMA FollowEffect ==
  ASSUME Fixed, NEW s \in Call, NEW n \in Pointers, NEW u, u = FollowPointer(s, n)
  PROVE  /\ u \in Call /\ u.mem = s.mem /\ u.hak = s.hak /\ u.at = s.at /\ u.joker = s.joker
         /\ u.dma = pointer[n]
         /\ \/ ~IsBase(pointer[n]) /\ u.NULLPOINTER /\ u.std = s.std /\ u.resetDMA = s.resetDMA
            \/ /\ IsBase(pointer[n]) /\ s.std[n] = Base(pointer[n]) /\ u.std = s.std
               /\ ~u.resetDMA /\ u.NULLPOINTER = s.NULLPOINTER
            \/ /\ IsBase(pointer[n]) /\ s.std[n] # Base(pointer[n])
               /\ u.std = [s.std EXCEPT ![n] = Base(pointer[n])]
               /\ u.resetDMA /\ ~u.NULLPOINTER
<1>1. u \in Call
  BY FollowType
<1> QED  BY <1>1 DEF FollowPointer, Call

LEMMA RestoreEffect ==
  ASSUME Fixed, NEW s \in Call, NEW n \in Slot, NEW last \in Int, last <= Top,
         NEW u, u = Restore(s, n, last)
  PROVE  /\ u \in Call /\ u.std = s.std /\ u.hak = s.hak /\ u.dma = s.dma /\ SameLocals(u, s)
         /\ s.dma + address[n] \in Nat
         /\ IF Kind[n] = "plain" /\ s.dma + address[n] <= last /\ ~s.resetDMA /\ ~s.NULLPOINTER
              THEN /\ s.dma + address[n] \in Word
                   /\ u.mem = [s.mem EXCEPT ![s.dma + address[n]] = s.std[n]]
              ELSE u.mem = s.mem
<1> DEFINE a == s.dma + address[n]
<1>1. u \in Call
  BY RestoreType
<1>2. a \in Nat /\ (a <= last => a \in Word)
  BY Numbers DEF Call, Fixed
<1>3. u = IF Kind[n] = "plain" /\ a <= last /\ ~s.resetDMA /\ ~s.NULLPOINTER
            THEN [s EXCEPT !.mem[a] = s.std[n]] ELSE s
  BY DEF Restore
<1> HIDE DEF a
<1>4. /\ u.std = s.std /\ u.hak = s.hak /\ u.dma = s.dma /\ SameLocals(u, s)
      /\ IF Kind[n] = "plain" /\ a <= last /\ ~s.resetDMA /\ ~s.NULLPOINTER
           THEN u.mem = [s.mem EXCEPT ![a] = s.std[n]] ELSE u.mem = s.mem
  BY <1>3 DEF Call, SameLocals
<1> QED  BY <1>1, <1>2, <1>4 DEF a

Backup(s, n, f) == Kind[n] = "plain" /\ ((s.dma # 0 /\ s.resetDMA) \/ (f /\ n \in Freeze))

LEMMA WriteEffect ==
  ASSUME Fixed, NEW s \in Call, NEW n \in Slot, NEW f \in BOOLEAN,
         NEW u, u = Write(s, n, f)
  PROVE  /\ u \in Call /\ u.dma = s.dma /\ SameLocals(u, s) /\ s.dma + address[n] \in Nat
         /\ IF Kind[n] \in {"plain", "cwc"} /\ s.dma + address[n] <= Top /\ ~s.NULLPOINTER
              THEN LET a == s.dma + address[n]
                   IN /\ a \in Word
                      /\ u.std = (IF Backup(s, n, f) THEN [s.std EXCEPT ![n] = s.mem[a]] ELSE s.std)
                      /\ u.hak = (IF Backup(s, n, f) /\ n \in Freeze
                                    THEN [s.hak EXCEPT ![n] = s.mem[a]] ELSE s.hak)
                      /\ u.mem = [s.mem EXCEPT ![a] = u.hak[n]]
              ELSE u.mem = s.mem /\ u.std = s.std /\ u.hak = s.hak
<1> DEFINE a == s.dma + address[n]
           std == IF Backup(s, n, f) THEN [s.std EXCEPT ![n] = s.mem[a]] ELSE s.std
           hak == IF Backup(s, n, f) /\ n \in Freeze THEN [s.hak EXCEPT ![n] = s.mem[a]] ELSE s.hak
<1>1. u \in Call
  BY WriteType
<1>2. a \in Nat /\ (a <= Top => a \in Word)
  BY Numbers DEF Call, Fixed
<1>3. u = IF Kind[n] \in {"plain", "cwc"} /\ a <= Top /\ ~s.NULLPOINTER
            THEN [s EXCEPT !.std = std, !.hak = hak, !.mem[a] = hak[n]]
            ELSE s
  BY DEF Write, Backup
<1> HIDE DEF a, std, hak
<1>4. /\ u.dma = s.dma /\ SameLocals(u, s)
      /\ IF Kind[n] \in {"plain", "cwc"} /\ a <= Top /\ ~s.NULLPOINTER
           THEN u.std = std /\ u.hak = hak /\ u.mem = [s.mem EXCEPT ![a] = hak[n]]
           ELSE u.mem = s.mem /\ u.std = s.std /\ u.hak = s.hak
  BY <1>3 DEF Call, SameLocals
<1> QED  BY <1>1, <1>2, <1>4 DEF a, std, hak

-----------------------------------------------------------------------------
(* Where a call of cheat c is: at one of its lines, or behind them.        *)
InCall(t, c) == t \in Call /\ t.at \in Start[c] .. End[c]

(* The line a round of cheatEnable works on.                               *)
LineAt(t) == IF Kind[t.at] = "joker" THEN t.at + 1 ELSE t.at

(* u is t moved behind line n; only a joker line can have set joker.       *)
Moved(u, t, n) ==
  /\ u \in Call /\ u.at = n + 1
  /\ u.mem = t.mem /\ u.std = t.std /\ u.hak = t.hak /\ u.dma = t.dma
  /\ u.resetDMA = t.resetDMA /\ u.NULLPOINTER = t.NULLPOINTER
  /\ (n = t.at => u.joker = t.joker)

LEMMA EnableEffect ==
  ASSUME Fixed, JokersLead, NEW c \in Cheat, NEW t \in Call, t.at \in LinesOf(c), NEW f \in BOOLEAN
  PROVE  /\ LineAt(t) \in LinesOf(c) /\ LineAt(t) \in Slot
         /\ \E u : /\ Moved(u, t, LineAt(t))
                   /\ \/ LineAt(t) \in Pointers /\ EnableLine(t, f) = FollowPointer(u, LineAt(t))
                      \/ Kind[LineAt(t)] # "pointer" /\ u.joker /\ EnableLine(t, f) = Restore(u, LineAt(t), Top)
                      \/ Kind[LineAt(t)] # "pointer" /\ ~u.joker /\ EnableLine(t, f) = Write(u, LineAt(t), f)
<1> DEFINE isJoker == Kind[t.at] = "joker"
           n == IF isJoker THEN t.at + 1 ELSE t.at
           j == t.joker \/ (isJoker /\ t.at \notin held)
           u == [t EXCEPT !.at = n + 1, !.joker = j]
<1>1. n \in LinesOf(c) /\ n \in Slot /\ n \in Nat
  BY Numbers DEF JokersLead, LinesOf
<1>2. EnableLine(t, f) = IF n \notin Slot THEN u
     ELSE IF Kind[n] = "pointer" THEN FollowPointer(u, n)
     ELSE IF u.joker THEN Restore(u, n, Top)
     ELSE Write(u, n, f)
  BY DEF EnableLine
<1>3. n = t.at => (j <=> t.joker)
  BY DEF Call, LinesOf
<1>4. j \in BOOLEAN /\ t.joker \in BOOLEAN
  BY DEF Call
<1>5. n = t.at => j = t.joker
  BY <1>3, <1>4
<1>6. LineAt(t) = n
  BY DEF LineAt
<1> HIDE DEF n, j
<1>7. Moved(u, t, n)
  <2>1. u \in Call
    <3>1. n + 1 \in Nat
      BY <1>1
    <3>2. j \in BOOLEAN
      BY <1>4
    <3> QED  BY <3>1, <3>2 DEF Call
  <2>2. /\ u.at = n + 1 /\ u.joker = j
        /\ u.mem = t.mem /\ u.std = t.std /\ u.hak = t.hak /\ u.dma = t.dma
        /\ u.resetDMA = t.resetDMA /\ u.NULLPOINTER = t.NULLPOINTER
    BY DEF Call
  <2> HIDE DEF u
  <2> QED  BY <1>5, <2>1, <2>2 DEF Moved
<1> HIDE DEF u
<1>8. n \in Pointers <=> Kind[n] = "pointer"
  BY <1>1 DEF Pointers
<1> QED  BY <1>1, <1>2, <1>6, <1>7, <1>8

LEMMA RoundIn ==
  ASSUME Fixed, JokersLead, NEW c \in Cheat, NEW t, InCall(t, c), NEW f \in BOOLEAN,
         t.at \in LinesOf(c)
  PROVE  /\ InCall(EnableLine(t, f), c) /\ EnableLine(t, f).at = LineAt(t) + 1
<1>1. t \in Call /\ LineAt(t) \in LinesOf(c) /\ t.at \in Slot
  BY EnableEffect, Numbers DEF InCall, LinesOf
<1>2. EnableLine(t, f) \in Call
  BY <1>1, EnableLineType
<1>3. EnableLine(t, f).at = IF Kind[t.at] = "joker" THEN t.at + 2 ELSE t.at + 1
  BY <1>1, EnableLineAt
<1>4. EnableLine(t, f).at = LineAt(t) + 1
  BY <1>1, <1>3 DEF LineAt, Call
<1>5. LineAt(t) + 1 \in Start[c] .. End[c]
  BY <1>1, Numbers DEF LinesOf
<1> QED  BY <1>2, <1>4, <1>5 DEF InCall

(* Over the rounds of a call.                                              *)
LEMMA EnableProgress ==
  ASSUME Fixed, JokersLead, NEW c \in Cheat, NEW f \in BOOLEAN, NEW s \in State,
         NEW r \in [0 .. Length[c] -> Call], r[0] = Enter(s, c),
         \A i \in 1 .. Length[c] : r[i] = EnableRound(r[i - 1], c, f)
  PROVE  /\ \A i \in 0 .. Length[c] : InCall(r[i], c)
         /\ r[Length[c]].at = End[c]
<1> DEFINE T == {i \in 0 .. Length[c] : InCall(r[i], c) /\ (r[i].at >= Start[c] + i \/ r[i].at = End[c])}
<1>1. Length[c] \in Nat /\ Start[c] \in Nat /\ End[c] = Start[c] + Length[c]
  BY Numbers
<1>2. 0 \in T
  <2>1. 0 \in 0 .. Length[c] /\ r[0] \in Call
    BY <1>1
  <2>2. r[0].at = Start[c]
    BY DEF Enter
  <2> QED  BY <1>1, <2>1, <2>2 DEF InCall
<1>3. ASSUME NEW i \in 1 .. Length[c], i - 1 \in T PROVE i \in T
  <2> DEFINE t == r[i - 1]
  <2>1. InCall(t, c) /\ (t.at >= Start[c] + (i - 1) \/ t.at = End[c]) /\ r[i] = EnableRound(t, c, f)
    BY <1>3
  <2> HIDE DEF t
  <2>2. CASE t.at < End[c]
    <3>1. t.at \in LinesOf(c) /\ t.at \in Nat
      BY <1>1, <2>1, <2>2 DEF InCall, LinesOf
    <3>2. InCall(r[i], c) /\ r[i].at = LineAt(t) + 1
      BY <2>1, <2>2, <3>1, RoundIn DEF EnableRound
    <3>3. r[i].at >= Start[c] + i \/ r[i].at = End[c]
      BY <1>1, <2>1, <2>2, <3>1, <3>2 DEF LineAt, InCall
    <3> QED  BY <3>2, <3>3
  <2>3. CASE ~(t.at < End[c])
    <3>1. t.at \in Nat /\ End[c] \in Nat /\ t.at <= End[c]
      BY <1>1, <2>1 DEF InCall
    <3>2. t.at = End[c]
      BY <2>3, <3>1
    <3> QED  BY <2>1, <2>3, <3>2 DEF EnableRound
  <2> QED  BY <2>2, <2>3
<1>4. 0 .. Length[c] \subseteq T
  <2> HIDE DEF T
  <2> QED  BY <1>1, <1>2, <1>3, SetInduction
<1>5. Length[c] \in T
  BY <1>1, <1>4
<1>6. r[Length[c]].at = End[c]
  <2> DEFINE k == r[Length[c]].at
  <2>1. k \in Start[c] .. End[c] /\ (k >= Start[c] + Length[c] \/ k = End[c])
    BY <1>5 DEF InCall
  <2> HIDE DEF k
  <2>2. k = End[c]
    BY <1>1, <2>1
  <2> QED  BY <2>2 DEF k
<1> QED  BY <1>4, <1>6
-----------------------------------------------------------------------------
(* The induction over the rounds of a call, over the walk of the trigger   *)
(* and over the cheats, once for every property of a state: G is the set   *)
(* of the states that have it, or one set for every round.                 *)
LEMMA EnableInvariant ==
  ASSUME Fixed, JokersLead, NEW c \in Cheat, NEW f \in BOOLEAN, NEW s \in State,
         NEW G, Enter(s, c) \in G,
         \A t \in G : InCall(t, c) /\ t.at \in LinesOf(c) => EnableLine(t, f) \in G
  PROVE  \E t \in G : InCall(t, c) /\ t.at = End[c] /\ cheatEnable(s, c, f) = Leave(t)
<1>1. Length[c] \in Nat
  BY Numbers
<1>2. PICK r \in [0 .. Length[c] -> Call] :
           /\ r[0] = Enter(s, c)
           /\ \A i \in 1 .. Length[c] : r[i] = EnableRound(r[i - 1], c, f)
           /\ cheatEnable(s, c, f) = Leave(r[Length[c]])
  BY EnableRounds
<1>3. (\A i \in 0 .. Length[c] : InCall(r[i], c)) /\ r[Length[c]].at = End[c]
  BY <1>2, EnableProgress
<1> DEFINE T == {i \in 0 .. Length[c] : r[i] \in G}
<1>4. 0 \in T
  BY <1>1, <1>2
<1>5. ASSUME NEW i \in 1 .. Length[c], i - 1 \in T PROVE i \in T
  <2> DEFINE t == r[i - 1]
  <2>1. InCall(t, c) /\ t \in G /\ r[i] = EnableRound(t, c, f) /\ i \in 0 .. Length[c]
    <3>1. i - 1 \in 0 .. Length[c] /\ i \in 0 .. Length[c]
      BY <1>1
    <3> QED  BY <1>2, <1>3, <1>5, <3>1
  <2> HIDE DEF t
  <2>2. t.at < End[c] => t.at \in LinesOf(c)
    BY <2>1, Numbers DEF InCall, LinesOf
  <2> QED  BY <2>1, <2>2 DEF EnableRound
<1>6. Length[c] \in T
  <2> HIDE DEF T
  <2>1. 0 .. Length[c] \subseteq T
    BY <1>1, <1>4, <1>5, SetInduction
  <2> QED  BY <1>1, <2>1
<1> QED  BY <1>2, <1>3, <1>6

LEMMA DisableInvariant ==
  ASSUME Fixed, NEW c \in Cheat, NEW s \in State, NEW G, Enter(s, c) \in G,
         \A t \in G : InCall(t, c) /\ t.at \in LinesOf(c) => DisableLine(t) \in G
  PROVE  \E t \in G : InCall(t, c) /\ t.at = End[c] /\ cheatDisable(s, c) = Leave(t)
<1>1. Length[c] \in Nat /\ Start[c] \in Nat /\ End[c] = Start[c] + Length[c]
  BY Numbers
<1>2. PICK r \in [0 .. Length[c] -> Call] :
           /\ r[0] = Enter(s, c)
           /\ \A i \in 1 .. Length[c] : r[i] = DisableRound(r[i - 1], c)
           /\ cheatDisable(s, c) = Leave(r[Length[c]])
  BY DisableRounds
<1> DEFINE T == {i \in 0 .. Length[c] : r[i] \in G /\ r[i].at = Start[c] + i}
<1>4. 0 \in T
  <2>1. r[0].at = Start[c] + 0
    BY <1>1, <1>2 DEF Enter
  <2> QED  BY <1>1, <1>2, <2>1
<1>5. ASSUME NEW i \in 1 .. Length[c], i - 1 \in T PROVE i \in T
  <2> DEFINE t == r[i - 1]
  <2>1. /\ t \in Call /\ t \in G /\ t.at = Start[c] + (i - 1)
        /\ r[i] = DisableRound(t, c) /\ i \in 0 .. Length[c]
    <3>1. i - 1 \in 0 .. Length[c] /\ i \in 0 .. Length[c]
      BY <1>1
    <3> QED  BY <1>2, <1>5, <3>1
  <2> HIDE DEF t
  <2>2. t.at < End[c] /\ t.at \in LinesOf(c) /\ InCall(t, c)
    BY <1>1, <2>1 DEF LinesOf, InCall
  <2>3. t.at \in Slot
    BY <2>2, Numbers DEF LinesOf
  <2>4. DisableLine(t).at = t.at + 1
    BY <2>1, <2>3, DisableLineType
  <2>5. DisableLine(t) \in G /\ r[i] = DisableLine(t)
    BY <2>1, <2>2 DEF DisableRound
  <2>6. r[i].at = Start[c] + i
    BY <1>1, <2>1, <2>4, <2>5
  <2> QED  BY <2>1, <2>5, <2>6
<1>6. Length[c] \in T
  <2> HIDE DEF T
  <2>1. 0 .. Length[c] \subseteq T
    BY <1>1, <1>4, <1>5, SetInduction
  <2> QED  BY <1>1, <2>1
<1>7. r[Length[c]] \in Call /\ r[Length[c]].at = End[c] /\ r[Length[c]] \in G
  BY <1>1, <1>6
<1>8. InCall(r[Length[c]], c)
  BY <1>1, <1>7 DEF InCall
<1> QED  BY <1>2, <1>7, <1>8

LEMMA BackUpInvariant ==
  ASSUME Fixed, NEW s \in State, NEW G, s \in G[0],
         \A n \in Slot : \A t \in State : t \in G[n] => BackUpLine(t, n) \in G[n + 1]
  PROVE  BackUp(s) \in State /\ BackUp(s) \in G[Cardinality(Slot)]
<1> DEFINE L == Cardinality(Slot)
<1>1. L \in Nat
  BY Numbers
<1>2. PICK r \in [0 .. L -> State] :
           /\ r[0] = s
           /\ \A i \in 1 .. L : r[i] = BackUpLine(r[i - 1], i - 1)
           /\ BackUp(s) = r[L]
  BY BackUpRounds
<1> DEFINE T == {i \in 0 .. L : r[i] \in G[i]}
<1>3. 0 \in T
  BY <1>1, <1>2
<1>4. ASSUME NEW i \in 1 .. L, i - 1 \in T PROVE i \in T
  <2> DEFINE n == i - 1
  <2>1. n \in 0 .. L /\ i \in 0 .. L /\ n \in Slot /\ n + 1 = i
    BY <1>1, Numbers
  <2> HIDE DEF n
  <2>2. r[i] = BackUpLine(r[n], n) /\ r[n] \in G[n]
    BY <1>2, <1>4 DEF n
  <2> QED  BY <2>1, <2>2
<1>5. L \in T
  <2> HIDE DEF T, L
  <2>1. 0 .. L \subseteq T
    BY <1>1, <1>3, <1>4, SetInduction
  <2> QED  BY <1>1, <2>1
<1> QED  BY <1>1, <1>2, <1>5

LEMMA PressedInvariant ==
  ASSUME Fixed, Machine \in State, cheatStatus \in BOOLEAN, NEW G,
         (IF cheatSaved THEN Machine ELSE BackUp(Machine)) \in G[0],
         \A c \in Cheat : \A t \in State : t \in G[c] => PressCheat(t, c, ~cheatStatus) \in G[c + 1]
  PROVE  Pressed \in State /\ Pressed \in G[N]
<1>1. N \in Nat
  BY Numbers
<1>2. PICK r \in [0 .. N -> State] :
           /\ r[0] = (IF cheatSaved THEN Machine ELSE BackUp(Machine))
           /\ \A i \in 1 .. N : r[i] = PressCheat(r[i - 1], i - 1, ~cheatStatus)
           /\ Pressed = r[N]
  BY PressedRounds
<1> DEFINE T == {i \in 0 .. N : r[i] \in G[i]}
<1>3. 0 \in T
  BY <1>1, <1>2
<1>4. ASSUME NEW i \in 1 .. N, i - 1 \in T PROVE i \in T
  <2> DEFINE n == i - 1
  <2>1. n \in 0 .. N /\ i \in 0 .. N /\ n \in Cheat /\ n + 1 = i
    BY <1>1 DEF Cheat
  <2> HIDE DEF n
  <2>2. r[i] = PressCheat(r[n], n, ~cheatStatus) /\ r[n] \in G[n]
    BY <1>2, <1>4 DEF n
  <2> QED  BY <2>1, <2>2
<1>5. N \in T
  <2> HIDE DEF T
  <2>1. 0 .. N \subseteq T
    BY <1>1, <1>3, <1>4, SetInduction
  <2> QED  BY <1>1, <2>1
<1> QED  BY <1>1, <1>2, <1>5

LEMMA AppliedInvariant ==
  ASSUME Fixed, Machine \in State, NEW sel, NEW con, NEW fr, NEW G, Machine \in G[0],
         \A c \in Cheat : \A t \in State : t \in G[c] => ApplyFresh(t, c, sel, con, fr) \in G[c + 1]
  PROVE  Applied(sel, con, fr) \in State /\ Applied(sel, con, fr) \in G[N]
<1>1. N \in Nat
  BY Numbers
<1>2. PICK r \in [0 .. N -> State] :
           /\ r[0] = Machine
           /\ \A i \in 1 .. N : r[i] = ApplyFresh(r[i - 1], i - 1, sel, con, fr)
           /\ Applied(sel, con, fr) = r[N]
  BY AppliedRounds
<1> DEFINE T == {i \in 0 .. N : r[i] \in G[i]}
<1>3. 0 \in T
  BY <1>1, <1>2
<1>4. ASSUME NEW i \in 1 .. N, i - 1 \in T PROVE i \in T
  <2> DEFINE n == i - 1
  <2>1. n \in 0 .. N /\ i \in 0 .. N /\ n \in Cheat /\ n + 1 = i
    BY <1>1 DEF Cheat
  <2> HIDE DEF n
  <2>2. r[i] = ApplyFresh(r[n], n, sel, con, fr) /\ r[n] \in G[n]
    BY <1>2, <1>4 DEF n
  <2> QED  BY <2>1, <2>2
<1>5. N \in T
  <2> HIDE DEF T
  <2>1. 0 .. N \subseteq T
    BY <1>1, <1>3, <1>4, SetInduction
  <2> QED  BY <1>1, <2>1
<1> QED  BY <1>1, <1>2, <1>5

(* What the trigger's walk does at a line.                                 *)
LEMMA BackUpEffect ==
  ASSUME Fixed, NEW s \in State, NEW n \in Slot, NEW u, u = BackUpLine(s, n),
         NEW d, d = (IF \E c \in Cheat : Start[c] = n THEN 0 ELSE s.dma)
  PROVE  /\ u \in State /\ u.mem = s.mem /\ u.hak = s.hak
         /\ \A m \in Slot : m # n => u.std[m] = s.std[m]
         /\ u.dma = (IF Kind[n] = "pointer" THEN pointer[n] ELSE d)
         /\ Kind[n] = "pointer" =>
              u.std[n] = (IF Low <= pointer[n] /\ pointer[n] < Top
                            THEN Base(pointer[n]) ELSE s.std[n])
         /\ Kind[n] # "pointer" =>
              IF Kind[n] # "joker" /\ d + address[n] < Top
                THEN d + address[n] \in Word /\ u.std[n] = s.mem[d + address[n]]
                ELSE u.std[n] = s.std[n]
<1> DEFINE t == IF \E c \in Cheat : Start[c] = n THEN [s EXCEPT !.dma = 0] ELSE s
           a == t.dma + address[n]
<1>1. u \in State
  BY BackUpLineType
<1>2. t \in State /\ t.mem = s.mem /\ t.std = s.std /\ t.hak = s.hak /\ t.dma = d
  BY DEF State
<1>3. u = IF Kind[n] = "pointer"
              THEN [t EXCEPT !.dma = pointer[n],
                             !.std[n] = IF Low <= pointer[n] /\ pointer[n] < Top
                                          THEN Base(pointer[n]) ELSE @]
            ELSE IF Kind[n] # "joker" /\ a < Top THEN [t EXCEPT !.std[n] = s.mem[a]]
            ELSE t
  BY DEF BackUpLine
<1>4. a < Top => a \in Word
  BY <1>2, Numbers DEF State, Fixed
<1>5. a = d + address[n]
  BY <1>2
<1> HIDE DEF t, a
<1>6. CASE Kind[n] = "pointer"
  BY <1>1, <1>2, <1>3, <1>6 DEF State
<1>7. CASE Kind[n] # "pointer" /\ Kind[n] # "joker" /\ a < Top
  BY <1>1, <1>2, <1>3, <1>4, <1>5, <1>7 DEF State
<1>8. CASE Kind[n] # "pointer" /\ ~(Kind[n] # "joker" /\ a < Top)
  BY <1>1, <1>2, <1>3, <1>5, <1>8
<1> QED  BY <1>6, <1>7, <1>8

-----------------------------------------------------------------------------
(* The base and the word of a line by where the pointers lead now.         *)
Reached(c, n) == ReachedBy(pointer, c, n)
WordOf(c, n) == WordBy(pointer, address, c, n)
Apart == ApartBy(pointer, address)

(* The pointer in force at the next line of a cheat.                       *)
LEMMA PointersNext ==
  ASSUME NEW c \in Cheat
  PROVE  /\ PointersOf(c, Start[c]) = {}
         /\ \A n \in LinesOf(c) :
              PointersOf(c, n + 1) = IF Kind[n] = "pointer" THEN {n} ELSE PointersOf(c, n)
<1>1. Start[c] \in Nat /\ End[c] \in Nat /\ \A m \in LinesOf(c) : m \in Nat /\ m >= Start[c] /\ m \in Slot
  BY Numbers DEF LinesOf
<1>2. PointersOf(c, Start[c]) = {}
  BY <1>1 DEF PointersOf
<1>3. ASSUME NEW n \in LinesOf(c), Kind[n] = "pointer" PROVE PointersOf(c, n + 1) = {n}
  <2>1. n \in Pointers /\ n \in Nat /\ n + 1 .. (n + 1) - 1 = {}
    BY <1>1, <1>3 DEF Pointers
  <2>2. n \in PointersOf(c, n + 1)
    BY <2>1 DEF PointersOf
  <2>3. ASSUME NEW m \in PointersOf(c, n + 1), m # n PROVE FALSE
    <3>1. m \in Nat /\ m < n + 1 /\ m + 1 .. (n + 1) - 1 \cap Pointers = {}
      BY <1>1 DEF PointersOf
    <3>2. n \in m + 1 .. (n + 1) - 1
      BY <2>1, <2>3, <3>1
    <3> QED  BY <2>1, <3>1, <3>2
  <2> QED  BY <2>2, <2>3
<1>4. ASSUME NEW n \in LinesOf(c), Kind[n] # "pointer"
      PROVE  PointersOf(c, n + 1) = PointersOf(c, n)
  <2>1. n \notin Pointers /\ n \in Nat
    BY <1>1, <1>4 DEF Pointers
  <2>2. ASSUME NEW m \in LinesOf(c) \cap Pointers
        PROVE  (m < n + 1 /\ m + 1 .. (n + 1) - 1 \cap Pointers = {})
                 <=> (m < n /\ m + 1 .. n - 1 \cap Pointers = {})
    <3>1. m \in Nat /\ m # n
      BY <1>1, <2>1
    <3>2. m < n + 1 <=> m < n
      BY <2>1, <3>1
    <3>3. m < n => m + 1 .. (n + 1) - 1 = (m + 1 .. n - 1) \cup {n}
      BY <2>1, <3>1
    <3> QED  BY <2>1, <3>2, <3>3
  <2> QED  BY <2>2 DEF PointersOf
<1> QED  BY <1>2, <1>3, <1>4

LEMMA OwnBaseNext ==
  ASSUME NEW c \in Cheat
  PROVE  /\ OwnBase(c, Start[c]) = 0
         /\ \A n \in LinesOf(c) :
              OwnBase(c, n + 1) = IF Kind[n] = "pointer" THEN pointer[n] ELSE OwnBase(c, n)
<1>1. OwnBase(c, Start[c]) = 0
  BY PointersNext DEF OwnBase
<1>2. ASSUME NEW n \in LinesOf(c)
      PROVE  OwnBase(c, n + 1) = IF Kind[n] = "pointer" THEN pointer[n] ELSE OwnBase(c, n)
  <2>1. CASE Kind[n] = "pointer"
    <3>1. PointersOf(c, n + 1) = {n}
      BY <2>1, PointersNext
    <3>2. (CHOOSE m \in PointersOf(c, n + 1) : TRUE) = n
      BY <3>1
    <3>3. PointersOf(c, n + 1) # {}
      BY <3>1
    <3>4. OwnBase(c, n + 1) = pointer[CHOOSE m \in PointersOf(c, n + 1) : TRUE]
      BY <3>3 DEF OwnBase
    <3> QED  BY <2>1, <3>2, <3>4
  <2>2. CASE Kind[n] # "pointer"
    <3>1. PointersOf(c, n + 1) = PointersOf(c, n)
      BY <2>2, PointersNext
    <3> DEFINE F(S) == IF S = {} THEN 0 ELSE pointer[CHOOSE m \in S : TRUE]
    <3>2. OwnBase(c, n + 1) = F(PointersOf(c, n + 1)) /\ OwnBase(c, n) = F(PointersOf(c, n))
      BY DEF OwnBase
    <3> HIDE DEF F
    <3> QED  BY <2>2, <3>1, <3>2
  <2> QED  BY <2>1, <2>2
<1> QED  BY <1>1, <1>2

(* The pointer in force is a pointer line before the line.                 *)
LEMMA PointersBefore ==
  ASSUME NEW c \in Cheat, NEW n, NEW p \in PointersOf(c, n)
  PROVE  p \in LinesOf(c) /\ p \in Pointers /\ p < n
BY DEF PointersOf

(* A joker that is stepped over has no say in the base.                    *)
LEMMA LineAtBase ==
  ASSUME JokersLead, NEW c \in Cheat, NEW t \in Call, t.at \in LinesOf(c)
  PROVE  /\ PointersOf(c, LineAt(t)) = PointersOf(c, t.at)
         /\ OwnBase(c, LineAt(t)) = OwnBase(c, t.at)
         /\ LineAt(t) >= t.at /\ t.at \in Nat /\ LineAt(t) \in Nat
<1>1. t.at \in Nat
  BY DEF Call
<1>2. CASE Kind[t.at] = "joker"
  <2> DEFINE n == LineAt(t)
  <2>1. n = t.at + 1 /\ Kind[t.at] # "pointer"
    BY <1>2 DEF LineAt
  <2>2. PointersOf(c, t.at + 1) = PointersOf(c, t.at) /\ OwnBase(c, t.at + 1) = OwnBase(c, t.at)
    BY <2>1, PointersNext, OwnBaseNext
  <2> HIDE DEF n
  <2>3. n >= t.at /\ n \in Nat
    BY <1>1, <2>1
  <2> QED  BY <1>1, <2>1, <2>2, <2>3 DEF n
<1>3. CASE Kind[t.at] # "joker"
  BY <1>1, <1>3 DEF LineAt
<1> QED  BY <1>2, <1>3

-----------------------------------------------------------------------------
(* Lines that freeze their word.  The filler of one is in its own hakVal   *)
(* or nowhere.                                                             *)
NoFiller(s) ==
  \A n \in Freeze :
    /\ \A a \in Word : s.mem[a] # Hack(n)
    /\ \A m \in Slot : s.std[m] # Hack(n) /\ (s.hak[m] = Hack(n) => m = n)

(* A cheat is frozen when its freezing lines keep what was read from the   *)
(* game, those apart that are behind a pointer that leads nowhere.         *)
Frozen(s, c) == \A n \in LinesOf(c) \cap Freeze : Reached(c, n) => s.hak[n] # Hack(n)
KeepsFrozen(s, u) == \A m \in Slot : s.hak[m] # Hack(m) => u.hak[m] # Hack(m)

LEMMA FrozenKept ==
  ASSUME NEW s, NEW u, KeepsFrozen(s, u), NEW c \in Cheat, Frozen(s, c)
  PROVE  Frozen(u, c)
<1>1. \A n \in LinesOf(c) : n \in Slot
  BY Numbers DEF LinesOf
<1> QED  BY <1>1 DEF Frozen, KeepsFrozen

LEMMA FollowFiller ==
  ASSUME Fixed, NEW s \in Call, NEW n \in Pointers, NoFiller(s)
  PROVE  NoFiller(FollowPointer(s, n)) /\ FollowPointer(s, n).hak = s.hak
<1> DEFINE u == FollowPointer(s, n)
<1>1. /\ u.mem = s.mem /\ u.hak = s.hak
      /\ u.std = s.std \/ u.std = [s.std EXCEPT ![n] = Base(pointer[n])]
  BY FollowEffect
<1> HIDE DEF u
<1>2. \A m \in Slot : u.std[m] = s.std[m] \/ u.std[m] = Base(pointer[n])
  BY <1>1 DEF Call
<1>3. \A k \in Freeze : Base(pointer[n]) # Hack(k)
  BY DEF Base, Hack
<1>4. NoFiller(u)
  BY <1>1, <1>2, <1>3 DEF NoFiller
<1> QED  BY <1>1, <1>4 DEF u

LEMMA RestoreFiller ==
  ASSUME Fixed, NEW s \in Call, NEW n \in Slot, NEW last \in Int, last <= Top, NoFiller(s)
  PROVE  NoFiller(Restore(s, n, last)) /\ Restore(s, n, last).hak = s.hak
<1> DEFINE u == Restore(s, n, last)
           a == s.dma + address[n]
<1>1. /\ u.std = s.std /\ u.hak = s.hak
      /\ u.mem = s.mem \/ u.mem = [s.mem EXCEPT ![a] = s.std[n]]
  BY RestoreEffect
<1> HIDE DEF u, a
<1>2. \A b \in Word : u.mem[b] = s.mem[b] \/ u.mem[b] = s.std[n]
  BY <1>1 DEF Call
<1>3. NoFiller(u)
  BY <1>1, <1>2 DEF NoFiller
<1> QED  BY <1>1, <1>3 DEF u

LEMMA WriteFiller ==
  ASSUME Fixed, NEW s \in Call, NEW n \in Slot, NEW f \in BOOLEAN, NoFiller(s),
         n \in Freeze => Backup(s, n, f) \/ s.hak[n] # Hack(n) \/ s.NULLPOINTER
  PROVE  /\ NoFiller(Write(s, n, f)) /\ KeepsFrozen(s, Write(s, n, f))
         /\ (n \in Freeze /\ f /\ Kind[n] = "plain" /\ s.dma + address[n] <= Top
             /\ ~s.NULLPOINTER)
              => Write(s, n, f).hak[n] # Hack(n)
<1> DEFINE u == Write(s, n, f)
           a == s.dma + address[n]
           written == Kind[n] \in {"plain", "cwc"} /\ a <= Top /\ ~s.NULLPOINTER
<1>1. IF written
        THEN /\ a \in Word
             /\ u.std = (IF Backup(s, n, f) THEN [s.std EXCEPT ![n] = s.mem[a]] ELSE s.std)
             /\ u.hak = (IF Backup(s, n, f) /\ n \in Freeze
                           THEN [s.hak EXCEPT ![n] = s.mem[a]] ELSE s.hak)
             /\ u.mem = [s.mem EXCEPT ![a] = u.hak[n]]
        ELSE u.mem = s.mem /\ u.std = s.std /\ u.hak = s.hak
  BY WriteEffect
<1> HIDE DEF u, a
<1>3. CASE ~written
  <2>1. NoFiller(u) /\ KeepsFrozen(s, u)
    BY <1>1, <1>3 DEF NoFiller, KeepsFrozen
  <2> QED  BY <1>3, <2>1 DEF u, a
<1>4. CASE written
  <2>1. /\ \A m \in Slot : u.std[m] = s.std[m] \/ u.std[m] = s.mem[a]
        /\ \A m \in Slot : m # n => u.hak[m] = s.hak[m]
        /\ u.hak[n] = IF Backup(s, n, f) /\ n \in Freeze THEN s.mem[a] ELSE s.hak[n]
        /\ \A b \in Word : u.mem[b] = s.mem[b] \/ u.mem[b] = u.hak[n]
        /\ a \in Word
    BY <1>1, <1>4 DEF Call
  <2>2. n \in Freeze => u.hak[n] # Hack(n)
    BY <1>4, <2>1 DEF NoFiller
  <2>3. \A k \in Freeze : u.hak[n] # Hack(k)
    <3>1. \A k \in Freeze : s.mem[a] # Hack(k) /\ (s.hak[n] = Hack(k) => n = k)
      BY <2>1 DEF NoFiller
    <3> QED  BY <2>1, <2>2, <3>1
  <2>4. NoFiller(u)
    BY <2>1, <2>3 DEF NoFiller
  <2>5. KeepsFrozen(s, u)
    BY <2>1, <2>2 DEF KeepsFrozen
  <2>6. Kind[n] = "plain" /\ f /\ n \in Freeze => Backup(s, n, f)
    BY DEF Backup
  <2> QED  BY <2>2, <2>4, <2>5 DEF u
<1> QED  BY <1>3, <1>4

(* The line a pass is at is switched off if no base leads to it.           *)
HeldBack(t, c) == t.at \in Freeze => t.NULLPOINTER \/ Reached(c, t.at)

(* A round of cheatEnable, in the call that switches the cheat on or over  *)
(* a cheat that is frozen already.                                         *)
LEMMA EnableLineFiller ==
  ASSUME Fixed, JokersLead, FrozenReached, NEW c \in Cheat, NEW t \in Call, t.at \in LinesOf(c),
         NEW f \in BOOLEAN, NoFiller(t), f \/ (Frozen(t, c) /\ HeldBack(t, c))
  PROVE  /\ NoFiller(EnableLine(t, f)) /\ KeepsFrozen(t, EnableLine(t, f))
         /\ (LineAt(t) \in Freeze /\ f /\ ~t.joker /\ t.dma + address[LineAt(t)] <= Top
             /\ ~t.NULLPOINTER)
              => EnableLine(t, f).hak[LineAt(t)] # Hack(LineAt(t))
<1> DEFINE n == LineAt(t)
<1>1. n \in LinesOf(c) /\ n \in Slot
  BY EnableEffect
<1>2. PICK u : /\ Moved(u, t, n)
               /\ \/ n \in Pointers /\ EnableLine(t, f) = FollowPointer(u, n)
                  \/ Kind[n] # "pointer" /\ u.joker /\ EnableLine(t, f) = Restore(u, n, Top)
                  \/ Kind[n] # "pointer" /\ ~u.joker /\ EnableLine(t, f) = Write(u, n, f)
  BY EnableEffect
<1>3. n \in Freeze => Kind[n] = "plain" /\ n = t.at
  <2> SUFFICES ASSUME n \in Freeze PROVE Kind[n] = "plain" /\ n = t.at
    OBVIOUS
  <2>1. Kind[n] = "plain" /\ \A m \in Start[c] .. n : Kind[m] # "joker"
    BY <1>1 DEF FrozenReached
  <2>2. n # t.at => t.at \in Start[c] .. n /\ Kind[t.at] = "joker"
    BY <1>1, Numbers DEF LineAt, LinesOf
  <2> QED  BY <2>1, <2>2
<1>4. NoFiller(u) /\ u \in Call
  BY <1>2 DEF Moved, NoFiller
<1> HIDE DEF n
<1>5. CASE n \in Pointers /\ EnableLine(t, f) = FollowPointer(u, n)
  <2>1. n \notin Freeze
    BY <1>3, <1>5 DEF Pointers
  <2> QED  BY <1>2, <1>4, <1>5, <2>1, FollowFiller DEF Moved, KeepsFrozen, n
<1>6. CASE Kind[n] # "pointer" /\ u.joker /\ EnableLine(t, f) = Restore(u, n, Top)
  <2>1. Top \in Int /\ Top <= Top
    BY Numbers
  <2>2. NoFiller(Restore(u, n, Top)) /\ Restore(u, n, Top).hak = u.hak
    BY <1>1, <1>4, <2>1, RestoreFiller
  <2>3. n \in Freeze => t.joker
    BY <1>2, <1>3, <1>6 DEF Moved
  <2> QED  BY <1>2, <1>6, <2>2, <2>3 DEF Moved, KeepsFrozen, n
<1>7. CASE Kind[n] # "pointer" /\ ~u.joker /\ EnableLine(t, f) = Write(u, n, f)
  <2>1. n \in Freeze => Backup(u, n, f) \/ u.hak[n] # Hack(n) \/ u.NULLPOINTER
    <3>1. CASE f
      BY <1>3, <3>1 DEF Backup
    <3>2. CASE Frozen(t, c) /\ HeldBack(t, c)
      BY <1>1, <1>2, <1>3, <3>2 DEF Frozen, HeldBack, Moved
    <3> QED  BY <3>1, <3>2
  <2>2. /\ NoFiller(Write(u, n, f)) /\ KeepsFrozen(u, Write(u, n, f))
        /\ (n \in Freeze /\ f /\ Kind[n] = "plain" /\ u.dma + address[n] <= Top /\ ~u.NULLPOINTER)
              => Write(u, n, f).hak[n] # Hack(n)
    BY <1>1, <1>4, <2>1, WriteFiller
  <2> QED  BY <1>2, <1>3, <1>7, <2>2 DEF Moved, KeepsFrozen, n
<1> QED  BY <1>2, <1>5, <1>6, <1>7

(* Addresses only ever become what the user may edit them to.              *)
Edited == \A n \in Slot : address[n] \in EditWords \cup {Address[n]}

(* The word of a line that freezes it is one of the memory.                *)
LEMMA FrozenWord ==
  ASSUME Fixed, FrozenReached, Edited, NEW c \in Cheat, NEW n \in LinesOf(c) \cap Freeze,
         Reached(c, n)
  PROVE  OwnBase(c, n) + address[n] <= Top
<1> DEFINE b == OwnBase(c, n)
<1>1. n \in Slot
  BY Numbers DEF LinesOf
<1>2. b \in OwnBases(c, n)
  <2>1. CASE PointersOf(c, n) = {}
    BY <2>1 DEF OwnBase, OwnBases
  <2>2. CASE PointersOf(c, n) # {}
    <3> DEFINE p == CHOOSE m \in PointersOf(c, n) : TRUE
    <3>1. p \in PointersOf(c, n)
      BY <2>2
    <3>2. b = pointer[p] /\ IsBase(pointer[p])
      BY <2>2 DEF OwnBase, Reached, ReachedBy, BaseBy
    <3> HIDE DEF p
    <3>3. pointer[p] \in Bases
      BY <3>1 DEF Fixed, PointersOf
    <3> QED  BY <2>2, <3>2, <3>3 DEF OwnBases
  <2> QED  BY <2>1, <2>2
<1> HIDE DEF b
<1>3. b + address[n] <= Top
  BY <1>1, <1>2 DEF Edited, FrozenReached
<1> QED  BY <1>3 DEF b

(* The call that switches a cheat on leaves every line that freezes, and   *)
(* that a base leads to, with a value of the game: it was not switched off *)
(* before, because its cheat's one pointer before it is the one in force.  *)
BadPointer(c, n) == \E p \in LinesOf(c) \cap Pointers : p < n /\ ~IsBase(pointer[p])
Freezing(t, c) ==
  /\ t.dma = OwnBase(c, t.at) /\ (t.NULLPOINTER => BadPointer(c, t.at))
  /\ \A n \in LinesOf(c) \cap Freeze :
       IF n < t.at THEN Reached(c, n) => t.hak[n] # Hack(n) ELSE ~t.joker

LEMMA OnePointerBefore ==
  ASSUME FrozenReached, NEW c \in Cheat, NEW n \in LinesOf(c) \cap Freeze, BadPointer(c, n)
  PROVE  ~Reached(c, n)
<1>1. PICK p \in LinesOf(c) \cap Pointers : p < n /\ ~IsBase(pointer[p])
  BY DEF BadPointer
<1>2. \A q \in LinesOf(c) \cap Pointers : q < n => q = p
  BY <1>1 DEF FrozenReached
<1>3. n \in Nat /\ Start[c] \in Nat /\ End[c] \in Nat /\ p \in Nat /\ n < End[c] /\ p >= Start[c]
  BY Numbers DEF LinesOf
<1>4. p + 1 .. n - 1 \cap Pointers = {}
  <2> SUFFICES ASSUME NEW q \in p + 1 .. n - 1, q \in Pointers PROVE FALSE
    OBVIOUS
  <2>1. q \in LinesOf(c) /\ q < n /\ q # p
    BY <1>3 DEF LinesOf
  <2> QED  BY <1>2, <2>1
<1>5. PointersOf(c, n) = {p}
  BY <1>1, <1>2, <1>4 DEF PointersOf
<1>6. PointersOf(c, n) # {} /\ (CHOOSE m \in PointersOf(c, n) : TRUE) = p
  BY <1>5
<1> QED  BY <1>1, <1>6 DEF Reached, ReachedBy, BaseBy

LEMMA WriteLocals ==
  ASSUME NEW s \in Call, NEW n, NEW f
  PROVE  Write(s, n, f).dma = s.dma /\ SameLocals(Write(s, n, f), s)
<1> DEFINE u == Write(s, n, f)
<1>1. u = s \/ \E x, y, z : u = [s EXCEPT !.std = x, !.hak = y, !.mem = z]
  BY DEF Write
<1> HIDE DEF u
<1>2. u.dma = s.dma /\ SameLocals(u, s)
  BY <1>1 DEF Call, SameLocals
<1> QED  BY <1>2 DEF u

LEMMA FollowLocals ==
  ASSUME Fixed, NEW s \in Call, NEW n \in Pointers
  PROVE  /\ FollowPointer(s, n).joker = s.joker /\ FollowPointer(s, n).dma = pointer[n]
         /\ FollowPointer(s, n).NULLPOINTER => ~IsBase(pointer[n]) \/ s.NULLPOINTER
<1>1. PICK u : u = FollowPointer(s, n)
  OBVIOUS
<1>2. /\ u.joker = s.joker /\ u.dma = pointer[n]
      /\ u.NULLPOINTER => ~IsBase(pointer[n]) \/ s.NULLPOINTER
  BY <1>1 DEF FollowPointer, Call
<1> QED  BY <1>1, <1>2

LEMMA FreezingRound ==
  ASSUME Fixed, Edited, JokersLead, FrozenReached, NEW c \in Cheat, NEW t, InCall(t, c),
         t.at \in LinesOf(c), NoFiller(t), Freezing(t, c)
  PROVE  Freezing(EnableLine(t, TRUE), c)
<1> DEFINE n == LineAt(t)
           v == EnableLine(t, TRUE)
<1>1. n \in LinesOf(c) /\ n \in Slot /\ TRUE \in BOOLEAN /\ t \in Call
  BY EnableEffect DEF InCall
<1>2. v.at = n + 1 /\ NoFiller(v) /\ KeepsFrozen(t, v)
  BY <1>1, RoundIn, EnableLineFiller
<1> HIDE DEF v
<1>3. (n \in Freeze /\ ~t.joker /\ t.dma + address[n] <= Top /\ ~t.NULLPOINTER) => v.hak[n] # Hack(n)
  BY <1>1, EnableLineFiller DEF v
<1>4. /\ t.at \in Nat /\ (n = t.at \/ (n = t.at + 1 /\ Kind[t.at] = "joker"))
      /\ n \in Nat /\ n >= t.at
      /\ OwnBase(c, n) = OwnBase(c, t.at)
  BY <1>1, LineAtBase DEF LineAt, Call
<1>5. PICK u : /\ Moved(u, t, n)
               /\ \/ n \in Pointers /\ v = FollowPointer(u, n)
                  \/ Kind[n] # "pointer" /\ u.joker /\ v = Restore(u, n, Top)
                  \/ Kind[n] # "pointer" /\ ~u.joker /\ v = Write(u, n, TRUE)
  BY <1>1, EnableEffect DEF v
<1> HIDE DEF n
<1>6. /\ u \in Call /\ u.dma = t.dma /\ u.NULLPOINTER = t.NULLPOINTER /\ (n = t.at => u.joker = t.joker)
  BY <1>5 DEF Moved
<1>7. /\ v.joker = u.joker
      /\ \/ n \in Pointers /\ v.dma = pointer[n]
            /\ (v.NULLPOINTER => ~IsBase(pointer[n]) \/ u.NULLPOINTER)
         \/ Kind[n] # "pointer" /\ v.dma = u.dma /\ v.NULLPOINTER = u.NULLPOINTER
  <2>1. CASE n \in Pointers /\ v = FollowPointer(u, n)
    <3>1. /\ v.joker = u.joker /\ v.dma = pointer[n]
          /\ v.NULLPOINTER => ~IsBase(pointer[n]) \/ u.NULLPOINTER
      <4>1. v = FollowPointer(u, n)
        BY <2>1
      <4> QED  BY <1>6, <2>1, <4>1, FollowLocals
    <3> QED  BY <2>1, <3>1
  <2>2. CASE Kind[n] # "pointer" /\ u.joker /\ v = Restore(u, n, Top)
    <3>1. Top \in Int /\ Top <= Top
      BY Numbers
    <3>2. v.dma = u.dma /\ SameLocals(v, u)
      BY <1>1, <1>6, <2>2, <3>1, RestoreEffect
    <3> QED  BY <2>2, <3>2 DEF SameLocals
  <2>3. CASE Kind[n] # "pointer" /\ ~u.joker /\ v = Write(u, n, TRUE)
    <3>1. v.dma = u.dma /\ SameLocals(v, u)
      BY <1>6, <2>3, WriteLocals
    <3> QED  BY <2>3, <3>1 DEF SameLocals
  <2> QED  BY <1>5, <2>1, <2>2, <2>3
<1>8. v.dma = OwnBase(c, v.at)
  <2>1. OwnBase(c, n + 1) = IF Kind[n] = "pointer" THEN pointer[n] ELSE OwnBase(c, n)
    BY <1>1, OwnBaseNext
  <2> QED  BY <1>2, <1>4, <1>6, <1>7, <2>1 DEF Freezing, Pointers
<1>9. v.NULLPOINTER => BadPointer(c, v.at)
  <2> SUFFICES ASSUME v.NULLPOINTER PROVE BadPointer(c, v.at)
    OBVIOUS
  <2>1. CASE n \in Pointers /\ ~IsBase(pointer[n])
    <3>1. n < v.at
      BY <1>2, <1>4
    <3> QED  BY <1>1, <2>1, <3>1 DEF BadPointer
  <2>2. CASE t.NULLPOINTER
    <3>1. PICK p \in LinesOf(c) \cap Pointers : p < t.at /\ ~IsBase(pointer[p])
      BY <2>2 DEF Freezing, BadPointer
    <3>2. p \in Int
      BY Numbers DEF LinesOf
    <3>3. p < v.at
      BY <1>2, <1>4, <3>1, <3>2
    <3> QED  BY <3>1, <3>3 DEF BadPointer
  <2> QED  BY <1>6, <1>7, <2>1, <2>2
<1> SUFFICES ASSUME NEW k \in LinesOf(c) \cap Freeze
             PROVE  IF k < v.at THEN Reached(c, k) => v.hak[k] # Hack(k) ELSE ~v.joker
  BY <1>8, <1>9 DEF Freezing, v
<1>10. k \in Slot /\ k \in Nat /\ k >= Start[c] /\ Start[c] \in Nat
  BY Numbers DEF LinesOf
<1>11. CASE k < t.at
  <2>1. k < v.at /\ (Reached(c, k) => t.hak[k] # Hack(k))
    BY <1>2, <1>4, <1>10, <1>11 DEF Freezing
  <2> QED  BY <1>2, <1>10, <2>1 DEF KeepsFrozen
<1>12. CASE k >= t.at
  <2>1. ~t.joker
    BY <1>4, <1>10, <1>12 DEF Freezing
  <2>2. Kind[k] = "plain" /\ \A m \in Start[c] .. k : Kind[m] # "joker"
    BY DEF FrozenReached
  <2>3. t.at \in Start[c] .. k
    BY <1>4, <1>10, <1>12, Numbers DEF LinesOf
  <2>4. n = t.at
    BY <1>4, <2>2, <2>3
  <2>5. CASE k = n
    <3>1. ASSUME Reached(c, k) PROVE v.hak[k] # Hack(k)
      <4>1. ~t.NULLPOINTER
        BY <2>4, <2>5, <3>1, OnePointerBefore DEF Freezing
      <4>2. t.dma + address[n] <= Top
        BY <2>4, <2>5, <3>1, FrozenWord DEF Freezing
      <4> QED  BY <1>3, <2>1, <2>5, <4>1, <4>2
    <3> QED  BY <1>2, <1>10, <2>5, <3>1
  <2>6. CASE k # n
    <3>1. ~(k < v.at)
      BY <1>2, <1>4, <1>10, <1>12, <2>4, <2>6
    <3> QED  BY <1>6, <1>7, <2>1, <2>4, <3>1
  <2> QED  BY <2>5, <2>6
<1> QED  BY <1>4, <1>10, <1>11, <1>12

LEMMA EnableFreezes ==
  ASSUME Fixed, Edited, JokersLead, FrozenReached, NEW c \in Cheat, NEW s \in State, NoFiller(s)
  PROVE  /\ NoFiller(cheatEnable(s, c, TRUE)) /\ KeepsFrozen(s, cheatEnable(s, c, TRUE))
         /\ Frozen(cheatEnable(s, c, TRUE), c)
<1> DEFINE G == {t \in Call : NoFiller(t) /\ KeepsFrozen(s, t) /\ Freezing(t, c)}
<1>1. Enter(s, c) \in G
  <2> DEFINE e == Enter(s, c)
  <2>1. /\ e.mem = s.mem /\ e.std = s.std /\ e.hak = s.hak /\ e.at = Start[c] /\ e \in Call
        /\ ~e.joker /\ e.dma = 0 /\ ~e.NULLPOINTER
    BY EnterType DEF Enter
  <2> HIDE DEF e
  <2>2. NoFiller(e) /\ KeepsFrozen(s, e)
    BY <2>1 DEF NoFiller, KeepsFrozen
  <2>3. Freezing(e, c)
    BY <2>1, Numbers, OwnBaseNext DEF Freezing, LinesOf
  <2> QED  BY <2>1, <2>2, <2>3 DEF e
<1>2. ASSUME NEW t \in G, InCall(t, c), t.at \in LinesOf(c) PROVE EnableLine(t, TRUE) \in G
  <2>1. TRUE \in BOOLEAN /\ t \in Call /\ t.at \in Slot
    BY <1>2, Numbers DEF LinesOf
  <2>2. EnableLine(t, TRUE) \in Call
    BY <2>1, EnableLineType
  <2>3. NoFiller(EnableLine(t, TRUE)) /\ KeepsFrozen(t, EnableLine(t, TRUE))
    BY <1>2, <2>1, EnableLineFiller
  <2>4. Freezing(EnableLine(t, TRUE), c)
    BY <1>2, FreezingRound
  <2> QED  BY <2>2, <2>3, <2>4 DEF KeepsFrozen
<1>3. TRUE \in BOOLEAN
  OBVIOUS
<1>4. PICK u \in G : u.at = End[c] /\ cheatEnable(s, c, TRUE) = Leave(u)
  <2> HIDE DEF G
  <2> QED  BY <1>1, <1>2, <1>3, EnableInvariant
<1>5. Leave(u).mem = u.mem /\ Leave(u).std = u.std /\ Leave(u).hak = u.hak
  BY DEF Leave
<1>6. NoFiller(Leave(u)) /\ KeepsFrozen(s, Leave(u))
  BY <1>5 DEF NoFiller, KeepsFrozen
<1>7. Frozen(Leave(u), c)
  BY <1>4, <1>5, Numbers DEF Frozen, Freezing, LinesOf
<1> QED  BY <1>4, <1>6, <1>7

LEMMA DisableFiller ==
  ASSUME Fixed, NEW c \in Cheat, NEW s \in State, NoFiller(s)
  PROVE  NoFiller(cheatDisable(s, c)) /\ KeepsFrozen(s, cheatDisable(s, c))
<1> DEFINE G == {t \in Call : NoFiller(t) /\ t.hak = s.hak}
<1>1. Enter(s, c) \in G
  BY EnterType DEF Enter, NoFiller
<1>2. ASSUME NEW t \in G, InCall(t, c), t.at \in LinesOf(c) PROVE DisableLine(t) \in G
  <2> DEFINE w == [t EXCEPT !.at = @ + 1]
  <2>1. t.at \in Slot /\ t \in Call
    BY <1>2, Numbers DEF LinesOf
  <2>2. w \in Call /\ w.mem = t.mem /\ w.std = t.std /\ w.hak = t.hak
    BY <2>1 DEF Call
  <2>3. NoFiller(w)
    BY <2>2 DEF NoFiller
  <2>4. DisableLine(t) = IF Kind[t.at] = "pointer" THEN FollowPointer(w, t.at)
                         ELSE Restore(w, t.at, Top - 1)
    BY DEF DisableLine
  <2>5. Top - 1 \in Int /\ Top - 1 <= Top
    BY Numbers
  <2> HIDE DEF w
  <2>6. NoFiller(DisableLine(t)) /\ DisableLine(t).hak = w.hak
    BY <2>1, <2>2, <2>3, <2>4, <2>5, FollowFiller, RestoreFiller DEF Pointers
  <2> QED  BY <2>1, <2>2, <2>6, DisableLineType
<1>3. PICK u \in G : cheatDisable(s, c) = Leave(u)
  <2> HIDE DEF G
  <2> QED  BY <1>1, <1>2, DisableInvariant
<1>4. Leave(u).mem = u.mem /\ Leave(u).std = u.std /\ Leave(u).hak = u.hak
  BY DEF Leave
<1>5. NoFiller(Leave(u)) /\ KeepsFrozen(s, Leave(u))
  BY <1>4 DEF NoFiller, KeepsFrozen
<1> QED  BY <1>3, <1>5


(* The trigger: the walk only reads the memory, and every cheat it         *)
(* switches on is frozen.                                                  *)
LEMMA BackUpFiller ==
  ASSUME Fixed, NEW s \in State, NoFiller(s)
  PROVE  NoFiller(BackUp(s)) /\ BackUp(s).hak = s.hak
<1> DEFINE P == {t \in State : NoFiller(t) /\ t.hak = s.hak}
           G == [n \in 0 .. Cardinality(Slot) |-> P]
<1>1. \A n \in Slot : n \in 0 .. Cardinality(Slot) /\ n + 1 \in 0 .. Cardinality(Slot)
  BY Numbers
<1>2. 0 \in 0 .. Cardinality(Slot) /\ Cardinality(Slot) \in 0 .. Cardinality(Slot)
  BY Numbers
<1>3. ASSUME NEW n \in Slot, NEW t \in P PROVE BackUpLine(t, n) \in P
  <2> DEFINE u == BackUpLine(t, n)
             d == IF \E c \in Cheat : Start[c] = n THEN 0 ELSE t.dma
  <2>1. /\ u \in State /\ u.mem = t.mem /\ u.hak = t.hak
        /\ \A m \in Slot : m # n => u.std[m] = t.std[m]
        /\ \/ u.std[n] = t.std[n]
           \/ u.std[n] = Base(pointer[n])
           \/ \E a \in Word : u.std[n] = t.mem[a]
    BY BackUpEffect
  <2> HIDE DEF u
  <2>2. \A b, k : Base(b) # Hack(k)
    BY DEF Base, Hack
  <2>3. NoFiller(u)
    BY <2>1, <2>2 DEF NoFiller
  <2> QED  BY <2>1, <2>3 DEF u
<1>4. /\ s \in G[0]
      /\ \A n \in Slot : \A t \in State : t \in G[n] => BackUpLine(t, n) \in G[n + 1]
  BY <1>1, <1>2, <1>3
<1> HIDE DEF G
<1>5. BackUp(s) \in G[Cardinality(Slot)]
  BY <1>4, BackUpInvariant
<1> QED  BY <1>2, <1>5 DEF G

LEMMA PressFiller ==
  ASSUME Fixed, Edited, JokersLead, FrozenReached, NEW c \in Cheat, NEW s \in State, NoFiller(s),
         NEW isOn \in BOOLEAN, NEW u, u = PressCheat(s, c, isOn)
  PROVE  /\ NoFiller(u) /\ KeepsFrozen(s, u)
         /\ (c \in constant /\ ~cheatSaved) \/ (c \in selected /\ isOn) => Frozen(u, c)
<1> DEFINE t == IF c \in constant /\ ~cheatSaved THEN cheatEnable(s, c, TRUE) ELSE s
<1>1. t \in State /\ NoFiller(t) /\ KeepsFrozen(s, t)
      /\ (c \in constant /\ ~cheatSaved => Frozen(t, c))
  <2>1. TRUE \in BOOLEAN /\ KeepsFrozen(s, s)
    BY DEF KeepsFrozen
  <2> QED  BY <2>1, CallType, EnableFreezes
<1>2. u = IF c \in selected
            THEN IF isOn THEN cheatEnable(t, c, TRUE) ELSE cheatDisable(t, c)
            ELSE t
  BY DEF PressCheat
<1> HIDE DEF t
<1>3. NoFiller(u) /\ KeepsFrozen(t, u) /\ (c \in selected /\ isOn => Frozen(u, c))
  <2>1. KeepsFrozen(t, t)
    BY DEF KeepsFrozen
  <2> QED  BY <1>1, <1>2, <2>1, EnableFreezes, DisableFiller
<1>4. KeepsFrozen(s, u)
  BY <1>1, <1>3 DEF KeepsFrozen
<1> QED  BY <1>1, <1>3, <1>4, FrozenKept

LEMMA PressedFiller ==
  ASSUME Fixed, Edited, JokersLead, FrozenReached, Machine \in State,
         cheatStatus \in BOOLEAN, NoFiller(Machine)
  PROVE  /\ NoFiller(Pressed) /\ KeepsFrozen(Machine, Pressed)
         /\ \A c \in Cheat : (c \in constant /\ ~cheatSaved) \/ (c \in selected /\ ~cheatStatus)
                               => Frozen(Pressed, c)
<1> DEFINE OnNow(c) == (c \in constant /\ ~cheatSaved) \/ (c \in selected /\ ~cheatStatus)
<1>1. N \in Nat /\ (~cheatStatus) \in BOOLEAN
  BY Numbers
<1>2. PICK r \in [0 .. N -> State] :
           /\ r[0] = (IF cheatSaved THEN Machine ELSE BackUp(Machine))
           /\ \A i \in 1 .. N : r[i] = PressCheat(r[i - 1], i - 1, ~cheatStatus)
           /\ Pressed = r[N]
  BY PressedRounds
<1> DEFINE T == {i \in 0 .. N : /\ NoFiller(r[i]) /\ KeepsFrozen(Machine, r[i])
                                /\ \A c \in Cheat : c < i /\ OnNow(c) => Frozen(r[i], c)}
<1>3. 0 \in T
  <2>1. NoFiller(r[0]) /\ r[0].hak = Machine.hak
    BY <1>2, BackUpFiller
  <2>2. \A c \in Cheat : ~(c < 0)
    BY <1>1 DEF Cheat
  <2>3. 0 \in 0 .. N
    BY <1>1
  <2> QED  BY <2>1, <2>2, <2>3 DEF KeepsFrozen
<1>4. ASSUME NEW i \in 1 .. N, i - 1 \in T PROVE i \in T
  <2> DEFINE d == i - 1
             x == r[d]
             y == r[i]
  <2>1. d \in Cheat /\ d \in 0 .. N /\ i \in 0 .. N
    BY <1>1 DEF Cheat
  <2>2. /\ x \in State /\ NoFiller(x) /\ KeepsFrozen(Machine, x)
        /\ \A c \in Cheat : c < d /\ OnNow(c) => Frozen(x, c)
        /\ y = PressCheat(x, d, ~cheatStatus)
    BY <1>2, <1>4, <2>1
  <2>3. \A c \in Cheat : c < i => c < d \/ c = d
    BY <1>1 DEF Cheat
  <2> HIDE DEF x, d
  <2>4. NoFiller(y) /\ KeepsFrozen(x, y) /\ (OnNow(d) => Frozen(y, d))
    <3> HIDE DEF y
    <3> QED  BY <1>1, <2>1, <2>2, PressFiller
  <2> HIDE DEF OnNow
  <2>5. \A c \in Cheat : c < i /\ OnNow(c) => Frozen(y, c)
    BY <2>2, <2>3, <2>4, FrozenKept
  <2>6. KeepsFrozen(Machine, y)
    BY <2>2, <2>4 DEF KeepsFrozen
  <2> QED  BY <2>1, <2>4, <2>5, <2>6
<1>5. N \in T
  <2> HIDE DEF T
  <2>1. 0 .. N \subseteq T
    BY <1>1, <1>3, <1>4, SetInduction
  <2> QED  BY <1>1, <2>1
<1>6. \A c \in Cheat : c < N
  BY <1>1 DEF Cheat
<1> QED  BY <1>2, <1>5, <1>6

(* cheatApply(0).                                                          *)
LEMMA AppliedFiller ==
  ASSUME Fixed, Edited, JokersLead, FrozenReached, Machine \in State, NoFiller(Machine),
         NEW sel, NEW con, NEW fr
  PROVE  /\ NoFiller(Applied(sel, con, fr)) /\ KeepsFrozen(Machine, Applied(sel, con, fr))
         /\ \A c \in Cheat : c \in fr /\ (c \in con \/ (cheatStatus /\ c \in sel))
                               => Frozen(Applied(sel, con, fr), c)
<1> DEFINE OnNow(c) == c \in fr /\ (c \in con \/ (cheatStatus /\ c \in sel))
<1>1. N \in Nat
  BY Numbers
<1>2. PICK r \in [0 .. N -> State] :
           /\ r[0] = Machine
           /\ \A i \in 1 .. N : r[i] = ApplyFresh(r[i - 1], i - 1, sel, con, fr)
           /\ Applied(sel, con, fr) = r[N]
  BY AppliedRounds
<1> DEFINE T == {i \in 0 .. N : /\ NoFiller(r[i]) /\ KeepsFrozen(Machine, r[i])
                                /\ \A c \in Cheat : c < i /\ OnNow(c) => Frozen(r[i], c)}
<1>3. 0 \in T
  <2>2. \A c \in Cheat : ~(c < 0)
    BY <1>1 DEF Cheat
  <2>3. 0 \in 0 .. N
    BY <1>1
  <2> QED  BY <1>2, <2>2, <2>3 DEF KeepsFrozen
<1>4. ASSUME NEW i \in 1 .. N, i - 1 \in T PROVE i \in T
  <2> DEFINE d == i - 1
             x == r[d]
             y == r[i]
  <2>1. d \in Cheat /\ d \in 0 .. N /\ i \in 0 .. N
    BY <1>1 DEF Cheat
  <2>2. /\ x \in State /\ NoFiller(x) /\ KeepsFrozen(Machine, x)
        /\ \A c \in Cheat : c < d /\ OnNow(c) => Frozen(x, c)
        /\ y = ApplyFresh(x, d, sel, con, fr)
    BY <1>2, <1>4, <2>1
  <2>3. \A c \in Cheat : c < i => c < d \/ c = d
    BY <1>1 DEF Cheat
  <2> HIDE DEF x, d, y
  <2>4. NoFiller(y) /\ KeepsFrozen(x, y) /\ (OnNow(d) => Frozen(y, d))
    <3>1. y = x \/ y = cheatEnable(x, d, TRUE) \/ y = cheatDisable(x, d)
      BY <2>2 DEF ApplyFresh
    <3>2. OnNow(d) => y = cheatEnable(x, d, TRUE)
      BY <2>2 DEF ApplyFresh
    <3>3. KeepsFrozen(x, x)
      BY DEF KeepsFrozen
    <3> HIDE DEF OnNow
    <3> QED  BY <2>1, <2>2, <3>1, <3>2, <3>3, EnableFreezes, DisableFiller
  <2> HIDE DEF OnNow
  <2>5. \A c \in Cheat : c < i /\ OnNow(c) => Frozen(y, c)
    BY <2>2, <2>3, <2>4, FrozenKept
  <2>6. KeepsFrozen(Machine, y)
    BY <2>2, <2>4 DEF KeepsFrozen
  <2> QED  BY <2>1, <2>4, <2>5, <2>6 DEF y
<1>5. N \in T
  <2> HIDE DEF T
  <2>1. 0 .. N \subseteq T
    BY <1>1, <1>3, <1>4, SetInduction
  <2> QED  BY <1>1, <2>1
<1>6. \A c \in Cheat : c < N
  BY <1>1 DEF Cheat
<1> QED  BY <1>2, <1>5, <1>6


(* The cheats whose lines mainThread may come to write: passOn is the      *)
(* cheatStatus its pass goes by.                                           *)
Live(c) == c \in constant \/ (c \in selected /\ (cheatStatus \/ passOn))

PassFlags ==
  /\ pc \in {"loop", "menu"} => ~passOn
  /\ pc = "enable" => On(cur, passOn)
  /\ pc \in {"pass", "enable"} => cheatSaved

(* The pass does not write what its pointer does not lead to.              *)
PassHeld == "move" \notin Uses /\ pc = "enable" => run.NULLPOINTER \/ Reached(cur, run.at)

FreezeInv ==
  /\ TypeInv /\ PassFlags /\ NoFiller(Machine) /\ Edited /\ PassHeld
  /\ cheatSaved => \A c \in Cheat : Live(c) => Frozen(Machine, c)

LEMMA MachineSame ==
  ASSUME UNCHANGED <<mem, stdVal, hakVal>>
  PROVE  (NoFiller(Machine) => NoFiller(Machine)') /\ KeepsFrozen(Machine, Machine')
BY DEF NoFiller, KeepsFrozen, Machine

LEMMA BecomesFiller ==
  ASSUME NEW s, Becomes(s), NoFiller(s), KeepsFrozen(Machine, s)
  PROVE  /\ NoFiller(Machine)' /\ KeepsFrozen(Machine, Machine')
         /\ \A c : Frozen(s, c) => Frozen(Machine', c)
<1>1. Machine'.mem = s.mem /\ Machine'.std = s.std /\ Machine'.hak = s.hak
  BY DEF Becomes, Machine
<1> HIDE DEF Machine
<1> QED  BY <1>1 DEF NoFiller, KeepsFrozen, Frozen

LEMMA SameReached ==
  ASSUME UNCHANGED pointer
  PROVE  \A c, n : Reached(c, n)' <=> Reached(c, n)
BY DEF Reached, ReachedBy, BaseBy, IsBase, PointersOf, LinesOf, Start, End

LEMMA SamePass ==
  ASSUME UNCHANGED <<address, pointer, cur, run>>, pc' = "enable" => pc = "enable", Edited, PassHeld
  PROVE  Edited' /\ PassHeld'
BY SameReached DEF Edited, PassHeld

(* What a step must show: it writes no filler, unfreezes nothing, and      *)
(* freezes the cheats it makes live.                                       *)
LEMMA FreezeStep ==
  ASSUME FrozenReached, FreezeInv, TypeInv', PassFlags', NoFiller(Machine)',
         KeepsFrozen(Machine, Machine'), Edited', PassHeld', UNCHANGED pointer \/ "move" \in Uses,
         cheatSaved' => \A c \in Cheat :
           Live(c)' => (cheatSaved /\ Live(c)) \/ Frozen(Machine', c)
  PROVE  FreezeInv'
<1>1. cheatSaved' => \A c \in Cheat : Live(c)' => Frozen(Machine', c)
  BY FrozenKept DEF FreezeInv
<1>2. ASSUME NEW c \in Cheat, Frozen(Machine', c) PROVE Frozen(Machine, c)'
  <2>1. ASSUME NEW n \in LinesOf(c) \cap Freeze, Reached(c, n)' PROVE Reached(c, n)
    <3>1. CASE UNCHANGED pointer
      BY <2>1, <3>1, SameReached
    <3>2. CASE "move" \in Uses
      BY <3>2 DEF FrozenReached, Reached, ReachedBy
    <3> QED  BY <3>1, <3>2
  <2> HIDE DEF Machine
  <2>2. \A n \in LinesOf(c) \cap Freeze : Reached(c, n)' => Machine'.hak[n] # Hack(n)
    BY <1>2, <2>1 DEF Frozen
  <2> QED  BY <2>2 DEF Frozen, LinesOf, Start, End
<1> QED  BY <1>1, <1>2 DEF FreezeInv

LEMMA FreezeInit == Init => FreezeInv
<1> SUFFICES ASSUME Init PROVE FreezeInv
  OBVIOUS
<1>1. TypeInv
  BY InitType
<1>2. PassFlags /\ ~cheatSaved
  BY DEF Init, PassFlags
<1>3. \A a, b \in Slot : /\ Unset # Hack(b)
                         /\ Hack(a) = Hack(b) => a = b
  BY DEF Unset, Hack
<1>4. \A a \in Word, b \in Slot : Game(a) # Hack(b)
  BY DEF Game, Hack
<1>5. NoFiller(Machine)
  BY <1>3, <1>4, TableAssumption DEF NoFiller, Machine, Init
<1>6. Edited /\ PassHeld
  BY DEF Init, Edited, PassHeld
<1> QED  BY <1>1, <1>2, <1>5, <1>6 DEF FreezeInv

(* What a pass's line leaves of the pass.                                  *)
LEMMA HeldRound ==
  ASSUME Fixed, JokersLead, NEW c \in Cheat, NEW t, InCall(t, c), t.at \in LinesOf(c),
         NEW f \in BOOLEAN, t.NULLPOINTER \/ Reached(c, t.at),
         NEW v, v = EnableLine(t, f)
  PROVE  v.NULLPOINTER \/ Reached(c, v.at)
<1> DEFINE n == LineAt(t)
<1>1. n \in LinesOf(c) /\ n \in Slot /\ t \in Call
  BY EnableEffect DEF InCall
<1>2. v.at = n + 1
  BY RoundIn
<1>3. PICK u : /\ Moved(u, t, n)
               /\ \/ n \in Pointers /\ v = FollowPointer(u, n)
                  \/ Kind[n] # "pointer" /\ u.joker /\ v = Restore(u, n, Top)
                  \/ Kind[n] # "pointer" /\ ~u.joker /\ v = Write(u, n, f)
  BY <1>1, EnableEffect
<1>4. PointersOf(c, n) = PointersOf(c, t.at)
  BY <1>1, LineAtBase
<1> HIDE DEF n
<1>5. u \in Call /\ u.NULLPOINTER = t.NULLPOINTER
  BY <1>3 DEF Moved
<1>6. CASE n \in Pointers /\ v = FollowPointer(u, n)
  <2>1. v.NULLPOINTER \/ IsBase(pointer[n])
    BY <1>5, <1>6, FollowEffect
  <2>2. PointersOf(c, n + 1) = {n}
    BY <1>1, <1>6, PointersNext DEF Pointers
  <2>3. (CHOOSE m \in PointersOf(c, n + 1) : TRUE) = n
    BY <2>2
  <2> QED  BY <1>2, <2>1, <2>2, <2>3 DEF Reached, ReachedBy, BaseBy
<1>7. CASE Kind[n] # "pointer" /\ v.NULLPOINTER = u.NULLPOINTER
  <2>1. PointersOf(c, n + 1) = PointersOf(c, t.at)
    BY <1>1, <1>4, <1>7, PointersNext
  <2> QED  BY <1>2, <1>5, <2>1, <1>7 DEF Reached, ReachedBy, BaseBy
<1>8. CASE Kind[n] # "pointer" /\ u.joker /\ v = Restore(u, n, Top)
  <2>1. Top \in Int /\ Top <= Top
    BY Numbers
  <2>2. SameLocals(v, u)
    BY <1>1, <1>5, <1>8, <2>1, RestoreEffect
  <2> QED  BY <1>7, <1>8, <2>2 DEF SameLocals
<1>9. CASE Kind[n] # "pointer" /\ ~u.joker /\ v = Write(u, n, f)
  <2>1. SameLocals(v, u)
    BY <1>5, <1>9, WriteLocals
  <2> QED  BY <1>7, <1>9, <2>1 DEF SameLocals
<1> QED  BY <1>3, <1>6, <1>8, <1>9

LEMMA FreezeLine ==
  ASSUME JokersLead, FrozenReached, FreezeInv, PassLine, TypeInv'
  PROVE  FreezeInv'
<1> DEFINE t == [mem |-> mem, std |-> stdVal, hak |-> hakVal,
                 dma |-> cheatDMA, at |-> run.at,
                 resetDMA |-> run.resetDMA,
                 NULLPOINTER |-> run.NULLPOINTER,
                 joker |-> run.joker]
           f == cur \in fresh
           s == EnableLine(t, f)
<1>1. t \in Call /\ cur \in Cheat /\ Fixed /\ f \in BOOLEAN /\ t.at \in LinesOf(cur)
  <2>1. t \in Call /\ cur \in Cheat /\ run.at < End[cur] /\ Fixed /\ f \in BOOLEAN
    BY DEF PassLine, FreezeInv, TypeInv, TypeOK, Fixed, Call
  <2>2. run.at \in Start[cur] .. End[cur] - 1
    <3>1. run.at \in Nat /\ run.at >= Start[cur]
      BY DEF PassLine, FreezeInv, TypeInv, TypeOK
    <3> QED  BY <2>1, <3>1, Numbers
  <2> QED  BY <2>1, <2>2 DEF LinesOf
<1>2. Live(cur) /\ cheatSaved
  BY DEF FreezeInv, PassFlags, PassLine, On, Live
<1>3. NoFiller(t) /\ Frozen(t, cur) /\ HeldBack(t, cur)
  <2>1. NoFiller(t) /\ Frozen(t, cur)
    BY <1>1, <1>2 DEF FreezeInv, NoFiller, Frozen, Machine
  <2>2. t.NULLPOINTER = run.NULLPOINTER /\ t.at = run.at /\ pc = "enable"
    BY DEF PassLine
  <2>3. PassHeld
    BY DEF FreezeInv
  <2> HIDE DEF t
  <2>4. CASE "move" \notin Uses
    <3>1. run.NULLPOINTER \/ Reached(cur, run.at)
      BY <2>2, <2>3, <2>4 DEF PassHeld
    <3> QED  BY <2>1, <2>2, <3>1 DEF HeldBack
  <2>5. CASE "move" \in Uses
    <3>1. ASSUME t.at \in Freeze PROVE PointersOf(cur, t.at) = {}
      BY <1>1, <2>5, <3>1 DEF FrozenReached
    <3> QED  BY <2>1, <3>1 DEF HeldBack, Reached, ReachedBy
  <2> QED  BY <2>4, <2>5
<1>4. Becomes(s) /\ UNCHANGED <<game, address, flags, status, menuDrawn, pc, passOn, cur>>
  BY DEF PassLine
<1>5. t.hak = Machine.hak
  BY DEF Machine
<1> HIDE DEF t, f
<1>6. NoFiller(s) /\ KeepsFrozen(t, s)
  BY <1>1, <1>3, EnableLineFiller
<1> HIDE DEF s
<1>7. KeepsFrozen(Machine, s)
  BY <1>5, <1>6 DEF KeepsFrozen
<1>8. NoFiller(Machine)' /\ KeepsFrozen(Machine, Machine')
  BY <1>4, <1>6, <1>7, BecomesFiller
<1>9. PassFlags'
  BY <1>4 DEF FreezeInv, PassFlags, On, flags, status
<1>10. \A c \in Cheat : Live(c)' => Live(c)
  BY <1>4 DEF Live, flags, status
<1>11. PassHeld' /\ Edited' /\ UNCHANGED pointer
  <2>1. UNCHANGED pointer /\ Edited'
    BY <1>4 DEF game, FreezeInv, Edited
  <2>2. ASSUME "move" \notin Uses PROVE s.NULLPOINTER \/ Reached(cur, s.at)
    <3>1. t.NULLPOINTER = run.NULLPOINTER /\ t.at = run.at /\ pc = "enable"
      BY DEF PassLine, t
    <3>2. InCall(t, cur)
      BY <1>1, Numbers DEF InCall, LinesOf
    <3>3. t.NULLPOINTER \/ Reached(cur, t.at)
      BY <2>2, <3>1 DEF FreezeInv, PassHeld
    <3> QED  BY <1>1, <3>2, <3>3, HeldRound DEF s
  <2>3. run'.NULLPOINTER = s.NULLPOINTER /\ run'.at = s.at /\ cur' = cur
    BY DEF PassLine, s, t, f
  <2> QED  BY <2>1, <2>2, <2>3, SameReached DEF PassHeld
<1> QED  BY <1>2, <1>8, <1>9, <1>10, <1>11, FreezeStep

LEMMA FreezePass ==
  ASSUME FrozenReached, FreezeInv, TypeInv',
         EnterMenu \/ StartPass \/ PassCheat \/ PassCheatEnd \/ EndPass
  PROVE  FreezeInv'
<1>1. UNCHANGED <<mem, stdVal, hakVal, selected, constant, cheatStatus, cheatSaved>>
  BY DEF EnterMenu, StartPass, PassCheat, PassCheatEnd, EndPass, flags, status, lines
<1>2. NoFiller(Machine)' /\ KeepsFrozen(Machine, Machine')
  BY <1>1, MachineSame DEF FreezeInv
<1>3. PassFlags'
  BY <1>1 DEF EnterMenu, StartPass, PassCheat, PassCheatEnd, EndPass, FreezeInv, PassFlags, On
<1>4. \A c \in Cheat : Live(c)' => Live(c)
  BY <1>1 DEF EnterMenu, StartPass, PassCheat, PassCheatEnd, EndPass, Live
<1>5. Edited' /\ UNCHANGED pointer
  BY <1>1 DEF EnterMenu, StartPass, PassCheat, PassCheatEnd, EndPass, lines, game, FreezeInv, Edited
<1>6. PassHeld'
  <2> SUFFICES ASSUME pc' = "enable" PROVE Reached(cur', run'.at)
    BY <1>5, SameReached DEF PassHeld
  <2>1. PassCheat /\ cur \in Cheat /\ cur' = cur /\ run' = [NoRun EXCEPT !.at = Start[cur]]
    BY Numbers DEF EnterMenu, StartPass, PassCheat, PassCheatEnd, EndPass, Cheat, FreezeInv,
                   TypeInv, TypeOK
  <2>2. run'.at = Start[cur]
    BY <2>1 DEF NoRun
  <2>3. Reached(cur, Start[cur])
    BY <2>1, PointersNext DEF Reached, ReachedBy
  <2> QED  BY <2>1, <2>2, <2>3
<1> QED  BY <1>1, <1>2, <1>3, <1>4, <1>5, <1>6, FreezeStep

LEMMA FreezeTrigger ==
  ASSUME JokersLead, FrozenReached, FreezeInv, PressTrigger, TypeInv'
  PROVE  FreezeInv'
<1>1. Fixed /\ Machine \in State /\ cheatStatus \in BOOLEAN
  BY MachineType DEF FreezeInv, TypeInv, TypeOK
<1>2. /\ NoFiller(Pressed) /\ KeepsFrozen(Machine, Pressed)
      /\ \A c \in Cheat : (c \in constant /\ ~cheatSaved) \/ (c \in selected /\ ~cheatStatus)
                            => Frozen(Pressed, c)
  BY <1>1, PressedFiller DEF FreezeInv
<1>3. /\ Becomes(Pressed) /\ cheatStatus' = ~cheatStatus /\ cheatSaved'
      /\ UNCHANGED <<selected, constant, pc, passOn, cur>>
  BY DEF PressTrigger, main
<1>4. /\ NoFiller(Machine)' /\ KeepsFrozen(Machine, Machine')
      /\ \A c : Frozen(Pressed, c) => Frozen(Machine', c)
  BY <1>2, <1>3, BecomesFiller
<1>5. PassFlags'
  BY <1>3 DEF FreezeInv, PassFlags, On
<1>6. ~cheatSaved => ~passOn
  BY DEF FreezeInv, PassFlags, TypeInv, TypeOK
<1>7. \A c \in Cheat : Live(c)' => (cheatSaved /\ Live(c)) \/ Frozen(Machine', c)
  <2> SUFFICES ASSUME NEW c \in Cheat, Live(c)'
               PROVE  (cheatSaved /\ Live(c)) \/ Frozen(Machine', c)
    OBVIOUS
  <2>1. c \in constant \/ (c \in selected /\ (~cheatStatus \/ passOn))
    BY <1>3 DEF Live
  <2> QED  BY <1>2, <1>4, <1>6, <2>1 DEF Live
<1>8. UNCHANGED pointer /\ Edited' /\ PassHeld'
  <2>1. UNCHANGED <<address, pointer, cur, run, pc>>
    BY DEF PressTrigger, main, game
  <2> QED  BY <2>1, SamePass DEF FreezeInv
<1> QED  BY <1>3, <1>4, <1>5, <1>7, <1>8, FreezeStep

LEMMA FreezeToggle ==
  ASSUME JokersLead, FrozenReached, FreezeInv, TypeInv', pc = "menu", NEW c \in Cheat,
         NEW sel, NEW con, Toggle(sel, con, c),
         \A d \in Cheat : d # c => (d \in sel <=> d \in selected) /\ (d \in con <=> d \in constant)
  PROVE  FreezeInv'
<1> DEFINE fr == fresh \cup {c}
           u == Applied(sel, con, fr)
<1>1. Fixed /\ Machine \in State
  BY MachineType DEF FreezeInv
<1>2. /\ NoFiller(u) /\ KeepsFrozen(Machine, u)
      /\ \A d \in Cheat : d \in fr /\ (d \in con \/ (cheatStatus /\ d \in sel)) => Frozen(u, d)
  <2> HIDE DEF fr
  <2> QED  BY <1>1, AppliedFiller DEF FreezeInv
<1>3. /\ selected' = sel /\ constant' = con
      /\ UNCHANGED <<cheatStatus, cheatSaved, pc, passOn, cur>>
      /\ IF cheatSaved THEN Becomes(u) ELSE UNCHANGED <<mem, stdVal, hakVal>>
  BY DEF Toggle, main
<1>4. PassFlags' /\ ~passOn
  BY <1>3 DEF FreezeInv, PassFlags
<1>8. UNCHANGED pointer /\ Edited' /\ PassHeld'
  <2>1. UNCHANGED <<address, pointer, cur, run, pc>>
    BY DEF Toggle, main, game
  <2> QED  BY <2>1, SamePass DEF FreezeInv
<1>5. c \in fr
  OBVIOUS
<1> HIDE DEF u, fr
<1>6. CASE cheatSaved
  <2>1. /\ NoFiller(Machine)' /\ KeepsFrozen(Machine, Machine')
        /\ \A d : Frozen(u, d) => Frozen(Machine', d)
    BY <1>2, <1>3, <1>6, BecomesFiller
  <2>2. ASSUME NEW d \in Cheat, Live(d)' PROVE (cheatSaved /\ Live(d)) \/ Frozen(Machine', d)
    <3>1. d \in con \/ (cheatStatus /\ d \in sel)
      BY <1>3, <1>4, <2>2 DEF Live
    <3>2. CASE d = c
      BY <1>2, <1>5, <2>1, <3>1, <3>2
    <3>3. CASE d # c
      BY <1>6, <3>1, <3>3 DEF Live
    <3> QED  BY <3>2, <3>3
  <2> QED  BY <1>4, <1>8, <2>1, <2>2, FreezeStep
<1>7. CASE ~cheatSaved
  <2>1. NoFiller(Machine)' /\ KeepsFrozen(Machine, Machine')
    BY <1>3, <1>7, MachineSame DEF FreezeInv
  <2> QED  BY <1>3, <1>4, <1>7, <1>8, <2>1, FreezeStep
<1> QED  BY <1>6, <1>7

LEMMA FreezeEdit ==
  ASSUME FrozenReached, FreezeInv, TypeInv', NEW n \in Slot,
         EditValue(n) \/ \E w \in EditWords : EditAddress(n, w)
  PROVE  FreezeInv'
<1>1. UNCHANGED <<hakVal, selected, constant, cheatStatus, cheatSaved, pc, passOn, cur>>
  BY DEF EditValue, EditAddress, lines, flags, status, main
<1>2. \A a \in Word : mem'[a] = mem[a] \/ mem'[a] = stdVal[n]
  <2>1. mem' = TakenBack(n)
    BY DEF EditValue, EditAddress
  <2>2. mem \in [Word -> Value]
    BY DEF FreezeInv, TypeInv, TypeOK
  <2> QED  BY <2>1, <2>2 DEF TakenBack
<1>3. \A m \in Slot : stdVal'[m] = stdVal[m] \/ \E a \in Word : stdVal'[m] = mem'[a]
  <2>1. CASE EditValue(n)
    BY <2>1 DEF EditValue, lines
  <2>2. ASSUME NEW w \in EditWords, EditAddress(n, w)
        PROVE  \A m \in Slot : stdVal'[m] = stdVal[m] \/ \E a \in Word : stdVal'[m] = mem'[a]
    <3> DEFINE a == cheatDMA + w
    <3>1. stdVal' = NewBackup(n, a) /\ a \in Nat
      BY <2>2, Numbers, MemoryAssumption DEF EditAddress, FreezeInv, TypeInv, TypeOK
    <3> HIDE DEF a
    <3>2. Restorable(n, a) => a \in Word
      BY <3>1, Numbers DEF Restorable
    <3>3. stdVal \in [Slot -> Value]
      BY DEF FreezeInv, TypeInv, TypeOK
    <3> QED  BY <3>1, <3>2, <3>3 DEF NewBackup
  <2> QED  BY <2>1, <2>2
<1>4. NoFiller(Machine)'
  <2>1. \A k \in Freeze : \A a \in Word : mem'[a] # Hack(k)
    BY <1>2 DEF FreezeInv, NoFiller, Machine
  <2>2. \A k \in Freeze : \A m \in Slot : stdVal'[m] # Hack(k) /\ (hakVal'[m] = Hack(k) => m = k)
    BY <1>1, <1>3, <2>1 DEF FreezeInv, NoFiller, Machine
  <2> QED  BY <2>1, <2>2 DEF NoFiller, Machine
<1>5. KeepsFrozen(Machine, Machine')
  BY <1>1 DEF KeepsFrozen, Machine
<1>6. PassFlags'
  BY <1>1 DEF FreezeInv, PassFlags, On
<1>7. \A c \in Cheat : Live(c)' => Live(c)
  BY <1>1 DEF Live
<1>8. UNCHANGED pointer /\ Edited' /\ PassHeld'
  <2>1. UNCHANGED <<pointer, cur, run, pc>>
    BY DEF EditValue, EditAddress, main, game
  <2>2. \A m \in Slot : address'[m] = address[m] \/ address'[m] \in EditWords
    <3>1. address \in [Slot -> Word]
      BY DEF FreezeInv, TypeInv, TypeOK
    <3> QED  BY <3>1 DEF EditValue, EditAddress, lines
  <2> QED  BY <2>1, <2>2, SameReached DEF FreezeInv, Edited, PassHeld
<1> QED  BY <1>1, <1>4, <1>5, <1>6, <1>7, <1>8, FreezeStep

LEMMA FreezeNext ==
  ASSUME JokersLead, FrozenReached, FreezeInv, [Next]_vars
  PROVE  FreezeInv'
<1>1. TypeInv'
  BY NextType DEF FreezeInv
<1>2. CASE MainStep
  BY <1>1, <1>2, FreezePass, FreezeLine DEF MainStep
<1>3. CASE PressTrigger
  BY <1>1, <1>3, FreezeTrigger
<1>4. CASE Menu
  <2>1. ASSUME NEW c \in Cheat, ToggleSelected(c) PROVE FreezeInv'
    <3>1. /\ pc = "menu" /\ Toggle(Flip(selected, c), constant \ {c}, c)
          /\ \A d \in Cheat : d # c => /\ d \in Flip(selected, c) <=> d \in selected
                                       /\ d \in constant \ {c} <=> d \in constant
      BY <2>1 DEF ToggleSelected, Flip
    <3> QED  BY <1>1, <3>1, FreezeToggle
  <2>2. ASSUME NEW c \in Cheat, ToggleConstant(c) PROVE FreezeInv'
    <3>1. /\ pc = "menu" /\ Toggle(selected \ {c}, Flip(constant, c), c)
          /\ \A d \in Cheat : d # c => /\ d \in selected \ {c} <=> d \in selected
                                       /\ d \in Flip(constant, c) <=> d \in constant
      BY <2>2 DEF ToggleConstant, Flip
    <3> QED  BY <1>1, <3>1, FreezeToggle
  <2>3. CASE LeaveMenu
    <3>1. UNCHANGED <<mem, stdVal, hakVal, selected, constant, cheatStatus, cheatSaved, passOn>>
          /\ pc' = "loop" /\ pc = "menu"
      BY <2>3 DEF LeaveMenu, lines, flags, status
    <3>2. NoFiller(Machine)' /\ KeepsFrozen(Machine, Machine')
      BY <3>1, MachineSame DEF FreezeInv
    <3>3. PassFlags' /\ \A c \in Cheat : Live(c)' => Live(c)
      BY <3>1 DEF FreezeInv, PassFlags, Live
    <3>4. UNCHANGED <<address, pointer, cur, run>>
      BY <2>3 DEF LeaveMenu, lines, game
    <3>5. Edited' /\ PassHeld'
      BY <3>1, <3>4, SamePass DEF FreezeInv
    <3> QED  BY <1>1, <3>1, <3>2, <3>3, <3>4, <3>5, FreezeStep
  <2> QED  BY <1>1, <1>4, <2>1, <2>2, <2>3, FreezeEdit DEF Menu
<1>5. CASE PressMenu \/ GameStep \/ UNCHANGED vars
  <2>1. /\ UNCHANGED <<stdVal, hakVal, selected, constant, cheatStatus, cheatSaved, pc, passOn, cur>>
        /\ \/ UNCHANGED mem
           \/ \E a \in Word : mem' = [mem EXCEPT ![a] = Game(a)]
    BY <1>5 DEF PressMenu, GameStep, GameWrite, GameMove, HoldOrRelease, vars, lines, flags,
                status, main
  <2>2. \A a : \A k \in Freeze : Game(a) # Hack(k)
    BY DEF Game, Hack
  <2>3. mem \in [Word -> Value]
    BY DEF FreezeInv, TypeInv, TypeOK
  <2>4. NoFiller(Machine)' /\ KeepsFrozen(Machine, Machine')
    <3>1. \A k \in Freeze : \A a \in Word : mem'[a] # Hack(k)
      BY <2>1, <2>2, <2>3 DEF FreezeInv, NoFiller, Machine
    <3> QED  BY <2>1, <3>1 DEF FreezeInv, NoFiller, KeepsFrozen, Machine
  <2>5. PassFlags' /\ \A c \in Cheat : Live(c)' => Live(c)
    BY <2>1 DEF FreezeInv, PassFlags, Live, On
  <2>6. UNCHANGED <<address, cur, run>> /\ (UNCHANGED pointer \/ "move" \in Uses)
    BY <1>5 DEF PressMenu, GameStep, GameWrite, GameMove, HoldOrRelease, vars, lines, main, game
  <2>7. Edited' /\ PassHeld'
    BY <2>1, <2>6, SamePass DEF FreezeInv, Edited, PassHeld
  <2> QED  BY <1>1, <2>1, <2>4, <2>5, <2>6, <2>7, FreezeStep
<1> QED  BY <1>2, <1>3, <1>4, <1>5 DEF Next

(* A line that freezes its word never writes the filler it was loaded      *)
(* with, whatever the order of triggers, toggles, passes and edits, and    *)
(* with the trigger pressed in the middle of a pass; also behind a pointer *)
(* that leads nowhere, as long as it stays so.  Behind a joker, or behind  *)
(* a pointer that returns after the cheat was switched on, it does.        *)
THEOREM FreezeIsGames ==
  ASSUME JokersLead, FrozenReached
  PROVE  Spec => []FreezeNeverInvents
<1>1. Init => FreezeInv
  BY FreezeInit
<1>2. FreezeInv /\ [Next]_vars => FreezeInv'
  BY FreezeNext
<1>3. FreezeInv => FreezeNeverInvents
  BY DEF FreezeInv, NoFiller, Machine, FreezeNeverInvents
<1> QED  BY <1>1, <1>2, <1>3, PTL DEF Spec
-----------------------------------------------------------------------------
(* A line's value stays at the line's own words.                           *)
Own(n, a) == \E c \in Cheat : n \in LinesOf(c) /\ OwnAt(c, n, a)

(* Inside a call: the base in force is one of the line's own, or the lines *)
(* are switched off.                                                       *)
BasedAt(t, c, n) == IF PointersOf(c, n) = {} THEN t.dma = 0 ELSE t.NULLPOINTER \/ IsBase(t.dma)

(* A line's value is in its own words, its own stdVal and its own hakVal.  *)
OwnHacks(s) ==
  \A n \in Slot :
    /\ \A a \in Word : s.mem[a] = Hack(n) => Written(n) /\ Own(n, a)
    /\ \A m \in Slot : (s.std[m] = Hack(n) => m = n) /\ (s.hak[m] = Hack(n) => m = n)

LEMMA OwnWord ==
  ASSUME NEW c \in Cheat, NEW u \in Call, NEW n \in LinesOf(c), address = Address,
         BasedAt(u, c, n), ~u.NULLPOINTER
  PROVE  OwnAt(c, n, u.dma + address[n]) /\ Own(n, u.dma + address[n])
<1>1. u.dma \in OwnBases(c, n)
  <2>1. CASE PointersOf(c, n) = {}
    BY <2>1 DEF BasedAt, OwnBases
  <2>2. CASE PointersOf(c, n) # {}
    <3>1. IsBase(u.dma) /\ u.dma \in Bases \cup {0}
      BY <2>2 DEF BasedAt, Call
    <3>2. u.dma # 0
      BY <3>1, Numbers DEF IsBase
    <3> QED  BY <2>2, <3>1, <3>2 DEF OwnBases
  <2> QED  BY <2>1, <2>2
<1>2. OwnAt(c, n, u.dma + address[n])
  BY <1>1 DEF OwnAt
<1> QED  BY <1>2 DEF Own

LEMMA FollowOwn ==
  ASSUME Fixed, NEW c \in Cheat, NEW s \in Call, NEW n \in LinesOf(c), n \in Pointers, OwnHacks(s)
  PROVE  OwnHacks(FollowPointer(s, n)) /\ BasedAt(FollowPointer(s, n), c, n + 1)
<1> DEFINE u == FollowPointer(s, n)
<1>1. /\ u.mem = s.mem /\ u.hak = s.hak /\ u.dma = pointer[n]
      /\ u.std = s.std \/ u.std = [s.std EXCEPT ![n] = Base(pointer[n])]
  BY FollowEffect
<1>2. u.NULLPOINTER \/ IsBase(u.dma)
  <2>1. u.NULLPOINTER \/ IsBase(pointer[n])
    BY FollowEffect
  <2> QED  BY <1>1, <2>1
<1> HIDE DEF u
<1>3. \A m \in Slot : u.std[m] = s.std[m] \/ u.std[m] = Base(pointer[n])
  BY <1>1 DEF Call
<1>4. \A k : Base(pointer[n]) # Hack(k)
  BY DEF Base, Hack
<1>5. OwnHacks(u)
  BY <1>1, <1>3, <1>4 DEF OwnHacks
<1>6. PointersOf(c, n + 1) # {}
  BY PointersNext DEF Pointers
<1> QED  BY <1>2, <1>5, <1>6 DEF BasedAt, u

LEMMA RestoreOwn ==
  ASSUME Fixed, NEW c \in Cheat, NEW s \in Call, NEW n \in LinesOf(c), n \in Slot,
         Kind[n] # "pointer", address = Address,
         NEW last \in Int, last <= Top, OwnHacks(s), BasedAt(s, c, n)
  PROVE  OwnHacks(Restore(s, n, last)) /\ BasedAt(Restore(s, n, last), c, n + 1)
<1> DEFINE u == Restore(s, n, last)
           a == s.dma + address[n]
<1>1. /\ u.std = s.std /\ u.hak = s.hak /\ u.dma = s.dma /\ SameLocals(u, s)
      /\ \/ u.mem = s.mem
         \/ Kind[n] = "plain" /\ ~s.NULLPOINTER /\ u.mem = [s.mem EXCEPT ![a] = s.std[n]]
  BY RestoreEffect
<1> HIDE DEF u
<1>2. PointersOf(c, n + 1) = PointersOf(c, n)
  BY PointersNext
<1>3. BasedAt(u, c, n + 1)
  BY <1>1, <1>2 DEF BasedAt, SameLocals
<1>4. CASE u.mem = s.mem
  BY <1>1, <1>3, <1>4 DEF OwnHacks, u
<1>5. CASE Kind[n] = "plain" /\ ~s.NULLPOINTER /\ u.mem = [s.mem EXCEPT ![a] = s.std[n]]
  <2>1. Own(n, a)
    BY <1>5, OwnWord
  <2> HIDE DEF a
  <2>2. \A b \in Word : u.mem[b] = s.mem[b] \/ (b = a /\ u.mem[b] = s.std[n])
    BY <1>5 DEF Call
  <2>3. Written(n)
    BY <1>5 DEF Written
  <2>4. OwnHacks(u)
    BY <1>1, <2>1, <2>2, <2>3 DEF OwnHacks
  <2> QED  BY <1>3, <2>4 DEF u
<1> QED  BY <1>1, <1>4, <1>5

LEMMA WriteOwn ==
  ASSUME Fixed, WordsApart, NEW c \in Cheat, NEW s \in Call, NEW n \in LinesOf(c), n \in Slot,
         Kind[n] # "pointer", address = Address,
         NEW f \in BOOLEAN, OwnHacks(s), BasedAt(s, c, n)
  PROVE  OwnHacks(Write(s, n, f)) /\ BasedAt(Write(s, n, f), c, n + 1)
<1> DEFINE u == Write(s, n, f)
           a == s.dma + address[n]
           written == Kind[n] \in {"plain", "cwc"} /\ a <= Top /\ ~s.NULLPOINTER
<1>1. IF written
        THEN /\ a \in Word
             /\ u.std = (IF Backup(s, n, f) THEN [s.std EXCEPT ![n] = s.mem[a]] ELSE s.std)
             /\ u.hak = (IF Backup(s, n, f) /\ n \in Freeze
                           THEN [s.hak EXCEPT ![n] = s.mem[a]] ELSE s.hak)
             /\ u.mem = [s.mem EXCEPT ![a] = u.hak[n]]
        ELSE u.mem = s.mem /\ u.std = s.std /\ u.hak = s.hak
  BY WriteEffect
<1>2. u.dma = s.dma /\ SameLocals(u, s)
  BY WriteLocals
<1>3. PointersOf(c, n + 1) = PointersOf(c, n)
  BY PointersNext
<1> HIDE DEF u
<1>4. BasedAt(u, c, n + 1)
  BY <1>2, <1>3 DEF BasedAt, SameLocals
<1>5. CASE ~written
  BY <1>1, <1>4, <1>5 DEF OwnHacks, u
<1>6. CASE written
  <2>1. OwnAt(c, n, a) /\ Own(n, a) /\ Written(n)
    BY <1>6, OwnWord DEF Written
  <2> HIDE DEF a
  <2>2. a \in Word
    BY <1>1, <1>6
  <2>3. \A k \in Slot : s.mem[a] = Hack(k) => k = n
    BY <2>1, <2>2 DEF OwnHacks, Own, WordsApart
  <2>4. /\ \A m \in Slot : u.std[m] = s.std[m] \/ (m = n /\ u.std[m] = s.mem[a])
        /\ \A m \in Slot : u.hak[m] = s.hak[m] \/ (m = n /\ u.hak[m] = s.mem[a])
        /\ \A b \in Word : u.mem[b] = s.mem[b] \/ (b = a /\ u.mem[b] = u.hak[n])
    BY <1>1, <1>6, <2>2 DEF Call
  <2>5. \A k, m \in Slot : (u.std[m] = Hack(k) => m = k) /\ (u.hak[m] = Hack(k) => m = k)
    BY <2>3, <2>4 DEF OwnHacks
  <2>6. \A k \in Slot, b \in Word : u.mem[b] = Hack(k) => Written(k) /\ Own(k, b)
    BY <2>1, <2>4, <2>5 DEF OwnHacks
  <2>7. OwnHacks(u)
    BY <2>5, <2>6 DEF OwnHacks
  <2> QED  BY <1>4, <2>7 DEF u
<1> QED  BY <1>5, <1>6

LEMMA EnableLineOwn ==
  ASSUME Fixed, JokersLead, WordsApart, address = Address, NEW c \in Cheat, NEW f \in BOOLEAN,
         NEW t, InCall(t, c), t.at \in LinesOf(c), OwnHacks(t), BasedAt(t, c, t.at)
  PROVE  OwnHacks(EnableLine(t, f)) /\ BasedAt(EnableLine(t, f), c, EnableLine(t, f).at)
<1> DEFINE n == LineAt(t)
           v == EnableLine(t, f)
<1>1. n \in LinesOf(c) /\ n \in Slot /\ t \in Call
  BY EnableEffect DEF InCall
<1>2. PICK u : /\ Moved(u, t, n)
               /\ \/ n \in Pointers /\ v = FollowPointer(u, n)
                  \/ Kind[n] # "pointer" /\ u.joker /\ v = Restore(u, n, Top)
                  \/ Kind[n] # "pointer" /\ ~u.joker /\ v = Write(u, n, f)
  BY <1>1, EnableEffect
<1>3. v.at = n + 1
  BY RoundIn
<1>4. PointersOf(c, n) = PointersOf(c, t.at)
  <2>1. CASE Kind[t.at] = "joker"
    BY <2>1, PointersNext DEF LineAt
  <2>2. CASE Kind[t.at] # "joker"
    BY <2>2 DEF LineAt
  <2> QED  BY <2>1, <2>2
<1> HIDE DEF n, v
<1>5. OwnHacks(u) /\ BasedAt(u, c, n) /\ u \in Call
  BY <1>2, <1>4 DEF Moved, OwnHacks, BasedAt
<1>6. Top \in Int /\ Top <= Top
  BY Numbers
<1>7. OwnHacks(v) /\ BasedAt(v, c, n + 1)
  <2>1. CASE n \in Pointers /\ v = FollowPointer(u, n)
    BY <1>1, <1>5, <2>1, FollowOwn
  <2>2. CASE Kind[n] # "pointer" /\ u.joker /\ v = Restore(u, n, Top)
    BY <1>1, <1>5, <1>6, <2>2, RestoreOwn
  <2>3. CASE Kind[n] # "pointer" /\ ~u.joker /\ v = Write(u, n, f)
    BY <1>1, <1>5, <2>3, WriteOwn
  <2> QED  BY <1>2, <2>1, <2>2, <2>3
<1> QED  BY <1>3, <1>7 DEF v

LEMMA DisableLineOwn ==
  ASSUME Fixed, address = Address, NEW c \in Cheat,
         NEW t, InCall(t, c), t.at \in LinesOf(c), OwnHacks(t), BasedAt(t, c, t.at)
  PROVE  OwnHacks(DisableLine(t)) /\ BasedAt(DisableLine(t), c, DisableLine(t).at)
<1> DEFINE n == t.at
           v == DisableLine(t)
           u == [t EXCEPT !.at = @ + 1]
<1>1. n \in LinesOf(c) /\ n \in Slot /\ t \in Call
  BY Numbers DEF InCall, LinesOf
<1>2. u \in Call /\ u.mem = t.mem /\ u.std = t.std /\ u.hak = t.hak /\ u.dma = t.dma
      /\ u.NULLPOINTER = t.NULLPOINTER
  BY <1>1 DEF Call
<1>3. v = IF Kind[n] = "pointer" THEN FollowPointer(u, n) ELSE Restore(u, n, Top - 1)
  BY DEF DisableLine
<1>4. v.at = n + 1
  BY <1>1, DisableLineType
<1> HIDE DEF n, v, u
<1>5. OwnHacks(u) /\ BasedAt(u, c, n)
  BY <1>2 DEF OwnHacks, BasedAt, n
<1>6. Top - 1 \in Int /\ Top - 1 <= Top
  BY Numbers
<1>7. OwnHacks(v) /\ BasedAt(v, c, n + 1)
  <2>1. CASE Kind[n] = "pointer"
    <3>1. n \in Pointers
      BY <1>1, <2>1 DEF Pointers
    <3> QED  BY <1>1, <1>2, <1>3, <1>5, <2>1, <3>1, FollowOwn
  <2>2. CASE Kind[n] # "pointer"
    BY <1>1, <1>2, <1>3, <1>5, <1>6, <2>2, RestoreOwn
  <2> QED  BY <2>1, <2>2
<1> QED  BY <1>4, <1>7 DEF v

LEMMA CallOwn ==
  ASSUME Fixed, JokersLead, WordsApart, address = Address, NEW c \in Cheat, NEW f \in BOOLEAN,
         NEW s \in State, OwnHacks(s)
  PROVE  OwnHacks(cheatEnable(s, c, f)) /\ OwnHacks(cheatDisable(s, c))
<1> DEFINE G == {t \in Call : OwnHacks(t) /\ BasedAt(t, c, t.at)}
<1>1. Enter(s, c) \in G
  <2> DEFINE e == Enter(s, c)
  <2>1. e.mem = s.mem /\ e.std = s.std /\ e.hak = s.hak /\ e.dma = 0 /\ e.at = Start[c] /\ e \in Call
    BY EnterType DEF Enter
  <2> HIDE DEF e
  <2>2. OwnHacks(e) /\ BasedAt(e, c, e.at)
    BY <2>1, PointersNext DEF OwnHacks, BasedAt
  <2> QED  BY <2>1, <2>2 DEF e
<1>2. ASSUME NEW t \in G, InCall(t, c), t.at \in LinesOf(c)
      PROVE  EnableLine(t, f) \in G /\ DisableLine(t) \in G
  <2>1. t.at \in Slot /\ t \in Call
    BY <1>2, Numbers DEF LinesOf
  <2>2. EnableLine(t, f) \in Call /\ DisableLine(t) \in Call
    BY <2>1, EnableLineType, DisableLineType
  <2> QED  BY <1>2, <2>2, EnableLineOwn, DisableLineOwn
<1>3. \A t \in G : OwnHacks(Leave(t))
  BY DEF OwnHacks, Leave
<1> HIDE DEF G
<1>4. \E t \in G : cheatEnable(s, c, f) = Leave(t)
  BY <1>1, <1>2, EnableInvariant
<1>5. \E t \in G : cheatDisable(s, c) = Leave(t)
  BY <1>1, <1>2, DisableInvariant
<1> QED  BY <1>3, <1>4, <1>5

(* Before the backups are made no word of the game holds a line's value.   *)
Untouched(s) == \A n \in Slot : \A a \in Word : s.mem[a] # Hack(n)

LEMMA BackUpOwn ==
  ASSUME Fixed, NEW s \in State, OwnHacks(s), Untouched(s)
  PROVE  BackUp(s) \in State /\ OwnHacks(BackUp(s))
<1> DEFINE P == {t \in State : OwnHacks(t) /\ Untouched(t)}
           G == [n \in 0 .. Cardinality(Slot) |-> P]
<1>1. \A n \in Slot : n \in 0 .. Cardinality(Slot) /\ n + 1 \in 0 .. Cardinality(Slot)
  BY Numbers
<1>2. 0 \in 0 .. Cardinality(Slot) /\ Cardinality(Slot) \in 0 .. Cardinality(Slot)
  BY Numbers
<1>3. ASSUME NEW n \in Slot, NEW t \in P PROVE BackUpLine(t, n) \in P
  <2> DEFINE u == BackUpLine(t, n)
             d == IF \E c \in Cheat : Start[c] = n THEN 0 ELSE t.dma
  <2>1. /\ u \in State /\ u.mem = t.mem /\ u.hak = t.hak
        /\ \A m \in Slot : m # n => u.std[m] = t.std[m]
        /\ \/ u.std[n] = t.std[n]
           \/ u.std[n] = Base(pointer[n])
           \/ \E a \in Word : u.std[n] = t.mem[a]
    BY BackUpEffect
  <2> HIDE DEF u
  <2>2. \A b, k : Base(b) # Hack(k)
    BY DEF Base, Hack
  <2>3. \A k, m \in Slot : u.std[m] = Hack(k) => m = k
    BY <2>1, <2>2 DEF OwnHacks, Untouched
  <2>4. OwnHacks(u) /\ Untouched(u)
    BY <2>1, <2>3 DEF OwnHacks, Untouched
  <2> QED  BY <2>1, <2>4 DEF u
<1>4. /\ s \in G[0]
      /\ \A n \in Slot : \A t \in State : t \in G[n] => BackUpLine(t, n) \in G[n + 1]
  BY <1>1, <1>2, <1>3
<1> HIDE DEF G
<1>5. BackUp(s) \in G[Cardinality(Slot)]
  BY <1>4, BackUpInvariant
<1> QED  BY <1>2, <1>5 DEF G

LEMMA PressedOwn ==
  ASSUME Fixed, JokersLead, WordsApart, address = Address, Machine \in State,
         cheatStatus \in BOOLEAN, OwnHacks(Machine), ~cheatSaved => Untouched(Machine)
  PROVE  OwnHacks(Pressed)
<1> DEFINE P == {t \in State : OwnHacks(t)}
           G == [n \in 0 .. N |-> P]
<1>1. 0 \in 0 .. N /\ N \in 0 .. N /\ \A c \in Cheat : c \in 0 .. N /\ c + 1 \in 0 .. N
  BY Numbers DEF Cheat
<1>2. (IF cheatSaved THEN Machine ELSE BackUp(Machine)) \in P
  BY BackUpOwn
<1>3. ASSUME NEW c \in Cheat, NEW t \in P PROVE PressCheat(t, c, ~cheatStatus) \in P
  <2>1. \A x \in P : cheatEnable(x, c, TRUE) \in P /\ cheatDisable(x, c) \in P
    <3>1. TRUE \in BOOLEAN
      OBVIOUS
    <3> QED  BY <3>1, CallType, CallOwn
  <2> HIDE DEF P
  <2> QED  BY <2>1 DEF PressCheat
<1>4. /\ (IF cheatSaved THEN Machine ELSE BackUp(Machine)) \in G[0]
      /\ \A c \in Cheat : \A t \in State : t \in G[c] => PressCheat(t, c, ~cheatStatus) \in G[c + 1]
  BY <1>1, <1>2, <1>3
<1> HIDE DEF G
<1>5. Pressed \in G[N]
  BY <1>4, PressedInvariant
<1> QED  BY <1>1, <1>5 DEF G

LEMMA AppliedOwn ==
  ASSUME Fixed, JokersLead, WordsApart, address = Address, Machine \in State,
         OwnHacks(Machine), NEW sel, NEW con, NEW fr
  PROVE  OwnHacks(Applied(sel, con, fr))
<1> DEFINE P == {t \in State : OwnHacks(t)}
           G == [n \in 0 .. N |-> P]
<1>1. 0 \in 0 .. N /\ N \in 0 .. N /\ \A c \in Cheat : c \in 0 .. N /\ c + 1 \in 0 .. N
  BY Numbers DEF Cheat
<1>3. ASSUME NEW c \in Cheat, NEW t \in P PROVE ApplyFresh(t, c, sel, con, fr) \in P
  <2>1. \A x \in P : cheatEnable(x, c, TRUE) \in P /\ cheatDisable(x, c) \in P
    <3>1. TRUE \in BOOLEAN
      OBVIOUS
    <3> QED  BY <3>1, CallType, CallOwn
  <2> HIDE DEF P
  <2> QED  BY <2>1 DEF ApplyFresh
<1>4. /\ Machine \in G[0]
      /\ \A c \in Cheat : \A t \in State : t \in G[c] => ApplyFresh(t, c, sel, con, fr) \in G[c + 1]
  BY <1>1, <1>3
<1> HIDE DEF G
<1>5. Applied(sel, con, fr) \in G[N]
  BY <1>4, AppliedInvariant
<1> QED  BY <1>1, <1>5 DEF G

(* The call the pass is in the middle of.                                  *)
Running ==
  [mem |-> mem, std |-> stdVal, hak |-> hakVal, dma |-> cheatDMA, at |-> run.at,
   resetDMA |-> run.resetDMA, NULLPOINTER |-> run.NULLPOINTER, joker |-> run.joker]

HackInv ==
  /\ TypeInv /\ address = Address
  /\ pc \in {"pass", "enable"} => cheatSaved
  /\ OwnHacks(Machine)
  /\ ~cheatSaved => Untouched(Machine)
  /\ pc = "enable" => InCall(Running, cur) /\ BasedAt(Running, cur, run.at)

LEMMA BecomesOwn ==
  ASSUME NEW s, Becomes(s), OwnHacks(s)
  PROVE  OwnHacks(Machine)'
<1>1. Machine'.mem = s.mem /\ Machine'.std = s.std /\ Machine'.hak = s.hak
  BY DEF Becomes, Machine
<1>2. OwnHacks(Machine')
  <2> HIDE DEF Machine
  <2> QED  BY <1>1 DEF OwnHacks
<1> QED  BY <1>2 DEF OwnHacks, Own, OwnAt, OwnBases, PointersOf, LinesOf, Start, End

LEMMA HackInit == Init => HackInv
<1> SUFFICES ASSUME Init PROVE HackInv
  OBVIOUS
<1>1. TypeInv
  BY InitType
<1>2. address = Address /\ pc = "loop" /\ ~cheatSaved
  BY DEF Init
<1>3. \A a, b : Unset # Hack(b) /\ Game(a) # Hack(b) /\ (Hack(a) = Hack(b) => a = b)
  BY DEF Unset, Game, Hack
<1>4. /\ \A a \in Word : mem[a] = Game(a)
      /\ \A m \in Slot : stdVal[m] = Unset /\ hakVal[m] = Hack(m)
  BY DEF Init
<1>5. OwnHacks(Machine) /\ Untouched(Machine)
  BY <1>3, <1>4 DEF OwnHacks, Untouched, Machine
<1> QED  BY <1>1, <1>2, <1>5 DEF HackInv

LEMMA HackLine ==
  ASSUME JokersLead, WordsApart, HackInv, PassLine, TypeInv'
  PROVE  HackInv'
<1> DEFINE f == cur \in fresh
           s == EnableLine(Running, f)
<1>1. /\ cur \in Cheat /\ Fixed /\ f \in BOOLEAN /\ InCall(Running, cur)
      /\ BasedAt(Running, cur, run.at) /\ address = Address /\ OwnHacks(Machine)
      /\ cheatSaved /\ pc = "enable"
  BY MachineType DEF PassLine, HackInv, TypeInv
<1>2. Running.at = run.at /\ Running.mem = mem /\ Running.std = stdVal /\ Running.hak = hakVal
  BY DEF Running
<1>3. Running.at \in LinesOf(cur)
  BY <1>1, <1>2, Numbers DEF PassLine, InCall, LinesOf
<1>4. OwnHacks(Running)
  BY <1>1, <1>2 DEF OwnHacks, Machine
<1>5. OwnHacks(s) /\ BasedAt(s, cur, s.at)
  <2> HIDE DEF f
  <2> QED  BY <1>1, <1>2, <1>3, <1>4, EnableLineOwn
<1>6. InCall(s, cur)
  <2> HIDE DEF f
  <2> QED  BY <1>1, <1>3, RoundIn
<1>7. /\ Becomes(s)
      /\ run' = [at |-> s.at, resetDMA |-> s.resetDMA, NULLPOINTER |-> s.NULLPOINTER, joker |-> s.joker]
      /\ UNCHANGED <<address, cheatSaved, pc, cur>>
  BY DEF PassLine, Running, status
<1> HIDE DEF s
<1>8. Running' = s
  <2>1. s \in Call
    BY <1>6 DEF InCall
  <2> QED  BY <1>7, <2>1 DEF Running, Becomes, Call
<1>9. OwnHacks(Machine)'
  BY <1>5, <1>7, BecomesOwn
<1>10. (InCall(Running, cur) /\ BasedAt(Running, cur, run.at))'
  <2>1. InCall(Running', cur') /\ BasedAt(Running', cur', run'.at)
    BY <1>5, <1>6, <1>7, <1>8
  <2> HIDE DEF Running
  <2> QED  BY <2>1 DEF InCall, BasedAt, PointersOf, LinesOf, Start, End
<1> QED  BY <1>1, <1>7, <1>9, <1>10 DEF HackInv

LEMMA HackPass ==
  ASSUME HackInv, EnterMenu \/ StartPass \/ PassCheat \/ PassCheatEnd \/ EndPass, TypeInv'
  PROVE  HackInv'
<1>1. UNCHANGED <<mem, stdVal, hakVal, address, cheatSaved>>
  BY DEF EnterMenu, StartPass, PassCheat, PassCheatEnd, EndPass, flags, status, lines
<1>2. /\ OwnHacks(Machine)'
      /\ (~cheatSaved => Untouched(Machine))'
  BY <1>1 DEF HackInv, OwnHacks, Untouched, Machine, Own, OwnAt, OwnBases, PointersOf, LinesOf,
              Start, End
<1>3. (pc \in {"pass", "enable"} => cheatSaved)'
  BY DEF EnterMenu, StartPass, PassCheat, PassCheatEnd, EndPass, HackInv, status
<1>4. ASSUME pc' = "enable"
      PROVE  (InCall(Running, cur) /\ BasedAt(Running, cur, run.at))'
  <2>1. PassCheat /\ cur \in Cheat /\ cur' = cur /\ cheatDMA' = 0
        /\ run' = [NoRun EXCEPT !.at = Start[cur]]
    BY <1>4, Numbers DEF EnterMenu, StartPass, PassCheat, PassCheatEnd, EndPass, Cheat, HackInv,
                TypeInv, TypeOK
  <2>2. run'.at = Start[cur] /\ Start[cur] \in Start[cur] .. End[cur]
    BY <2>1, Numbers DEF NoRun
  <2>3. Running' \in Call
    BY DEF TypeInv, TypeOK, Running, Call
  <2>4. Running'.at = run'.at /\ Running'.dma = cheatDMA'
    BY DEF Running
  <2>5. InCall(Running', cur') /\ BasedAt(Running', cur', run'.at)
    <3> HIDE DEF Running
    <3> QED  BY <2>1, <2>2, <2>3, <2>4, PointersNext DEF InCall, BasedAt
  <2> HIDE DEF Running
  <2> QED  BY <2>5 DEF InCall, BasedAt, PointersOf, LinesOf, Start, End
<1> QED  BY <1>1, <1>2, <1>3, <1>4 DEF HackInv

(* A step that leaves the engine alone.                                    *)
LEMMA HackQuiet ==
  ASSUME HackInv, TypeInv', UNCHANGED <<stdVal, hakVal, address, cheatDMA, cheatSaved, cur, run>>,
         pc' = pc \/ pc' = "loop",
         \A n \in Slot, a \in Word : mem'[a] = Hack(n) => mem[a] = Hack(n)
  PROVE  HackInv'
<1>1. OwnHacks(Machine') /\ (~cheatSaved => Untouched(Machine'))
  BY DEF HackInv, OwnHacks, Untouched, Machine
<1>2. OwnHacks(Machine)' /\ (~cheatSaved => Untouched(Machine))'
  BY <1>1 DEF OwnHacks, Untouched, Own, OwnAt, OwnBases, PointersOf, LinesOf, Start, End
<1>3. pc' = "enable" => (InCall(Running, cur) /\ BasedAt(Running, cur, run.at))'
  <2> SUFFICES ASSUME pc' = "enable" PROVE (InCall(Running, cur) /\ BasedAt(Running, cur, run.at))'
    OBVIOUS
  <2>1. InCall(Running, cur) /\ BasedAt(Running, cur, run.at)
    BY DEF HackInv
  <2>2. Running' \in Call
    BY DEF TypeInv, TypeOK, Running, Call
  <2>3. /\ Running'.at = Running.at /\ Running'.dma = Running.dma
        /\ Running'.NULLPOINTER = Running.NULLPOINTER
    BY DEF Running
  <2>4. InCall(Running', cur) /\ BasedAt(Running', cur, run.at)
    <3> HIDE DEF Running
    <3> QED  BY <2>1, <2>2, <2>3 DEF InCall, BasedAt
  <2> HIDE DEF Running
  <2> QED  BY <2>4 DEF InCall, BasedAt, PointersOf, LinesOf, Start, End
<1> QED  BY <1>2, <1>3 DEF HackInv

LEMMA HackSwitch ==
  ASSUME HackInv, TypeInv', NEW s, Becomes(s), OwnHacks(s), cheatSaved',
         UNCHANGED <<address, pc>>, pc # "enable"
  PROVE  HackInv'
<1>1. OwnHacks(Machine)'
  BY BecomesOwn
<1> QED  BY <1>1 DEF HackInv

LEMMA HackNext ==
  ASSUME Orderly, JokersLead, WordsApart, HackInv, [Next]_vars
  PROVE  HackInv'
<1>1. TypeInv'
  BY NextType DEF HackInv
<1>2. CASE MainStep
  BY <1>1, <1>2, HackPass, HackLine DEF MainStep
<1>3. Fixed /\ Machine \in State /\ cheatStatus \in BOOLEAN /\ address = Address
      /\ OwnHacks(Machine) /\ (~cheatSaved => Untouched(Machine))
  BY MachineType DEF HackInv, TypeInv, TypeOK
<1>4. CASE PressTrigger
  <2>1. OwnHacks(Pressed)
    BY <1>3, PressedOwn
  <2>2. Becomes(Pressed) /\ cheatSaved' /\ UNCHANGED <<address, pc>> /\ pc # "enable"
    BY <1>4 DEF PressTrigger, main, Orderly, Waits
  <2> QED  BY <1>1, <2>1, <2>2, HackSwitch
<1>5. ASSUME NEW c \in Cheat, NEW sel, NEW con, Toggle(sel, con, c), pc = "menu" PROVE HackInv'
  <2> DEFINE u == Applied(sel, con, fresh \cup {c})
  <2>1. OwnHacks(u)
    BY <1>3, AppliedOwn
  <2>2. /\ UNCHANGED <<address, cheatSaved, pc, cur, run>>
        /\ IF cheatSaved THEN Becomes(u) ELSE UNCHANGED <<mem, stdVal, hakVal, cheatDMA>>
    BY <1>5 DEF Toggle, main
  <2> HIDE DEF u
  <2>3. CASE cheatSaved
    BY <1>1, <1>5, <2>1, <2>2, <2>3, HackSwitch
  <2>4. CASE ~cheatSaved
    BY <1>1, <2>2, <2>4, HackQuiet
  <2> QED  BY <2>3, <2>4
<1>6. CASE Menu
  <2>1. CASE LeaveMenu
    <3>1. UNCHANGED <<mem, stdVal, hakVal, address, cheatDMA, cheatSaved, cur, run>> /\ pc' = "loop"
      BY <2>1 DEF LeaveMenu, lines, status
    <3> QED  BY <1>1, <3>1, HackQuiet
  <2>2. ASSUME NEW c \in Cheat, ToggleSelected(c) \/ ToggleConstant(c) PROVE HackInv'
    BY <1>5, <2>2 DEF ToggleSelected, ToggleConstant
  <2>3. ~ \E n \in Slot : EditValue(n) \/ \E w \in EditWords : EditAddress(n, w)
    BY DEF Orderly, EditValue, EditAddress
  <2> QED  BY <1>6, <2>1, <2>2, <2>3 DEF Menu
<1>7. CASE PressMenu \/ GameStep \/ UNCHANGED vars
  <2>1. /\ UNCHANGED <<stdVal, hakVal, address, cheatDMA, cheatSaved, pc, cur, run>>
        /\ \/ UNCHANGED mem
           \/ \E a \in Word : mem' = [mem EXCEPT ![a] = Game(a)]
    BY <1>7 DEF PressMenu, GameStep, GameWrite, GameMove, HoldOrRelease, vars, lines, status, main
  <2>2. \A a, k : Game(a) # Hack(k)
    BY DEF Game, Hack
  <2>3. mem \in [Word -> Value]
    BY DEF HackInv, TypeInv, TypeOK
  <2>4. \A n \in Slot, a \in Word : mem'[a] = Hack(n) => mem[a] = Hack(n)
    BY <2>1, <2>2, <2>3
  <2> QED  BY <1>1, <2>1, <2>4, HackQuiet
<1> QED  BY <1>2, <1>4, <1>6, <1>7 DEF Next

(* A line's value only ever reaches the line's own words, wherever the     *)
(* game moves what its pointers lead to, for every table whose lines       *)
(* belong to one cheat and write no common word.                           *)
THEOREM HacksStayHome ==
  ASSUME Orderly, JokersLead, OneCheat, WordsApart
  PROVE  Spec => []HacksAtOwnWords
<1>1. Init => HackInv
  BY HackInit
<1>2. HackInv /\ [Next]_vars => HackInv'
  BY HackNext
<1>3. HackInv => HacksAtOwnWords
  <2> SUFFICES ASSUME HackInv, NEW c \in Cheat, NEW n \in LinesOf(c) \cap Plain, NEW a \in Word,
                      mem[a] = Hack(n)
               PROVE  \E b \in OwnBases(c, n) : a = b + address[n]
    BY DEF HacksAtOwnWords
  <2>1. n \in Slot /\ address = Address
    BY DEF Plain, HackInv
  <2>2. Own(n, a)
    BY <2>1 DEF HackInv, OwnHacks, Machine
  <2>3. OwnAt(c, n, a)
    BY <2>2 DEF Own, OneCheat
  <2> QED  BY <2>1, <2>3 DEF OwnAt
<1> QED  BY <1>1, <1>2, <1>3, PTL DEF Spec
-----------------------------------------------------------------------------
(* Backups, where the game leaves its pointers alone.                      *)
(* What holds of memory, backups and values once the backups are made.     *)
At(n, a) == \E c \in Cheat : n \in LinesOf(c) /\ Reached(c, n) /\ a = WordOf(c, n)
Placed(s) == \A n \in Slot, a \in Word : s.mem[a] = Hack(n) => Written(n) /\ At(n, a)
Games(s) == \A a \in Word : a < Top => s.mem[a] = Game(a) \/ \E n \in Slot : s.mem[a] = Hack(n)
StdClean(s) == \A m, n \in Slot : s.std[m] # Hack(n)
Values(s) ==
  \A c \in Cheat : \A n \in LinesOf(c) :
    /\ n \notin Freeze => s.hak[n] = Hack(n)
    /\ s.hak[n] = Hack(n) \/ /\ \A m \in Slot : s.hak[n] # Hack(m)
                             /\ WordOf(c, n) < Top => s.hak[n] = Game(WordOf(c, n))
(* A base that was never recorded: nothing was written through it.         *)
Unseen(s) ==
  \A c \in Cheat : \A n \in LinesOf(c) : \A p \in PointersOf(c, n) :
    IsBase(pointer[p]) /\ s.std[p] # Base(pointer[p]) => \A a \in Word : s.mem[a] # Hack(n)
BackedUp(s) ==
  \A c \in Cheat : \A n \in LinesOf(c) \cap Plain :
    (OwnBase(c, n) = 0 \/ IsBase(OwnBase(c, n))) /\ WordOf(c, n) < Top
      => s.std[n] = Game(WordOf(c, n))
NoBase(s) == Pointers = {} => s.dma = 0
Kept(s) ==
  /\ Placed(s) /\ Games(s) /\ StdClean(s) /\ Values(s) /\ Unseen(s) /\ NoFiller(s) /\ BackedUp(s)
  /\ NoBase(s)

(* What holds of the locals of a call of cheat c before line n.            *)
Settled(t, c, n) ==
  /\ t.dma = OwnBase(c, n)
  /\ PointersOf(c, n) = {} => ~t.resetDMA
  /\ ~t.NULLPOINTER => Reached(c, n) /\ \A p \in PointersOf(c, n) : t.std[p] = Base(pointer[p])
  /\ t.resetDMA /\ ~t.NULLPOINTER =>
       \A k \in LinesOf(c) : k >= n /\ PointersOf(c, k) = PointersOf(c, n)
         => \A a \in Word : t.mem[a] # Hack(k)

LEMMA Distinct ==
  /\ \A a, n : Game(a) # Hack(n) /\ Base(a) # Hack(n) /\ Unset # Hack(n)
  /\ \A a, n : Hack(a) = Hack(n) => a = n
BY DEF Game, Hack, Base, Unset

LEMMA FollowKeeps ==
  ASSUME Fixed, NEW c \in Cheat, NEW s \in Call, NEW n \in LinesOf(c), n \in Pointers, Kept(s)
  PROVE  Kept(FollowPointer(s, n)) /\ Settled(FollowPointer(s, n), c, n + 1)
<1> DEFINE u == FollowPointer(s, n)
<1>1. /\ u.mem = s.mem /\ u.hak = s.hak /\ u.dma = pointer[n]
      /\ \/ ~IsBase(pointer[n]) /\ u.NULLPOINTER /\ u.std = s.std
         \/ IsBase(pointer[n]) /\ s.std[n] = Base(pointer[n]) /\ u.std = s.std /\ ~u.resetDMA
         \/ /\ IsBase(pointer[n]) /\ s.std[n] # Base(pointer[n])
            /\ u.std = [s.std EXCEPT ![n] = Base(pointer[n])]
  BY FollowEffect
<1>2. NoFiller(u)
  BY FollowFiller DEF Kept
<1> HIDE DEF u
<1>3. n \in Slot /\ Kind[n] = "pointer" /\ n \in Nat
  BY Numbers DEF Pointers, LinesOf
<1>4. \A m \in Slot : u.std[m] = s.std[m] \/ (m = n /\ u.std[m] = Base(pointer[n]))
  BY <1>1 DEF Call
<1>5. OwnBase(c, n + 1) = pointer[n] /\ PointersOf(c, n + 1) = {n}
  BY <1>3, OwnBaseNext, PointersNext
<1>6. Placed(u) /\ Games(u) /\ Values(u)
  BY <1>1 DEF Kept, Placed, Games, Values
<1>7. StdClean(u)
  BY <1>4, Distinct DEF Kept, StdClean
<1>8. Unseen(u)
  <2> SUFFICES ASSUME NEW d \in Cheat, NEW k \in LinesOf(d), NEW p \in PointersOf(d, k),
                      IsBase(pointer[p]), u.std[p] # Base(pointer[p])
               PROVE  \A a \in Word : u.mem[a] # Hack(k)
    BY DEF Unseen
  <2>1. p \in Slot
    BY PointersBefore DEF Pointers
  <2>2. s.std[p] # Base(pointer[p])
    BY <1>4, <2>1
  <2> QED  BY <1>1, <2>2 DEF Kept, Unseen
<1>9. BackedUp(u)
  <2>1. \A m \in Plain : m \in Slot /\ m # n
    BY <1>3 DEF Plain
  <2> QED  BY <1>4, <2>1, Distinct DEF Kept, BackedUp
<1>10. Settled(u, c, n + 1)
  <2>1. ~u.NULLPOINTER => IsBase(pointer[n]) /\ u.std[n] = Base(pointer[n])
    BY <1>1, <1>3 DEF Call
  <2>2. Reached(c, n + 1) <=> IsBase(pointer[n])
    BY <1>5 DEF Reached, ReachedBy, BaseBy, OwnBase
  <2>3. ASSUME u.resetDMA, ~u.NULLPOINTER, NEW k \in LinesOf(c), PointersOf(c, k) = {n}
        PROVE  \A a \in Word : u.mem[a] # Hack(k)
    <3>1. IsBase(pointer[n]) /\ s.std[n] # Base(pointer[n])
      BY <1>1, <2>3
    <3>2. n \in PointersOf(c, k)
      BY <2>3
    <3> QED  BY <1>1, <3>1, <3>2 DEF Kept, Unseen
  <2> QED  BY <1>1, <1>5, <2>1, <2>2, <2>3 DEF Settled
<1>11. NoBase(u)
  BY DEF NoBase
<1> QED  BY <1>2, <1>6, <1>7, <1>8, <1>9, <1>10, <1>11 DEF Kept, u

LEMMA RestoreKeeps ==
  ASSUME Fixed, NEW c \in Cheat, NEW s \in Call, NEW n \in LinesOf(c), n \in Slot,
         Kind[n] # "pointer", NEW last \in Int, last <= Top, Kept(s), Settled(s, c, n)
  PROVE  Kept(Restore(s, n, last)) /\ Settled(Restore(s, n, last), c, n + 1)
<1> DEFINE u == Restore(s, n, last)
           a == s.dma + address[n]
<1>1. /\ u.std = s.std /\ u.hak = s.hak /\ u.dma = s.dma /\ SameLocals(u, s)
      /\ \/ u.mem = s.mem
         \/ /\ Kind[n] = "plain" /\ ~s.NULLPOINTER
            /\ u.mem = [s.mem EXCEPT ![a] = s.std[n]]
  BY RestoreEffect
<1>2. NoFiller(u)
  BY RestoreFiller DEF Kept
<1>3. PointersOf(c, n + 1) = PointersOf(c, n) /\ OwnBase(c, n + 1) = OwnBase(c, n)
  BY PointersNext, OwnBaseNext
<1>4. a = WordOf(c, n)
  BY DEF Settled, WordOf, WordBy, BaseBy, OwnBase
<1> HIDE DEF u, a
<1>5. \A b \in Word : \/ u.mem[b] = s.mem[b]
                      \/ /\ b = a /\ u.mem[b] = s.std[n]
                         /\ \A m \in Slot : s.std[n] # Hack(m)
                         /\ a < Top => s.std[n] = Game(a)
  <2>1. CASE u.mem = s.mem
    BY <2>1
  <2>2. CASE Kind[n] = "plain" /\ ~s.NULLPOINTER /\ u.mem = [s.mem EXCEPT ![a] = s.std[n]]
    <3>1. \A m \in Slot : s.std[n] # Hack(m)
      BY DEF Kept, StdClean
    <3>2. OwnBase(c, n) = 0 \/ IsBase(OwnBase(c, n))
      BY <2>2 DEF Settled, Reached, ReachedBy, BaseBy, OwnBase
    <3>3. a < Top => s.std[n] = Game(a)
      BY <1>4, <2>2, <3>2 DEF Kept, BackedUp, Plain
    <3> QED  BY <2>2, <3>1, <3>3 DEF Call
  <2> QED  BY <1>1, <2>1, <2>2
<1>6. \A m \in Slot, b \in Word : u.mem[b] = Hack(m) => s.mem[b] = Hack(m)
  BY <1>5
<1>7. Placed(u)
  BY <1>6 DEF Kept, Placed
<1>8. Games(u)
  BY <1>5 DEF Kept, Games
<1>9. StdClean(u) /\ Values(u) /\ BackedUp(u)
  BY <1>1 DEF Kept, StdClean, Values, BackedUp
<1>10. \A d \in Cheat : \A k \in LinesOf(d) : k \in Slot
  BY Numbers DEF LinesOf
<1>11. Unseen(u)
  BY <1>1, <1>6, <1>10 DEF Kept, Unseen
<1>12. Settled(u, c, n + 1)
  <2>1. n \in Nat /\ \A k \in LinesOf(c) : k \in Nat
    BY Numbers DEF LinesOf
  <2>2. \A k \in LinesOf(c) : k >= n + 1 => k >= n
    BY <2>1
  <2>3. Reached(c, n + 1) <=> Reached(c, n)
    BY <1>3 DEF Reached, ReachedBy, BaseBy
  <2> QED  BY <1>1, <1>3, <1>6, <1>10, <2>2, <2>3 DEF Settled, SameLocals
<1>13. NoBase(u)
  BY <1>1 DEF Kept, NoBase
<1> QED  BY <1>2, <1>7, <1>8, <1>9, <1>11, <1>12, <1>13 DEF Kept, u

LEMMA WriteKeeps ==
  ASSUME Fixed, OneCheat, Apart, NEW c \in Cheat, NEW s \in Call, NEW n \in LinesOf(c), n \in Slot,
         Kind[n] # "pointer", NEW f \in BOOLEAN, Kept(s), Settled(s, c, n),
         n \in Freeze => Backup(s, n, f) \/ s.hak[n] # Hack(n) \/ s.NULLPOINTER
  PROVE  Kept(Write(s, n, f)) /\ Settled(Write(s, n, f), c, n + 1)
<1> DEFINE u == Write(s, n, f)
           a == s.dma + address[n]
           written == Kind[n] \in {"plain", "cwc"} /\ a <= Top /\ ~s.NULLPOINTER
<1>1. IF written
        THEN /\ a \in Word
             /\ u.std = (IF Backup(s, n, f) THEN [s.std EXCEPT ![n] = s.mem[a]] ELSE s.std)
             /\ u.hak = (IF Backup(s, n, f) /\ n \in Freeze
                           THEN [s.hak EXCEPT ![n] = s.mem[a]] ELSE s.hak)
             /\ u.mem = [s.mem EXCEPT ![a] = u.hak[n]]
        ELSE u.mem = s.mem /\ u.std = s.std /\ u.hak = s.hak
  BY WriteEffect
<1>2. u.dma = s.dma /\ SameLocals(u, s)
  BY WriteLocals
<1>3. NoFiller(u)
  BY WriteFiller DEF Kept
<1>4. PointersOf(c, n + 1) = PointersOf(c, n) /\ OwnBase(c, n + 1) = OwnBase(c, n)
  BY PointersNext, OwnBaseNext
<1>5. a = WordOf(c, n)
  BY DEF Settled, WordOf, WordBy, BaseBy, OwnBase
<1>6. n \in Nat /\ \A d \in Cheat : \A k \in LinesOf(d) : k \in Nat /\ k \in Slot
  BY Numbers DEF LinesOf
<1>7. Reached(c, n + 1) <=> Reached(c, n)
  BY <1>4 DEF Reached, ReachedBy, BaseBy
<1> HIDE DEF u, a
<1>10. NoBase(u)
  BY <1>2 DEF Kept, NoBase
<1>8. CASE ~written
  <2>1. Placed(u) /\ Games(u) /\ StdClean(u) /\ Values(u) /\ Unseen(u) /\ BackedUp(u)
    BY <1>1, <1>8 DEF Kept, Placed, Games, StdClean, Values, Unseen, BackedUp
  <2>2. \A k \in LinesOf(c) : k >= n + 1 => k >= n
    BY <1>6
  <2>3. Settled(u, c, n + 1)
    BY <1>1, <1>2, <1>4, <1>6, <1>7, <1>8, <2>2 DEF Settled, SameLocals
  <2> QED  BY <1>3, <1>10, <2>1, <2>3 DEF Kept, u
<1>9. CASE written
  <2>1. /\ Written(n) /\ a \in Word /\ Reached(c, n) /\ At(n, a)
        /\ \A p \in PointersOf(c, n) : s.std[p] = Base(pointer[p])
    BY <1>1, <1>5, <1>9 DEF Written, Settled, At
  <2>2. \A k \in Slot : s.mem[a] = Hack(k) => k = n
    <3> SUFFICES ASSUME NEW k \in Slot, s.mem[a] = Hack(k) PROVE k = n
      OBVIOUS
    <3>1. Written(k) /\ At(k, a)
      BY <2>1 DEF Kept, Placed
    <3>2. PICK d \in Cheat : k \in LinesOf(d) /\ Reached(d, k) /\ a = WordOf(d, k)
      BY <3>1 DEF At
    <3> QED  BY <1>5, <2>1, <3>1, <3>2 DEF Apart, ApartBy, Reached, WordOf
  <2>3. Backup(s, n, f) => s.mem[a] # Hack(n)
    <3>1. CASE n \in Freeze
      BY <2>1, <3>1 DEF Kept, NoFiller
    <3>2. CASE n \notin Freeze
      BY <1>6, <1>9, <2>1, <3>2 DEF Backup, Settled
    <3> QED  BY <3>1, <3>2
  <2>4. Backup(s, n, f) => /\ \A k \in Slot : s.mem[a] # Hack(k)
                           /\ a < Top => s.mem[a] = Game(a)
    BY <2>1, <2>2, <2>3 DEF Kept, Games
  <2>5. /\ \A m \in Slot : u.std[m] = s.std[m] \/ (m = n /\ Backup(s, n, f) /\ u.std[m] = s.mem[a])
        /\ \A m \in Slot : u.hak[m] = s.hak[m] \/ (m = n /\ n \in Freeze /\ Backup(s, n, f) /\ u.hak[m] = s.mem[a])
        /\ u.mem[a] = u.hak[n]
        /\ \A b \in Word : b # a => u.mem[b] = s.mem[b]
        /\ n \in Freeze => u.hak[n] # Hack(n)
    <3>1. /\ \A m \in Slot : u.std[m] = s.std[m] \/ (m = n /\ Backup(s, n, f) /\ u.std[m] = s.mem[a])
          /\ \A m \in Slot : u.hak[m] = s.hak[m] \/ (m = n /\ n \in Freeze /\ Backup(s, n, f) /\ u.hak[m] = s.mem[a])
          /\ u.mem[a] = u.hak[n]
          /\ \A b \in Word : b # a => u.mem[b] = s.mem[b]
      BY <1>1, <1>9, <2>1 DEF Call
    <3>2. n \in Freeze => u.hak[n] # Hack(n)
      BY <1>3, <2>1, <3>1 DEF NoFiller
    <3> QED  BY <3>1, <3>2
  <2>6. Values(u)
    <3> SUFFICES ASSUME NEW d \in Cheat, NEW m \in LinesOf(d)
                 PROVE  /\ m \notin Freeze => u.hak[m] = Hack(m)
                        /\ u.hak[m] = Hack(m) \/ /\ \A k \in Slot : u.hak[m] # Hack(k)
                                                 /\ WordOf(d, m) < Top => u.hak[m] = Game(WordOf(d, m))
      BY DEF Values
    <3>1. CASE u.hak[m] = s.hak[m]
      BY <3>1 DEF Kept, Values
    <3>2. CASE m = n /\ n \in Freeze /\ Backup(s, n, f) /\ u.hak[m] = s.mem[a]
      <4>1. d = c
        BY <3>2 DEF OneCheat
      <4> QED  BY <1>5, <2>4, <3>2, <4>1
    <3> QED  BY <1>6, <2>5, <3>1, <3>2
  <2>7. /\ \A k \in Slot : u.hak[n] = Hack(k) => k = n
        /\ a < Top => u.hak[n] = Game(a) \/ u.hak[n] = Hack(n)
    BY <1>5, <2>6, Distinct DEF Values
  <2>8. Placed(u)
    BY <2>1, <2>5, <2>7 DEF Kept, Placed
  <2>9. Games(u)
    BY <2>5, <2>7 DEF Kept, Games
  <2>10. StdClean(u)
    BY <2>4, <2>5 DEF Kept, StdClean
  <2>11. Unseen(u)
    <3> SUFFICES ASSUME NEW d \in Cheat, NEW k \in LinesOf(d), NEW p \in PointersOf(d, k),
                        IsBase(pointer[p]), u.std[p] # Base(pointer[p]),
                        NEW b \in Word, u.mem[b] = Hack(k)
                 PROVE  FALSE
      BY DEF Unseen
    <3>1. p \in Slot /\ p # n /\ k \in Slot
      BY <1>6, PointersBefore DEF Pointers
    <3>2. s.std[p] # Base(pointer[p])
      BY <2>5, <3>1
    <3>3. s.mem[b] # Hack(k)
      BY <3>2 DEF Kept, Unseen
    <3>4. b = a /\ k = n
      BY <2>5, <2>7, <3>1, <3>3
    <3>5. d = c
      BY <3>4 DEF OneCheat
    <3> QED  BY <2>1, <3>2, <3>4, <3>5
  <2>12. BackedUp(u)
    <3> SUFFICES ASSUME NEW d \in Cheat, NEW m \in LinesOf(d) \cap Plain,
                        OwnBase(d, m) = 0 \/ IsBase(OwnBase(d, m)), WordOf(d, m) < Top
                 PROVE  u.std[m] = Game(WordOf(d, m))
      BY DEF BackedUp
    <3>1. CASE u.std[m] = s.std[m]
      BY <3>1 DEF Kept, BackedUp
    <3>2. CASE m = n /\ Backup(s, n, f) /\ u.std[m] = s.mem[a]
      <4>1. d = c
        BY <3>2 DEF OneCheat
      <4> QED  BY <1>5, <2>4, <3>2, <4>1
    <3> QED  BY <1>6, <2>5, <3>1, <3>2
  <2>13. Settled(u, c, n + 1)
    <3>1. \A p \in PointersOf(c, n) : u.std[p] = s.std[p]
      BY <2>5, PointersBefore DEF Pointers
    <3>2. ASSUME NEW k \in LinesOf(c), k >= n + 1, NEW b \in Word, u.mem[b] = Hack(k)
          PROVE  s.mem[b] = Hack(k) /\ k >= n
      <4>1. k # n /\ k >= n /\ k \in Slot
        BY <1>6, <3>2
      <4>2. b # a
        BY <2>5, <2>7, <3>2, <4>1
      <4> QED  BY <2>5, <3>2, <4>1, <4>2
    <3> QED  BY <1>2, <1>4, <1>7, <3>1, <3>2 DEF Settled, SameLocals
  <2> QED  BY <1>3, <1>10, <2>6, <2>8, <2>9, <2>10, <2>11, <2>12, <2>13 DEF Kept, u
<1> QED  BY <1>8, <1>9

LEMMA EnableLineKeeps ==
  ASSUME Fixed, JokersLead, FrozenReached, OneCheat, Apart, NEW c \in Cheat, NEW f \in BOOLEAN,
         NEW t, InCall(t, c), t.at \in LinesOf(c), Kept(t), Settled(t, c, t.at),
         f \/ Frozen(t, c)
  PROVE  Kept(EnableLine(t, f)) /\ Settled(EnableLine(t, f), c, EnableLine(t, f).at)
<1> DEFINE n == LineAt(t)
           v == EnableLine(t, f)
<1>1. n \in LinesOf(c) /\ n \in Slot /\ t \in Call
  BY EnableEffect DEF InCall
<1>2. PICK u : /\ Moved(u, t, n)
               /\ \/ n \in Pointers /\ v = FollowPointer(u, n)
                  \/ Kind[n] # "pointer" /\ u.joker /\ v = Restore(u, n, Top)
                  \/ Kind[n] # "pointer" /\ ~u.joker /\ v = Write(u, n, f)
  BY <1>1, EnableEffect
<1>3. v.at = n + 1
  BY RoundIn
<1>4. /\ PointersOf(c, n) = PointersOf(c, t.at) /\ OwnBase(c, n) = OwnBase(c, t.at)
      /\ n >= t.at /\ t.at \in Nat /\ n \in Nat
  BY <1>1, LineAtBase
<1>5. n \in Freeze => Kind[n] = "plain"
  BY <1>1 DEF FrozenReached
<1> HIDE DEF n, v
<1>6. Kept(u) /\ u \in Call
  BY <1>2 DEF Moved, Kept, Placed, Games, StdClean, Values, Unseen, NoFiller, BackedUp, NoBase
<1>7. Settled(u, c, n)
  <2>1. Reached(c, n) <=> Reached(c, t.at)
    BY <1>4 DEF Reached, ReachedBy, BaseBy
  <2>2. \A k \in LinesOf(c) : k >= n => k >= t.at
    BY <1>4, Numbers DEF LinesOf
  <2> QED  BY <1>2, <1>4, <2>1, <2>2 DEF Settled, Moved
<1>8. Top \in Int /\ Top <= Top
  BY Numbers
<1>9. n \in Freeze => Backup(u, n, f) \/ u.hak[n] # Hack(n) \/ u.NULLPOINTER
  BY <1>1, <1>2, <1>5, <1>7 DEF Backup, Frozen, Moved, Settled
<1>10. Kept(v) /\ Settled(v, c, n + 1)
  <2>1. CASE n \in Pointers /\ v = FollowPointer(u, n)
    BY <1>1, <1>6, <2>1, FollowKeeps
  <2>2. CASE Kind[n] # "pointer" /\ u.joker /\ v = Restore(u, n, Top)
    BY <1>1, <1>6, <1>7, <1>8, <2>2, RestoreKeeps
  <2>3. CASE Kind[n] # "pointer" /\ ~u.joker /\ v = Write(u, n, f)
    BY <1>1, <1>6, <1>7, <1>9, <2>3, WriteKeeps
  <2> QED  BY <1>2, <2>1, <2>2, <2>3
<1> QED  BY <1>3, <1>10 DEF v

LEMMA DisableLineKeeps ==
  ASSUME Fixed, NEW c \in Cheat, NEW t, InCall(t, c), t.at \in LinesOf(c), Kept(t),
         Settled(t, c, t.at)
  PROVE  Kept(DisableLine(t)) /\ Settled(DisableLine(t), c, DisableLine(t).at)
<1> DEFINE n == t.at
           v == DisableLine(t)
           u == [t EXCEPT !.at = @ + 1]
<1>1. n \in LinesOf(c) /\ n \in Slot /\ t \in Call
  BY Numbers DEF InCall, LinesOf
<1>2. /\ u \in Call /\ u.mem = t.mem /\ u.std = t.std /\ u.hak = t.hak /\ u.dma = t.dma
      /\ u.resetDMA = t.resetDMA /\ u.NULLPOINTER = t.NULLPOINTER
  BY <1>1 DEF Call
<1>3. v = IF Kind[n] = "pointer" THEN FollowPointer(u, n) ELSE Restore(u, n, Top - 1)
  BY DEF DisableLine
<1>4. v.at = n + 1
  BY <1>1, DisableLineType
<1> HIDE DEF v, u
<1>5. Kept(u)
  BY <1>2 DEF Kept, Placed, Games, StdClean, Values, Unseen, NoFiller, BackedUp, NoBase
<1>6. Settled(u, c, n)
  <2> HIDE DEF n
  <2> QED  BY <1>2 DEF Settled, n
<1>7. Top - 1 \in Int /\ Top - 1 <= Top
  BY Numbers
<1>8. Kept(v) /\ Settled(v, c, n + 1)
  <2> HIDE DEF n
  <2>1. CASE Kind[n] = "pointer"
    <3>1. n \in Pointers
      BY <1>1, <2>1 DEF Pointers
    <3> QED  BY <1>1, <1>2, <1>3, <1>5, <2>1, <3>1, FollowKeeps
  <2>2. CASE Kind[n] # "pointer"
    BY <1>1, <1>2, <1>3, <1>5, <1>6, <1>7, <2>2, RestoreKeeps
  <2> QED  BY <2>1, <2>2
<1> QED  BY <1>4, <1>8 DEF v

LEMMA EnterSettled ==
  ASSUME NEW c \in Cheat, NEW s \in State, Kept(s), NEW e, e = Enter(s, c)
  PROVE  Kept(e) /\ Settled(e, c, e.at) /\ e \in Call
<1>1. /\ e.mem = s.mem /\ e.std = s.std /\ e.hak = s.hak /\ e.dma = 0 /\ e.at = Start[c]
      /\ ~e.resetDMA /\ ~e.NULLPOINTER /\ e \in Call
  BY EnterType DEF Enter
<1>2. Kept(e)
  BY <1>1 DEF Kept, Placed, Games, StdClean, Values, Unseen, NoFiller, BackedUp, NoBase
<1>3. PointersOf(c, e.at) = {} /\ OwnBase(c, e.at) = 0
  BY <1>1, PointersNext, OwnBaseNext
<1>4. Settled(e, c, e.at)
  BY <1>1, <1>3 DEF Settled, Reached, ReachedBy
<1> QED  BY <1>1, <1>2, <1>4

LEMMA CallKeeps ==
  ASSUME Fixed, JokersLead, FrozenReached, OneCheat, Apart, NEW c \in Cheat,
         NEW s \in State, Kept(s)
  PROVE  Kept(cheatEnable(s, c, TRUE)) /\ Kept(cheatDisable(s, c))
<1> DEFINE G == {t \in Call : Kept(t) /\ Settled(t, c, t.at)}
<1>1. Enter(s, c) \in G
  BY EnterSettled
<1>2. ASSUME NEW t \in G, InCall(t, c), t.at \in LinesOf(c)
      PROVE  EnableLine(t, TRUE) \in G /\ DisableLine(t) \in G
  <2>1. t.at \in Slot /\ t \in Call /\ TRUE \in BOOLEAN
    BY <1>2, Numbers DEF LinesOf
  <2>2. EnableLine(t, TRUE) \in Call /\ DisableLine(t) \in Call
    BY <2>1, EnableLineType, DisableLineType
  <2> QED  BY <1>2, <2>1, <2>2, EnableLineKeeps, DisableLineKeeps
<1>3. \A t \in G : Kept(Leave(t))
  BY DEF Leave, Kept, Placed, Games, StdClean, Values, Unseen, NoFiller, BackedUp, NoBase
<1> HIDE DEF G
<1>4. \E t \in G : cheatEnable(s, c, TRUE) = Leave(t)
  <2>1. TRUE \in BOOLEAN
    OBVIOUS
  <2> QED  BY <1>1, <1>2, <2>1, EnableInvariant
<1>5. \E t \in G : cheatDisable(s, c) = Leave(t)
  BY <1>1, <1>2, DisableInvariant
<1> QED  BY <1>3, <1>4, <1>5

(* The walk of the trigger, over a game that nothing was written to.       *)
Untried(s) ==
  /\ \A a \in Word : s.mem[a] = Game(a)
  /\ \A n \in Slot : s.std[n] = Unset /\ s.hak[n] = Hack(n)
  /\ NoBase(s)

Walked(t, n) ==
  /\ \A a \in Word : t.mem[a] = Game(a)
  /\ \A m \in Slot : t.hak[m] = Hack(m)
  /\ StdClean(t) /\ NoBase(t)
  /\ \A c \in Cheat : n \in Start[c] + 1 .. End[c] - 1 => t.dma = OwnBase(c, n)
  /\ \A c \in Cheat : \A m \in LinesOf(c) \cap Plain :
       m < n /\ WordOf(c, m) < Top => t.std[m] = Game(WordOf(c, m))

LEMMA WalkLine ==
  ASSUME Fixed, Laid, NEW n \in Slot, NEW t \in State, Walked(t, n)
  PROVE  Walked(BackUpLine(t, n), n + 1)
<1> DEFINE u == BackUpLine(t, n)
           d == IF \E c \in Cheat : Start[c] = n THEN 0 ELSE t.dma
<1>1. /\ u \in State /\ u.mem = t.mem /\ u.hak = t.hak
      /\ \A m \in Slot : m # n => u.std[m] = t.std[m]
      /\ u.dma = (IF Kind[n] = "pointer" THEN pointer[n] ELSE d)
      /\ Kind[n] # "pointer" =>
           IF Kind[n] # "joker" /\ d + address[n] < Top
             THEN d + address[n] \in Word /\ u.std[n] = t.mem[d + address[n]]
             ELSE u.std[n] = t.std[n]
  BY BackUpEffect
<1>2. Kind[n] = "pointer" => u.std[n] = Base(pointer[n]) \/ u.std[n] = t.std[n]
  BY BackUpEffect
<1> HIDE DEF u
<1>3. n \in Nat /\ \A c \in Cheat : /\ Start[c] \in Nat /\ End[c] \in Nat
                                    /\ \A m \in LinesOf(c) : m \in Slot /\ m \in Nat
  BY Numbers DEF LinesOf
<1>4. ASSUME NEW c \in Cheat, n \in LinesOf(c) PROVE d = OwnBase(c, n)
  <2>1. CASE n = Start[c]
    BY <2>1, OwnBaseNext
  <2>2. CASE n # Start[c]
    <3>1. n \in Start[c] + 1 .. End[c] - 1
      BY <1>3, <1>4, <2>2 DEF LinesOf
    <3>2. ~ \E e \in Cheat : Start[e] = n
      BY <3>1 DEF Laid
    <3> QED  BY <3>1, <3>2 DEF Walked
  <2> QED  BY <2>1, <2>2
<1> HIDE DEF d
<1>5. ASSUME NEW c \in Cheat, n + 1 \in Start[c] + 1 .. End[c] - 1
      PROVE  u.dma = OwnBase(c, n + 1)
  <2>1. n \in LinesOf(c)
    BY <1>3, <1>5 DEF LinesOf
  <2> QED  BY <1>1, <1>4, <2>1, OwnBaseNext
<1>6. StdClean(u)
  <2>1. \/ u.std[n] = t.std[n] \/ u.std[n] = Base(pointer[n])
        \/ \E a \in Word : u.std[n] = Game(a)
    BY <1>1, <1>2 DEF Walked
  <2>2. \A k \in Slot : t.std[n] # Hack(k)
    BY DEF Walked, StdClean
  <2>3. \A k \in Slot : u.std[n] # Hack(k)
    BY <2>1, <2>2, Distinct
  <2>4. \A m, k \in Slot : m # n => u.std[m] # Hack(k)
    BY <1>1 DEF Walked, StdClean
  <2> QED  BY <2>3, <2>4 DEF StdClean
<1>7. ASSUME NEW c \in Cheat, NEW m \in LinesOf(c) \cap Plain, m < n + 1, WordOf(c, m) < Top
      PROVE  u.std[m] = Game(WordOf(c, m))
  <2>1. m \in Slot /\ m \in Nat
    BY <1>3
  <2>2. CASE m = n
    <3>1. d + address[n] = WordOf(c, n)
      BY <1>4, <2>2 DEF WordOf, WordBy, BaseBy, OwnBase
    <3>2. Kind[n] = "plain"
      BY <2>2 DEF Plain
    <3> QED  BY <1>1, <1>7, <2>2, <3>1, <3>2 DEF Walked
  <2>3. CASE m # n
    <3>1. m < n
      BY <1>3, <1>7, <2>1, <2>3
    <3> QED  BY <1>1, <1>7, <2>1, <2>3, <3>1 DEF Walked
  <2> QED  BY <2>2, <2>3
<1>9. NoBase(u)
  <2>1. Pointers = {} => Kind[n] # "pointer" /\ t.dma = 0
    BY DEF Pointers, Walked, NoBase
  <2>2. d = 0 \/ d = t.dma
    BY DEF d
  <2> QED  BY <1>1, <2>1, <2>2 DEF NoBase
<1>8. Walked(u, n + 1)
  BY <1>1, <1>5, <1>6, <1>7, <1>9 DEF Walked
<1> QED  BY <1>8 DEF u

LEMMA BackUpKeeps ==
  ASSUME Fixed, Laid, NEW s \in State, Untried(s)
  PROVE  BackUp(s) \in State /\ Kept(BackUp(s))
         /\ \A n \in Slot, a \in Word : BackUp(s).mem[a] # Hack(n)
<1> DEFINE G == [n \in 0 .. Cardinality(Slot) |-> {t \in State : Walked(t, n)}]
           u == BackUp(s)
           L == Cardinality(Slot)
<1>1. \A n \in Slot : n \in 0 .. L /\ n + 1 \in 0 .. L
  BY Numbers
<1>2. 0 \in 0 .. L /\ L \in 0 .. L
  BY Numbers
<1>3. Walked(s, 0)
  <2>1. StdClean(s)
    BY Distinct DEF Untried, StdClean
  <2>2. \A c \in Cheat : 0 \notin Start[c] + 1 .. End[c] - 1 /\ \A m \in LinesOf(c) : ~(m < 0)
    BY Numbers DEF LinesOf
  <2> QED  BY <2>1, <2>2 DEF Walked, Untried
<1>4. ASSUME NEW n \in Slot, NEW t \in State, t \in G[n] PROVE BackUpLine(t, n) \in G[n + 1]
  <2>1. Walked(t, n)
    BY <1>1, <1>4
  <2>2. BackUpLine(t, n) \in State /\ Walked(BackUpLine(t, n), n + 1)
    BY <2>1, WalkLine, BackUpLineType
  <2> QED  BY <1>1, <2>2
<1>5. s \in G[0]
  BY <1>2, <1>3
<1>6. u \in State /\ u \in G[L]
  <2> HIDE DEF G
  <2> QED  BY <1>4, <1>5, BackUpInvariant
<1>7. Walked(u, L)
  BY <1>2, <1>6
<1> HIDE DEF G, u
<1>8. \A c \in Cheat : \A m \in LinesOf(c) : m < L /\ m \in Slot
  BY Numbers DEF LinesOf
<1>9. BackedUp(u)
  BY <1>7, <1>8 DEF Walked, BackedUp, L
<1>10. \A n \in Slot, a \in Word : u.mem[a] # Hack(n)
  BY <1>7, Distinct DEF Walked
<1>11. Placed(u) /\ Games(u) /\ StdClean(u) /\ Unseen(u)
  BY <1>7, <1>8, <1>10 DEF Walked, Placed, Games, Unseen
<1>12. Values(u)
  BY <1>7, <1>8 DEF Walked, Values
<1>13. NoFiller(u)
  <2>1. Freeze \subseteq Slot
    BY TableAssumption
  <2> QED  BY <1>7, <1>10, <2>1, Distinct DEF Walked, NoFiller, StdClean
<1>14. NoBase(u)
  BY <1>7 DEF Walked
<1> QED  BY <1>6, <1>9, <1>10, <1>11, <1>12, <1>13, <1>14 DEF Kept, u

LEMMA PressedKeeps ==
  ASSUME Fixed, JokersLead, FrozenReached, Laid, Apart, Machine \in State, cheatStatus \in BOOLEAN,
         cheatSaved => Kept(Machine), ~cheatSaved => Untried(Machine)
  PROVE  Pressed \in State /\ Kept(Pressed)
<1> DEFINE P == {t \in State : Kept(t)}
           G == [n \in 0 .. N |-> P]
<1>1. 0 \in 0 .. N /\ N \in 0 .. N /\ \A c \in Cheat : c \in 0 .. N /\ c + 1 \in 0 .. N
  BY Numbers DEF Cheat
<1>2. (IF cheatSaved THEN Machine ELSE BackUp(Machine)) \in P
  BY BackUpKeeps
<1>3. ASSUME NEW c \in Cheat, NEW t \in P PROVE PressCheat(t, c, ~cheatStatus) \in P
  <2>1. \A x \in P : cheatEnable(x, c, TRUE) \in P /\ cheatDisable(x, c) \in P
    <3>1. TRUE \in BOOLEAN
      OBVIOUS
    <3> QED  BY <3>1, CallType, CallKeeps DEF Laid
  <2> HIDE DEF P
  <2> QED  BY <2>1 DEF PressCheat
<1>4. /\ (IF cheatSaved THEN Machine ELSE BackUp(Machine)) \in G[0]
      /\ \A c \in Cheat : \A t \in State : t \in G[c] => PressCheat(t, c, ~cheatStatus) \in G[c + 1]
  BY <1>1, <1>2, <1>3
<1> HIDE DEF G
<1>5. Pressed \in G[N]
  BY <1>4, PressedInvariant
<1> QED  BY <1>1, <1>5 DEF G

LEMMA AppliedKeeps ==
  ASSUME Fixed, JokersLead, FrozenReached, Laid, Apart, Machine \in State, Kept(Machine),
         NEW sel, NEW con, NEW fr
  PROVE  Kept(Applied(sel, con, fr))
<1> DEFINE P == {t \in State : Kept(t)}
           G == [n \in 0 .. N |-> P]
<1>1. 0 \in 0 .. N /\ N \in 0 .. N /\ \A c \in Cheat : c \in 0 .. N /\ c + 1 \in 0 .. N
  BY Numbers DEF Cheat
<1>3. ASSUME NEW c \in Cheat, NEW t \in P PROVE ApplyFresh(t, c, sel, con, fr) \in P
  <2>1. \A x \in P : cheatEnable(x, c, TRUE) \in P /\ cheatDisable(x, c) \in P
    <3>1. TRUE \in BOOLEAN
      OBVIOUS
    <3> QED  BY <3>1, CallType, CallKeeps DEF Laid
  <2> HIDE DEF P
  <2> QED  BY <2>1 DEF ApplyFresh
<1>4. /\ Machine \in G[0]
      /\ \A c \in Cheat : \A t \in State : t \in G[c] => ApplyFresh(t, c, sel, con, fr) \in G[c + 1]
  BY <1>1, <1>3
<1> HIDE DEF G
<1>5. Applied(sel, con, fr) \in G[N]
  BY <1>4, AppliedInvariant
<1> QED  BY <1>1, <1>5 DEF G

KeepInv ==
  /\ FreezeInv /\ Apart
  /\ cheatSaved => Kept(Machine)
  /\ ~cheatSaved => Untried(Machine)
  /\ pc = "enable" => InCall(Running, cur) /\ Settled(Running, cur, run.at)
  /\ "edit" \in Uses => \A n \in Plain : address[n] \in 1 .. Top - 1

(* Where pointers and addresses stay, what is said of words stays.         *)
LEMMA SameLines ==
  /\ \A c, n : PointersOf(c, n)' = PointersOf(c, n)
  /\ \A c : LinesOf(c)' = LinesOf(c)
BY DEF PointersOf, LinesOf, Start, End

LEMMA SameWords ==
  ASSUME UNCHANGED <<pointer, address>>
  PROVE  /\ Apart => Apart'
         /\ Kept(Machine') => Kept(Machine)'
         /\ Untried(Machine') => Untried(Machine)'
         /\ \A c, n : Settled(Running', c, n) => Settled(Running, c, n)'
         /\ \A c : InCall(Running', c) => InCall(Running, c)'
<1>1. Apart => Apart'
  <2>1. \A c, n : ReachedBy(pointer, c, n)' = ReachedBy(pointer, c, n)
    BY DEF ReachedBy, BaseBy, IsBase, PointersOf, LinesOf, Start, End
  <2>2. \A c, n : WordBy(pointer, address, c, n)' = WordBy(pointer, address, c, n)
    BY DEF WordBy, BaseBy, PointersOf, LinesOf, Start, End
  <2> QED  BY <2>1, <2>2 DEF Apart, ApartBy, Written, LinesOf, Start, End
<1>2. Kept(Machine') => Kept(Machine)'
  <2> SUFFICES ASSUME Kept(Machine') PROVE Kept(Machine)'
    OBVIOUS
  <2>1. Placed(Machine)'
    BY DEF Kept, Placed, At, Reached, ReachedBy, WordOf, WordBy, BaseBy, PointersOf, LinesOf, Start, End
  <2>2. Games(Machine)' /\ StdClean(Machine)' /\ NoFiller(Machine)' /\ NoBase(Machine)'
    BY DEF Kept, Games, StdClean, NoFiller, NoBase
  <2>3. Values(Machine)'
    BY DEF Kept, Values, WordOf, WordBy, BaseBy, PointersOf, LinesOf, Start, End
  <2>4. Unseen(Machine)'
    BY DEF Kept, Unseen, PointersOf, LinesOf, Start, End
  <2>5. BackedUp(Machine)'
    BY DEF Kept, BackedUp, WordOf, WordBy, BaseBy, OwnBase, PointersOf, LinesOf, Start, End
  <2> QED  BY <2>1, <2>2, <2>3, <2>4, <2>5 DEF Kept
<1>3. Untried(Machine') => Untried(Machine)'
  BY DEF Untried, NoBase
<1>4. ASSUME NEW c, NEW n, Settled(Running', c, n) PROVE Settled(Running, c, n)'
  BY <1>4 DEF Settled, OwnBase, Reached, ReachedBy, BaseBy, PointersOf, LinesOf, Start, End
<1>5. ASSUME NEW c, InCall(Running', c) PROVE InCall(Running, c)'
  BY <1>5 DEF InCall, Start, End
<1> QED  BY <1>1, <1>2, <1>3, <1>4, <1>5

LEMMA KeepInit == ASSUME Calm, AlwaysApart, Init PROVE KeepInv
<1>1. FreezeInv
  BY FreezeInit
<1>2. address = Address /\ pc = "loop" /\ ~cheatSaved /\ pointer \in [Pointers -> Bases]
  BY DEF Init
<1>3. Apart
  BY <1>2 DEF AlwaysApart, Apart
<1>4. Untried(Machine)
  BY DEF Init, Untried, NoBase, Machine
<1>5. "edit" \in Uses => \A n \in Plain : address[n] \in 1 .. Top - 1
  BY <1>2 DEF Calm
<1> QED  BY <1>1, <1>2, <1>3, <1>4, <1>5 DEF KeepInv

LEMMA KeepLine ==
  ASSUME Calm, JokersLead, FrozenReached, Laid, KeepInv, PassLine, FreezeInv'
  PROVE  KeepInv'
<1> DEFINE f == cur \in fresh
           s == EnableLine(Running, f)
<1>1. /\ cur \in Cheat /\ Fixed /\ f \in BOOLEAN /\ InCall(Running, cur)
      /\ Settled(Running, cur, run.at) /\ Kept(Machine) /\ Apart /\ OneCheat
      /\ cheatSaved /\ pc = "enable" /\ Live(cur) /\ Frozen(Machine, cur)
  BY MachineType DEF PassLine, KeepInv, FreezeInv, TypeInv, PassFlags, On, Live, Laid
<1>2. /\ Running.at = run.at /\ Running.mem = mem /\ Running.std = stdVal /\ Running.hak = hakVal
      /\ Running.dma = cheatDMA
  BY DEF Running
<1>3. Running.at \in LinesOf(cur)
  BY <1>1, <1>2, Numbers DEF PassLine, InCall, LinesOf
<1>4. Kept(Running) /\ Frozen(Running, cur)
  <2>1. /\ Running.mem = Machine.mem /\ Running.std = Machine.std /\ Running.hak = Machine.hak
        /\ Running.dma = Machine.dma
    BY <1>2 DEF Machine
  <2> HIDE DEF Running, Machine
  <2> QED  BY <1>1, <2>1 DEF Kept, Placed, Games, StdClean, Values, Unseen, NoFiller, BackedUp, NoBase,
                             Frozen
<1>5. Kept(s) /\ Settled(s, cur, s.at)
  <2> HIDE DEF f
  <2> QED  BY <1>1, <1>2, <1>3, <1>4, EnableLineKeeps
<1>6. InCall(s, cur)
  <2> HIDE DEF f
  <2> QED  BY <1>1, <1>3, RoundIn
<1>7. /\ Becomes(s)
      /\ run' = [at |-> s.at, resetDMA |-> s.resetDMA, NULLPOINTER |-> s.NULLPOINTER, joker |-> s.joker]
      /\ UNCHANGED <<pointer, address, cheatSaved, pc, cur>>
  BY DEF PassLine, Running, status, game
<1> HIDE DEF s
<1>8. Running' = s
  <2>1. s \in Call
    BY <1>6 DEF InCall
  <2> QED  BY <1>7, <2>1 DEF Running, Becomes, Call
<1>9. Kept(Machine')
  <2>1. /\ Machine'.mem = s.mem /\ Machine'.std = s.std /\ Machine'.hak = s.hak
        /\ Machine'.dma = s.dma
    BY <1>7 DEF Becomes, Machine
  <2> HIDE DEF Machine
  <2> QED  BY <1>5, <2>1 DEF Kept, Placed, Games, StdClean, Values, Unseen, NoFiller, BackedUp, NoBase
<1>10. InCall(Running', cur') /\ Settled(Running', cur', run'.at)
  BY <1>5, <1>6, <1>7, <1>8
<1>11. (InCall(Running, cur) /\ Settled(Running, cur, run.at))'
  <2> HIDE DEF Running
  <2> QED  BY <1>7, <1>10, SameWords
<1> QED  BY <1>1, <1>7, <1>9, <1>11, SameWords DEF KeepInv

LEMMA KeepPass ==
  ASSUME KeepInv, EnterMenu \/ StartPass \/ PassCheat \/ PassCheatEnd \/ EndPass, FreezeInv'
  PROVE  KeepInv'
<1>1. UNCHANGED <<mem, stdVal, hakVal, pointer, address, cheatSaved>>
      /\ (cheatDMA' = cheatDMA \/ cheatDMA' = 0)
  BY DEF EnterMenu, StartPass, PassCheat, PassCheatEnd, EndPass, flags, status, lines, game
<1>2. (cheatSaved => Kept(Machine')) /\ (~cheatSaved => Untried(Machine'))
  <2>1. /\ Machine'.mem = Machine.mem /\ Machine'.std = Machine.std /\ Machine'.hak = Machine.hak
        /\ (Machine'.dma = Machine.dma \/ Machine'.dma = 0)
    BY <1>1 DEF Machine
  <2> HIDE DEF Machine
  <2> QED  BY <2>1 DEF KeepInv, Kept, Placed, Games, StdClean, Values, Unseen, NoFiller, BackedUp,
                       NoBase, Untried
<1>3. (cheatSaved => Kept(Machine))' /\ (~cheatSaved => Untried(Machine))' /\ Apart'
  BY <1>1, <1>2, SameWords DEF KeepInv
<1>4. ASSUME pc' = "enable"
      PROVE  (InCall(Running, cur) /\ Settled(Running, cur, run.at))'
  <2>1. /\ PassCheat /\ cur \in Cheat /\ cur' = cur /\ cheatDMA' = 0
        /\ run' = [NoRun EXCEPT !.at = Start[cur]]
    BY <1>4, Numbers DEF EnterMenu, StartPass, PassCheat, PassCheatEnd, EndPass, Cheat, KeepInv,
                FreezeInv, TypeInv, TypeOK
  <2>2. /\ run'.at = Start[cur] /\ Start[cur] \in Start[cur] .. End[cur]
        /\ ~run'.resetDMA /\ ~run'.NULLPOINTER
    BY <2>1, Numbers DEF NoRun
  <2>3. Running' \in Call
    BY DEF FreezeInv, TypeInv, TypeOK, Running, Call
  <2>4. /\ Running'.at = run'.at /\ Running'.dma = cheatDMA'
        /\ Running'.resetDMA = run'.resetDMA /\ Running'.NULLPOINTER = run'.NULLPOINTER
    BY DEF Running
  <2>5. InCall(Running', cur') /\ Settled(Running', cur', run'.at)
    <3> HIDE DEF Running
    <3>1. PointersOf(cur, Start[cur]) = {} /\ OwnBase(cur, Start[cur]) = 0
      BY <2>1, PointersNext, OwnBaseNext
    <3> QED  BY <2>1, <2>2, <2>3, <2>4, <3>1 DEF InCall, Settled, Reached, ReachedBy
  <2> HIDE DEF Running
  <2> QED  BY <1>1, <2>5, SameWords
<1> QED  BY <1>1, <1>3, <1>4 DEF KeepInv

(* A step that leaves the engine alone: the game may write a word.         *)
LEMMA KeepQuiet ==
  ASSUME KeepInv, FreezeInv',
         UNCHANGED <<pointer, stdVal, hakVal, address, cheatDMA, cheatSaved, cur, run>>,
         pc' = pc \/ pc' = "loop",
         \A a \in Word : mem'[a] = mem[a] \/ mem'[a] = Game(a)
  PROVE  KeepInv'
<1>1. /\ \A a \in Word : Machine'.mem[a] = Machine.mem[a] \/ Machine'.mem[a] = Game(a)
      /\ Machine'.std = Machine.std /\ Machine'.hak = Machine.hak /\ Machine'.dma = Machine.dma
  BY DEF Machine
<1>2. \A n \in Slot, a \in Word : Machine'.mem[a] = Hack(n) => Machine.mem[a] = Hack(n)
  <2> HIDE DEF Machine
  <2> QED  BY <1>1, Distinct
<1>3. ASSUME Kept(Machine) PROVE Kept(Machine')
  <2> HIDE DEF Machine
  <2>1. Placed(Machine')
    BY <1>2, <1>3 DEF Kept, Placed
  <2>2. Games(Machine')
    BY <1>1, <1>3 DEF Kept, Games
  <2>3. StdClean(Machine') /\ Values(Machine') /\ BackedUp(Machine') /\ NoBase(Machine')
    BY <1>1, <1>3 DEF Kept, StdClean, Values, BackedUp, NoBase
  <2>4. Unseen(Machine')
    <3>1. \A d \in Cheat : \A k \in LinesOf(d) : k \in Slot
      BY Numbers DEF LinesOf
    <3> QED  BY <1>1, <1>2, <1>3, <3>1 DEF Kept, Unseen
  <2>5. NoFiller(Machine')
    <3>1. Freeze \subseteq Slot
      BY TableAssumption
    <3> QED  BY <1>1, <1>2, <1>3, <3>1 DEF Kept, NoFiller
  <2> QED  BY <2>1, <2>2, <2>3, <2>4, <2>5 DEF Kept
<1>4. Untried(Machine) => Untried(Machine')
  <2> HIDE DEF Machine
  <2> QED  BY <1>1 DEF Untried, NoBase
<1>5. ASSUME pc' = "enable"
      PROVE  InCall(Running', cur) /\ Settled(Running', cur, run.at)
  <2>1. InCall(Running, cur) /\ Settled(Running, cur, run.at)
    BY <1>5 DEF KeepInv
  <2>2. Running' \in Call
    BY DEF FreezeInv, TypeInv, TypeOK, Running, Call
  <2>3. /\ Running'.at = Running.at /\ Running'.dma = Running.dma /\ Running'.std = Running.std
        /\ Running'.resetDMA = Running.resetDMA /\ Running'.NULLPOINTER = Running.NULLPOINTER
    BY DEF Running
  <2>4. \A n \in Slot, a \in Word : Running'.mem[a] = Hack(n) => Running.mem[a] = Hack(n)
    BY <1>2 DEF Running, Machine
  <2> HIDE DEF Running
  <2>5. cur \in Cheat /\ \A k \in LinesOf(cur) : k \in Slot
    BY <1>5, Numbers DEF LinesOf, KeepInv, FreezeInv, TypeInv
  <2> QED  BY <2>1, <2>2, <2>3, <2>4, <2>5 DEF InCall, Settled
<1> QED  BY <1>3, <1>4, <1>5, SameWords DEF KeepInv

(* A step that makes whole calls: where it may come in the middle of a     *)
(* pass there are no pointers.                                             *)
LEMMA KeepSwitch ==
  ASSUME KeepInv, FreezeInv', NEW s \in State, Becomes(s), Kept(s), cheatSaved',
         UNCHANGED <<pointer, address, pc, cur, run>>, pc = "enable" => NoPointers
  PROVE  KeepInv'
<1>1. /\ Machine'.mem = s.mem /\ Machine'.std = s.std /\ Machine'.hak = s.hak
      /\ Machine'.dma = s.dma
  BY DEF Becomes, Machine
<1>2. Kept(Machine')
  <2> HIDE DEF Machine
  <2> QED  BY <1>1 DEF Kept, Placed, Games, StdClean, Values, Unseen, NoFiller, BackedUp, NoBase
<1>3. ASSUME pc' = "enable"
      PROVE  InCall(Running', cur) /\ Settled(Running', cur, run.at)
  <2>1. InCall(Running, cur) /\ Settled(Running, cur, run.at) /\ cur \in Cheat
    BY <1>3 DEF KeepInv, FreezeInv, TypeInv
  <2>2. Running' \in Call
    BY DEF FreezeInv, TypeInv, TypeOK, Running, Call
  <2>3. /\ Running'.at = Running.at /\ Running'.dma = s.dma
        /\ Running'.resetDMA = Running.resetDMA
    BY DEF Running, Becomes
  <2>4. PointersOf(cur, run.at) = {} /\ s.dma = 0 /\ OwnBase(cur, run.at) = 0
    BY <1>3 DEF NoPointers, PointersOf, OwnBase, Kept, NoBase
  <2> HIDE DEF Running
  <2> QED  BY <2>1, <2>2, <2>3, <2>4 DEF InCall, Settled, Reached, ReachedBy
<1> QED  BY <1>2, <1>3, SameWords DEF KeepInv

(* Without pointers the word of a line is the one it names.                *)
LEMMA PlainWords ==
  ASSUME NoPointers
  PROVE  /\ \A c, n : /\ PointersOf(c, n) = {} /\ OwnBase(c, n) = 0 /\ Reached(c, n)
                      /\ WordOf(c, n) = 0 + address[n]
         /\ \A c, n : /\ PointersOf(c, n)' = {} /\ OwnBase(c, n)' = 0 /\ Reached(c, n)'
                      /\ WordOf(c, n)' = 0 + address'[n]
<1>1. \A c, n : PointersOf(c, n) = {} /\ PointersOf(c, n)' = {}
  BY SameLines DEF NoPointers, PointersOf
<1> QED  BY <1>1 DEF OwnBase, Reached, ReachedBy, WordOf, WordBy, BaseBy

LEMMA EditRestores ==
  ASSUME Calm, KeepInv, "edit" \in Uses, NEW n \in Slot, mem' = TakenBack(n)
  PROVE  /\ \A a \in Word : mem'[a] = mem[a] \/ mem'[a] = Game(a)
         /\ cheatSaved /\ Kind[n] = "plain" => mem'[address[n]] = Game(address[n])
         /\ ~cheatSaved => mem' = mem
         /\ cheatDMA = 0
<1>1. NoPointers /\ mem \in [Word -> Value] /\ address \in [Slot -> Word]
  BY DEF Calm, KeepInv, FreezeInv, TypeInv, TypeOK
<1>2. cheatDMA = 0
  BY <1>1 DEF NoPointers, KeepInv, Kept, Untried, NoBase, Machine
<1>3. ASSUME cheatSaved, Kind[n] = "plain"
      PROVE  address[n] \in 1 .. Top - 1 /\ stdVal[n] = Game(address[n])
  <2>1. n \in Plain /\ address[n] \in 1 .. Top - 1
    BY <1>3 DEF Plain, KeepInv
  <2>2. PICK c \in Cheat : n \in LinesOf(c)
    BY DEF Calm
  <2>3. 0 + address[n] = address[n] /\ address[n] < Top
    BY <2>1, Numbers
  <2>4. OwnBase(c, n) = 0 /\ WordOf(c, n) = address[n]
    BY <1>1, <2>3, PlainWords
  <2> QED  BY <1>3, <2>1, <2>2, <2>3, <2>4 DEF KeepInv, Kept, BackedUp, Machine
<1>4. address[n] \in Nat /\ 0 + address[n] = address[n]
  BY <1>1, Numbers
<1>5. CASE cheatSaved /\ Kind[n] = "plain"
  <2>1. Restorable(n, address[n])
    BY <1>3, <1>5, Numbers DEF Restorable
  <2>2. mem' = [mem EXCEPT ![address[n]] = Game(address[n])]
    BY <1>2, <1>3, <1>4, <1>5, <2>1 DEF TakenBack
  <2>3. address[n] \in Word
    BY <1>1
  <2> QED  BY <1>1, <1>2, <1>5, <2>2, <2>3
<1>6. CASE ~(cheatSaved /\ Kind[n] = "plain")
  BY <1>2, <1>6 DEF TakenBack, Restorable
<1> QED  BY <1>5, <1>6

LEMMA KeepEditAddress ==
  ASSUME Calm, KeepInv, FreezeInv', NEW n \in Slot, NEW w \in EditWords, EditAddress(n, w)
  PROVE  KeepInv'
<1>1. /\ pc = "menu" /\ "edit" \in Uses /\ mem' = TakenBack(n)
      /\ \A m \in Slot : address[m] # w
      /\ address' = [address EXCEPT ![n] = w] /\ stdVal' = NewBackup(n, cheatDMA + w)
      /\ UNCHANGED <<pointer, hakVal, cheatDMA, cheatSaved, pc, cur, run>>
      /\ Kind[n] \in {"plain", "cwc"}
  BY DEF EditAddress, game, status, main
<1>2. /\ NoPointers /\ Freeze = {} /\ Kind[n] = "plain" /\ n \in Plain /\ w \in 1 .. Top - 1
      /\ w \in Word
  BY <1>1, Numbers DEF Calm, Plain, Word
<1>3. /\ \A a \in Word : mem'[a] = mem[a] \/ mem'[a] = Game(a)
      /\ cheatSaved => mem'[address[n]] = Game(address[n])
      /\ ~cheatSaved => mem' = mem
      /\ cheatDMA = 0
  BY <1>1, <1>2, EditRestores
<1>4. /\ mem \in [Word -> Value] /\ address \in [Slot -> Word] /\ stdVal \in [Slot -> Value]
      /\ address' \in [Slot -> Word]
  BY DEF KeepInv, FreezeInv, TypeInv, TypeOK
<1>5. address'[n] = w /\ \A m \in Slot : m # n => address'[m] = address[m]
  BY <1>1, <1>4
<1>6. stdVal' = IF cheatSaved THEN [stdVal EXCEPT ![n] = mem'[w]] ELSE stdVal
  <2>1. cheatDMA + w = w /\ 0 < w /\ w < Top
    BY <1>2, <1>3, Numbers
  <2> QED  BY <1>1, <1>2, <2>1 DEF NewBackup, Restorable
<1>7. \A m \in Slot : 0 + address[m] = address[m] /\ 0 + address'[m] = address'[m]
  BY <1>4, Numbers
<1>8. \A c \in Cheat : \A m \in LinesOf(c) : m \in Slot
  BY Numbers DEF LinesOf
<1>9. Apart'
  <2>1. \A c, d \in Cheat : \A k \in LinesOf(c), m \in LinesOf(d) :
          Written(k) /\ Written(m) /\ address[k] = address[m] => k = m
    BY <1>2, <1>7, <1>8, PlainWords DEF KeepInv, Apart, ApartBy, Reached, WordOf
  <2>2. \A c, d \in Cheat : \A k \in LinesOf(c), m \in LinesOf(d) :
          Written(k) /\ Written(m) /\ address'[k] = address'[m] => k = m
    BY <1>1, <1>5, <1>8, <2>1
  <2>3. \A c \in Cheat : \A k \in LinesOf(c) :
          ReachedBy(pointer', c, k) /\ WordBy(pointer', address', c, k) = address'[k]
    <3>1. \A c, k : ReachedBy(pointer', c, k) /\ WordBy(pointer', address', c, k) = 0 + address'[k]
      BY <1>2, PlainWords DEF ReachedBy, WordBy, BaseBy
    <3> QED  BY <1>7, <1>8, <3>1
  <2>4. ApartBy(pointer', address')
    BY <2>2, <2>3 DEF ApartBy
  <2> QED  BY <2>4 DEF Apart, ApartBy, ReachedBy, WordBy, BaseBy, Written, IsBase, PointersOf, LinesOf,
              Start, End
<1>10. ASSUME cheatSaved PROVE Kept(Machine)'
  <2>1. Kept(Machine)
    BY <1>10 DEF KeepInv
  <2>2. \A k \in Slot, a \in Word : mem'[a] = Hack(k) => mem[a] = Hack(k)
    BY <1>3, Distinct
  <2>3. \A k \in Slot, a \in Word :
          mem[a] = Hack(k) => Written(k) /\ a = address[k] /\ \E c \in Cheat : k \in LinesOf(c)
    <3> SUFFICES ASSUME NEW k \in Slot, NEW a \in Word, mem[a] = Hack(k)
                 PROVE  Written(k) /\ a = address[k] /\ \E c \in Cheat : k \in LinesOf(c)
      OBVIOUS
    <3>1. Written(k) /\ At(k, a)
      BY <2>1 DEF Kept, Placed, Machine
    <3>2. PICK c \in Cheat : k \in LinesOf(c) /\ a = WordOf(c, k)
      BY <3>1 DEF At
    <3> QED  BY <1>2, <1>7, <3>1, <3>2, PlainWords
  <2>4. \A k \in Slot, a \in Word : mem'[a] = Hack(k) => a = address'[k]
    BY <1>3, <1>5, <1>10, <2>2, <2>3, Distinct
  <2>5. \A a \in Word : a < Top => mem'[a] = Game(a) \/ \E k \in Slot : mem'[a] = Hack(k)
    BY <1>3, <2>1 DEF Kept, Games, Machine
  <2>6. mem'[w] = Game(w)
    <3>1. \A k \in Slot : mem'[w] # Hack(k)
      BY <1>1, <1>2, <2>2, <2>3
    <3>2. w < Top
      BY <1>2, Numbers
    <3> QED  BY <1>2, <2>5, <3>1, <3>2
  <2>7. stdVal'[n] = Game(w) /\ \A m \in Slot : m # n => stdVal'[m] = stdVal[m]
    BY <1>4, <1>6, <1>10, <2>6
  <2>8. \A c, k : WordOf(c, k)' = 0 + address'[k] /\ PointersOf(c, k)' = {} /\ Reached(c, k)'
    BY <1>2, PlainWords
  <2>9. Placed(Machine)'
    <3>1. \A k \in Slot, a \in Word : mem'[a] = Hack(k) =>
            Written(k) /\ \E c \in Cheat : k \in LinesOf(c) /\ Reached(c, k)' /\ a = WordOf(c, k)'
      BY <1>7, <2>2, <2>3, <2>4, <2>8
    <3> QED  BY <3>1 DEF Placed, At, Written, Machine, LinesOf, Start, End
  <2>10. Games(Machine)'
    BY <2>5 DEF Games, Machine
  <2>11. StdClean(Machine)'
    <3>1. \A m, k \in Slot : stdVal'[m] # Hack(k)
      BY <2>1, <2>7, Distinct DEF Kept, StdClean, Machine
    <3> QED  BY <3>1 DEF StdClean, Machine
  <2>12. Values(Machine)'
    <3>1. \A c \in Cheat : \A k \in LinesOf(c) : hakVal'[k] = Hack(k)
      BY <1>1, <1>2, <2>1 DEF Kept, Values, Machine
    <3> QED  BY <3>1 DEF Values, Machine, LinesOf, Start, End
  <2>13. Unseen(Machine)'
    BY <2>8 DEF Unseen
  <2>14. BackedUp(Machine)'
    <3>1. \A c \in Cheat : \A k \in LinesOf(c) \cap Plain :
            address'[k] < Top => stdVal'[k] = Game(address'[k])
      <4>1. \A c \in Cheat : \A k \in LinesOf(c) \cap Plain :
            address[k] < Top => stdVal[k] = Game(address[k])
        BY <1>2, <1>7, <1>8, <2>1, PlainWords DEF Kept, BackedUp, Machine
      <4> QED  BY <1>5, <1>8, <2>7, <4>1
    <3>2. \A c \in Cheat : \A k \in LinesOf(c) : WordOf(c, k)' = address'[k]
      BY <1>7, <1>8, <2>8
    <3> QED  BY <3>1, <3>2 DEF BackedUp, Machine, LinesOf, Start, End, Plain
  <2>15. NoFiller(Machine)' /\ NoBase(Machine)'
    BY <1>1, <1>2, <2>1 DEF NoFiller, Kept, NoBase, Machine
  <2> QED  BY <2>9, <2>10, <2>11, <2>12, <2>13, <2>14, <2>15 DEF Kept
<1>11. ASSUME ~cheatSaved PROVE Untried(Machine)'
  BY <1>1, <1>3, <1>6, <1>11 DEF KeepInv, Untried, NoBase, Machine
<1>12. \A m \in Plain : address'[m] \in 1 .. Top - 1
  BY <1>1, <1>2, <1>5 DEF KeepInv, Plain
<1> QED  BY <1>1, <1>9, <1>10, <1>11, <1>12 DEF KeepInv, Plain

LEMMA KeepNext ==
  ASSUME Calm, JokersLead, FrozenReached, Laid, KeepInv, [Next]_vars
  PROVE  KeepInv'
<1>1. FreezeInv'
  BY FreezeNext DEF KeepInv
<1>2. CASE MainStep
  BY <1>1, <1>2, KeepPass, KeepLine DEF MainStep
<1>3. Fixed /\ Machine \in State /\ cheatStatus \in BOOLEAN /\ Apart
      /\ (cheatSaved => Kept(Machine)) /\ (~cheatSaved => Untried(Machine))
  BY MachineType DEF KeepInv, FreezeInv, TypeInv, TypeOK
<1>4. CASE PressTrigger
  <2>1. Pressed \in State /\ Kept(Pressed)
    BY <1>3, PressedKeeps
  <2>2. /\ Becomes(Pressed) /\ cheatSaved' /\ UNCHANGED <<pointer, address, pc, cur, run>>
        /\ pc = "enable" => NoPointers
    BY <1>4 DEF PressTrigger, main, game, Calm
  <2> QED  BY <1>1, <2>1, <2>2, KeepSwitch
<1>5. ASSUME NEW c \in Cheat, NEW sel, NEW con, Toggle(sel, con, c), pc = "menu" PROVE KeepInv'
  <2> DEFINE fr == fresh \cup {c}
             u == Applied(sel, con, fr)
  <2>1. cheatSaved => u \in State /\ Kept(u)
    <3> HIDE DEF fr
    <3>1. N \in 0 .. N
      BY Numbers
    <3> QED  BY <1>3, <3>1, AppliedKeeps, AppliedRounds
  <2>2. /\ UNCHANGED <<pointer, address, cheatSaved, pc, cur, run>>
        /\ IF cheatSaved THEN Becomes(u) ELSE UNCHANGED <<mem, stdVal, hakVal, cheatDMA>>
    BY <1>5 DEF Toggle, main, game
  <2> HIDE DEF u
  <2>3. CASE cheatSaved
    BY <1>1, <1>5, <2>1, <2>2, <2>3, KeepSwitch
  <2>4. CASE ~cheatSaved
    BY <1>1, <2>2, <2>4, KeepQuiet
  <2> QED  BY <2>3, <2>4
<1>6. CASE Menu
  <2>1. CASE LeaveMenu
    <3>1. UNCHANGED <<pointer, mem, stdVal, hakVal, address, cheatDMA, cheatSaved, cur, run>>
          /\ pc' = "loop"
      BY <2>1 DEF LeaveMenu, lines, status, game
    <3> QED  BY <1>1, <3>1, KeepQuiet
  <2>2. ASSUME NEW c \in Cheat, ToggleSelected(c) \/ ToggleConstant(c) PROVE KeepInv'
    BY <1>5, <2>2 DEF ToggleSelected, ToggleConstant
  <2>3. ASSUME NEW n \in Slot, EditValue(n) PROVE KeepInv'
    <3>1. /\ "edit" \in Uses /\ mem' = TakenBack(n)
          /\ UNCHANGED <<pointer, stdVal, hakVal, address, cheatDMA, cheatSaved, pc, cur, run>>
      BY <2>3 DEF EditValue, game, lines, status, main
    <3>2. \A a \in Word : mem'[a] = mem[a] \/ mem'[a] = Game(a)
      BY <3>1, EditRestores
    <3> QED  BY <1>1, <3>1, <3>2, KeepQuiet
  <2>4. ASSUME NEW n \in Slot, NEW w \in EditWords, EditAddress(n, w) PROVE KeepInv'
    BY <1>1, <2>4, KeepEditAddress
  <2> QED  BY <1>6, <2>1, <2>2, <2>3, <2>4 DEF Menu
<1>7. CASE PressMenu \/ GameStep \/ UNCHANGED vars
  <2>1. /\ UNCHANGED <<pointer, stdVal, hakVal, address, cheatDMA, cheatSaved, pc, cur, run>>
        /\ \/ UNCHANGED mem
           \/ \E a \in Word : mem' = [mem EXCEPT ![a] = Game(a)]
    BY <1>7 DEF PressMenu, GameStep, GameWrite, GameMove, HoldOrRelease, vars, lines, status, main,
                game, Calm
  <2>2. mem \in [Word -> Value]
    BY DEF KeepInv, FreezeInv, TypeInv, TypeOK
  <2>3. \A a \in Word : mem'[a] = mem[a] \/ mem'[a] = Game(a)
    BY <2>1, <2>2
  <2> QED  BY <1>1, <2>1, <2>3, KeepQuiet
<1> QED  BY <1>2, <1>4, <1>6, <1>7 DEF Next

(* What a plain line puts back is the game's own value of the line's own   *)
(* word, however triggers, toggles, passes, jokers and writes of the game  *)
(* follow one another; where there are no pointers, with the trigger       *)
(* pressed in the middle of a pass and with lines edited as well.          *)
THEOREM BackupsAreGames ==
  ASSUME Calm, JokersLead, FrozenReached, Laid, AlwaysApart
  PROVE  Spec => []BackupIsGames
<1>1. Init => KeepInv
  BY KeepInit
<1>2. KeepInv /\ [Next]_vars => KeepInv'
  BY KeepNext
<1>3. KeepInv => BackupIsGames
  <2>1. \A c, n : WordOf(c, n) = OwnBase(c, n) + address[n]
    BY DEF WordOf, WordBy, BaseBy, OwnBase
  <2> QED  BY <2>1 DEF KeepInv, Kept, BackedUp, Machine, BackupIsGames
<1> QED  BY <1>1, <1>2, <1>3, PTL DEF Spec

(* A line's value stands only at the line's own word, whatever address it  *)
(* is given while its cheat is on or off and however the trigger breaks    *)
(* into a pass: an edit takes the value back first, and from the word it   *)
(* was written to.                                                         *)
THEOREM EditsStayHome ==
  ASSUME Calm, JokersLead, FrozenReached, Laid, AlwaysApart
  PROVE  Spec => []HacksAtOwnWords
<1>1. Init => KeepInv
  BY KeepInit
<1>2. KeepInv /\ [Next]_vars => KeepInv'
  BY KeepNext
<1>3. KeepInv => HacksAtOwnWords
  <2> SUFFICES ASSUME KeepInv, NEW c \in Cheat, NEW n \in LinesOf(c) \cap Plain, NEW a \in Word,
                      mem[a] = Hack(n)
               PROVE  \E b \in OwnBases(c, n) : a = b + address[n]
    BY DEF HacksAtOwnWords
  <2>1. n \in Slot /\ pointer \in [Pointers -> Bases]
    BY DEF Plain, KeepInv, FreezeInv, TypeInv, TypeOK
  <2>2. cheatSaved
    BY <2>1, Distinct DEF KeepInv, Untried, Machine
  <2>3. PICK d \in Cheat : n \in LinesOf(d) /\ Reached(d, n) /\ a = WordOf(d, n)
    BY <2>1, <2>2 DEF KeepInv, Kept, Placed, At, Machine
  <2>4. Reached(c, n) /\ a = WordOf(c, n)
    BY <2>3 DEF Laid, OneCheat
  <2>5. CASE PointersOf(c, n) = {}
    BY <2>4, <2>5 DEF OwnBases, WordOf, WordBy, BaseBy
  <2>6. CASE PointersOf(c, n) # {}
    <3>1. PICK p \in PointersOf(c, n) : p = CHOOSE m \in PointersOf(c, n) : TRUE
      BY <2>6
    <3>2. p \in Pointers /\ pointer[p] \in Bases
      BY <2>1, <3>1 DEF PointersOf
    <3>3. IsBase(pointer[p]) /\ a = pointer[p] + address[n]
      BY <2>4, <2>6, <3>1 DEF Reached, ReachedBy, WordOf, WordBy, BaseBy
    <3> QED  BY <2>6, <3>2, <3>3 DEF OwnBases
  <2> QED  BY <2>5, <2>6
<1> QED  BY <1>1, <1>2, <1>3, PTL DEF Spec
-----------------------------------------------------------------------------
(* Switching off.  Of a cheat that is off no plain line's value is left.   *)
Off(s, c) == \A n \in LinesOf(c) \cap Plain, a \in Word : s.mem[a] # Hack(n)

(* No line that is switched off has its word at the end of the memory.     *)
TopFree == \A c \in Cheat : \A n \in LinesOf(c) \cap Plain : Reached(c, n) => WordOf(c, n) # Top

(* A call writes no lines but those of its cheat.                          *)
OnlyOwn(t, v, c) ==
  \A k \in Slot, a \in Word : v.mem[a] = Hack(k) => t.mem[a] = Hack(k) \/ k \in LinesOf(c)

LEMMA FollowOnly ==
  ASSUME Fixed, NEW s \in Call, NEW n \in Pointers
  PROVE  /\ FollowPointer(s, n).mem = s.mem
         /\ FollowPointer(s, n).NULLPOINTER => ~IsBase(pointer[n]) \/ s.NULLPOINTER
<1> DEFINE u == FollowPointer(s, n)
<1>1. /\ u \in Call /\ u.mem = s.mem /\ u.hak = s.hak /\ u.at = s.at /\ u.joker = s.joker
      /\ u.dma = pointer[n]
      /\ \/ ~IsBase(pointer[n]) /\ u.NULLPOINTER /\ u.std = s.std /\ u.resetDMA = s.resetDMA
         \/ /\ IsBase(pointer[n]) /\ s.std[n] = Base(pointer[n]) /\ u.std = s.std
            /\ ~u.resetDMA /\ u.NULLPOINTER = s.NULLPOINTER
         \/ /\ IsBase(pointer[n]) /\ s.std[n] # Base(pointer[n])
            /\ u.std = [s.std EXCEPT ![n] = Base(pointer[n])]
            /\ u.resetDMA /\ ~u.NULLPOINTER
  BY FollowEffect
<1> HIDE DEF u
<1>2. u.NULLPOINTER => ~IsBase(pointer[n]) \/ s.NULLPOINTER
  BY <1>1
<1> QED  BY <1>1, <1>2 DEF u

LEMMA RestoreOnly ==
  ASSUME Fixed, NEW s \in Call, NEW n \in Slot, NEW last \in Int, last <= Top, StdClean(s)
  PROVE  \A k \in Slot, a \in Word : Restore(s, n, last).mem[a] = Hack(k) => s.mem[a] = Hack(k)
<1> DEFINE u == Restore(s, n, last)
           b == s.dma + address[n]
<1>1. u.mem = s.mem \/ u.mem = [s.mem EXCEPT ![b] = s.std[n]]
  BY RestoreEffect
<1> HIDE DEF u, b
<1>2. \A a \in Word : u.mem[a] = s.mem[a] \/ u.mem[a] = s.std[n]
  BY <1>1 DEF Call
<1>3. \A k \in Slot, a \in Word : u.mem[a] = Hack(k) => s.mem[a] = Hack(k)
  BY <1>2 DEF StdClean
<1> QED  BY <1>3 DEF u

LEMMA WriteOnly ==
  ASSUME Fixed, NEW s \in Call, NEW c \in Cheat, NEW n \in LinesOf(c), NEW f \in BOOLEAN,
         Kept(s)
  PROVE  OnlyOwn(s, Write(s, n, f), c)
<1> DEFINE u == Write(s, n, f)
           b == s.dma + address[n]
<1>1. n \in Slot
  BY Numbers DEF LinesOf
<1>2. \/ u.mem = s.mem
      \/ /\ b \in Word /\ u.mem = [s.mem EXCEPT ![b] = u.hak[n]]
         /\ u.hak = s.hak \/ u.hak = [s.hak EXCEPT ![n] = s.mem[b]]
  <2>1. IF Kind[n] \in {"plain", "cwc"} /\ b <= Top /\ ~s.NULLPOINTER
          THEN /\ b \in Word
               /\ u.std = (IF Backup(s, n, f) THEN [s.std EXCEPT ![n] = s.mem[b]] ELSE s.std)
               /\ u.hak = (IF Backup(s, n, f) /\ n \in Freeze
                             THEN [s.hak EXCEPT ![n] = s.mem[b]] ELSE s.hak)
               /\ u.mem = [s.mem EXCEPT ![b] = u.hak[n]]
          ELSE u.mem = s.mem /\ u.std = s.std /\ u.hak = s.hak
    BY <1>1, WriteEffect
  <2> HIDE DEF u, b
  <2> QED  BY <2>1
<1>3. \A k \in Slot : s.hak[n] = Hack(k) => k = n
  BY Distinct DEF Kept, Values
<1> HIDE DEF u, b
<1>4. \A a \in Word : \/ u.mem[a] = s.mem[a]
                      \/ a = b /\ (u.mem[a] = s.hak[n] \/ u.mem[a] = s.mem[b])
  BY <1>1, <1>2 DEF Call
<1>5. OnlyOwn(s, u, c)
  BY <1>3, <1>4 DEF OnlyOwn
<1> QED  BY <1>5 DEF u

LEMMA EnableOnly ==
  ASSUME Fixed, JokersLead, NEW c \in Cheat, NEW f \in BOOLEAN, NEW t \in Call,
         t.at \in LinesOf(c), Kept(t)
  PROVE  OnlyOwn(t, EnableLine(t, f), c)
<1> DEFINE n == LineAt(t)
           v == EnableLine(t, f)
<1>1. n \in LinesOf(c) /\ n \in Slot
  BY EnableEffect
<1>2. PICK u : /\ Moved(u, t, n)
               /\ \/ n \in Pointers /\ v = FollowPointer(u, n)
                  \/ Kind[n] # "pointer" /\ u.joker /\ v = Restore(u, n, Top)
                  \/ Kind[n] # "pointer" /\ ~u.joker /\ v = Write(u, n, f)
  BY EnableEffect
<1> HIDE DEF n, v
<1>3. Kept(u) /\ u \in Call /\ u.mem = t.mem
  BY <1>2 DEF Moved, Kept, Placed, Games, StdClean, Values, Unseen, NoFiller, BackedUp, NoBase
<1>4. CASE n \in Pointers /\ v = FollowPointer(u, n)
  <2>1. v.mem = u.mem
    BY <1>3, <1>4, FollowOnly
  <2>2. OnlyOwn(t, v, c)
    BY <1>3, <2>1 DEF OnlyOwn
  <2> QED  BY <2>2 DEF v
<1>5. CASE Kind[n] # "pointer" /\ u.joker /\ v = Restore(u, n, Top)
  <2>1. Top \in Int /\ Top <= Top /\ StdClean(u)
    BY <1>3, Numbers DEF Kept
  <2>2. \A k \in Slot, a \in Word : Restore(u, n, Top).mem[a] = Hack(k) => u.mem[a] = Hack(k)
    BY <1>1, <1>3, <2>1, RestoreOnly
  <2>3. OnlyOwn(t, v, c)
    BY <1>3, <1>5, <2>2 DEF OnlyOwn
  <2> QED  BY <2>3 DEF v
<1>6. CASE Kind[n] # "pointer" /\ ~u.joker /\ v = Write(u, n, f)
  <2>1. OnlyOwn(u, v, c)
    BY <1>1, <1>3, <1>6, WriteOnly
  <2>2. OnlyOwn(t, v, c)
    BY <1>3, <2>1 DEF OnlyOwn
  <2> QED  BY <2>2 DEF v
<1> QED  BY <1>2, <1>4, <1>5, <1>6 DEF v

LEMMA OnlyOff ==
  ASSUME OneCheat, NEW t, NEW v, NEW c \in Cheat, NEW d \in Cheat, d # c, OnlyOwn(t, v, c), Off(t, d)
  PROVE  Off(v, d)
BY DEF OneCheat, OnlyOwn, Off, Plain

(* Where a call of a cheat stands: what it skips lies behind a base that   *)
(* is none.                                                                *)
Denied(t, c, n) == t.NULLPOINTER => ~Reached(c, n)
Cleared(t, c, n) == \A m \in LinesOf(c) \cap Plain : m < n => \A a \in Word : t.mem[a] # Hack(m)

LEMMA DisableLineClears ==
  ASSUME Fixed, OnePointer, OneCheat, TopFree, NEW c \in Cheat, NEW t, InCall(t, c), t.at \in LinesOf(c),
         Kept(t), Settled(t, c, t.at), Denied(t, c, t.at)
  PROVE  /\ \A k \in Slot, a \in Word : DisableLine(t).mem[a] = Hack(k) => t.mem[a] = Hack(k)
         /\ Denied(DisableLine(t), c, DisableLine(t).at)
         /\ Cleared(t, c, t.at) => Cleared(DisableLine(t), c, DisableLine(t).at)
<1> DEFINE n == t.at
           v == DisableLine(t)
           u == [t EXCEPT !.at = @ + 1]
<1>1. n \in LinesOf(c) /\ n \in Slot /\ t \in Call
  BY Numbers DEF InCall, LinesOf
<1>2. /\ u \in Call /\ u.mem = t.mem /\ u.std = t.std /\ u.hak = t.hak /\ u.dma = t.dma
      /\ u.resetDMA = t.resetDMA /\ u.NULLPOINTER = t.NULLPOINTER
  BY <1>1 DEF Call
<1>3. v = IF Kind[n] = "pointer" THEN FollowPointer(u, n) ELSE Restore(u, n, Top - 1)
  BY DEF DisableLine
<1>4. v.at = n + 1
  BY <1>1, DisableLineType
<1>5. Settled(t, c, n) /\ Denied(t, c, n)
  OBVIOUS
<1> HIDE DEF v, u, n
<1>6. StdClean(u) /\ Top - 1 \in Int /\ Top - 1 <= Top
  BY <1>2, Numbers DEF Kept, StdClean
<1>7. \A k \in Slot, a \in Word : v.mem[a] = Hack(k) => t.mem[a] = Hack(k)
  <2>1. CASE Kind[n] = "pointer"
    <3>1. n \in Pointers
      BY <1>1, <2>1 DEF Pointers
    <3>2. v.mem = u.mem
      BY <1>2, <1>3, <2>1, <3>1, FollowOnly
    <3> QED  BY <1>2, <3>2
  <2>2. CASE Kind[n] # "pointer"
    <3>1. \A k \in Slot, a \in Word : Restore(u, n, Top - 1).mem[a] = Hack(k) => u.mem[a] = Hack(k)
      BY <1>1, <1>2, <1>6, RestoreOnly
    <3> QED  BY <1>2, <1>3, <2>2, <3>1
  <2> QED  BY <2>1, <2>2
<1>8. Denied(v, c, n + 1)
  <2>1. CASE Kind[n] = "pointer"
    <3>1. n \in Pointers /\ PointersOf(c, n + 1) = {n} /\ OwnBase(c, n + 1) = pointer[n]
      BY <1>1, <2>1, PointersNext, OwnBaseNext DEF Pointers
    <3>2. PointersOf(c, n) = {}
      <4> SUFFICES ASSUME NEW m \in PointersOf(c, n) PROVE FALSE
        OBVIOUS
      <4>1. m \in LinesOf(c) \cap Pointers /\ m < n
        BY PointersBefore
      <4>2. m = n /\ n \in Int
        BY <1>1, <3>1, <4>1, Numbers DEF OnePointer, LinesOf
      <4> QED  BY <4>1, <4>2
    <3>3. ~u.NULLPOINTER
      BY <1>2, <1>5, <3>2 DEF Denied, Reached, ReachedBy
    <3>4. v.NULLPOINTER => ~IsBase(pointer[n])
      <4>1. v = FollowPointer(u, n)
        BY <1>3, <2>1
      <4> QED  BY <1>2, <3>1, <3>3, <4>1, FollowOnly
    <3>5. Reached(c, n + 1) => IsBase(pointer[n])
      BY <3>1 DEF Reached, ReachedBy, BaseBy, OwnBase
    <3> QED  BY <3>4, <3>5 DEF Denied
  <2>2. CASE Kind[n] # "pointer"
    <3>1. PointersOf(c, n + 1) = PointersOf(c, n)
      BY <1>1, <2>2, PointersNext
    <3>2. Reached(c, n + 1) <=> Reached(c, n)
      BY <3>1 DEF Reached, ReachedBy, BaseBy
    <3>3. v.NULLPOINTER = u.NULLPOINTER
      <4>1. v = Restore(u, n, Top - 1)
        BY <1>3, <2>2
      <4>2. SameLocals(v, u)
        BY <1>1, <1>2, <1>6, <4>1, RestoreEffect
      <4> QED  BY <4>2 DEF SameLocals
    <3> QED  BY <1>2, <1>5, <3>2, <3>3 DEF Denied
  <2> QED  BY <2>1, <2>2
<1>9. ASSUME n \in Plain, NEW b \in Word, v.mem[b] = Hack(n) PROVE FALSE
  <2>1. t.mem[b] = Hack(n) /\ Kind[n] = "plain"
    BY <1>1, <1>7, <1>9 DEF Plain
  <2>2. At(n, b)
    BY <1>1, <2>1 DEF Kept, Placed
  <2>3. Reached(c, n) /\ b = WordOf(c, n)
    BY <1>1, <2>2 DEF At, OneCheat
  <2>4. b # Top /\ b <= Top - 1
    <3>1. b # Top
      BY <1>1, <1>9, <2>3 DEF TopFree
    <3> QED  BY <3>1, Numbers DEF Word
  <2>5. b = t.dma + address[n]
    BY <1>5, <2>3 DEF Settled, WordOf, WordBy, BaseBy, OwnBase
  <2>6. ~t.NULLPOINTER
    BY <1>5, <2>3 DEF Denied
  <2>7. ~t.resetDMA
    <3>1. n >= n
      BY <1>1, Numbers DEF LinesOf
    <3> QED  BY <1>1, <1>5, <2>1, <2>6, <3>1 DEF Settled
  <2>8. v.mem = [u.mem EXCEPT ![b] = u.std[n]]
    BY <1>1, <1>2, <1>3, <1>6, <2>1, <2>4, <2>5, <2>6, <2>7, RestoreEffect
  <2>9. v.mem[b] = u.std[n]
    BY <1>2, <2>8 DEF Call
  <2> QED  BY <1>1, <1>6, <1>9, <2>9 DEF StdClean
<1>10. ASSUME Cleared(t, c, n) PROVE Cleared(v, c, n + 1)
  <2> SUFFICES ASSUME NEW m \in LinesOf(c) \cap Plain, m < n + 1, NEW b \in Word, v.mem[b] = Hack(m)
               PROVE  FALSE
    BY DEF Cleared
  <2>1. m \in Slot /\ m \in Nat /\ n \in Nat
    BY <1>1, Numbers DEF LinesOf
  <2>2. CASE m = n
    BY <1>9, <2>2
  <2>3. CASE m # n
    <3>1. m < n
      BY <2>1, <2>3
    <3> QED  BY <1>7, <1>10, <2>1, <3>1 DEF Cleared
  <2> QED  BY <2>2, <2>3
<1> QED  BY <1>4, <1>7, <1>8, <1>10 DEF v, n

LEMMA CallOff ==
  ASSUME Fixed, JokersLead, FrozenReached, OneCheat, Apart, OnePointer, TopFree, NEW c \in Cheat,
         NEW s \in State, Kept(s)
  PROVE  /\ \A d \in Cheat : d # c /\ Off(s, d) => Off(cheatEnable(s, c, TRUE), d) /\ Off(cheatDisable(s, c), d)
         /\ Off(cheatDisable(s, c), c)
<1>1. Enter(s, c) \in Call /\ Kept(Enter(s, c)) /\ Settled(Enter(s, c), c, Enter(s, c).at)
  BY EnterSettled
<1>2. /\ Enter(s, c).mem = s.mem /\ Enter(s, c).at = Start[c] /\ ~Enter(s, c).NULLPOINTER
  BY DEF Enter
<1>3. ASSUME NEW d \in Cheat, d # c, Off(s, d)
      PROVE  Off(cheatEnable(s, c, TRUE), d) /\ Off(cheatDisable(s, c), d)
  <2> DEFINE G == {t \in Call : Kept(t) /\ Settled(t, c, t.at) /\ Off(t, d)}
  <2>1. Enter(s, c) \in G
    BY <1>1, <1>2, <1>3 DEF Off
  <2>2. ASSUME NEW t \in G, InCall(t, c), t.at \in LinesOf(c)
        PROVE  EnableLine(t, TRUE) \in G
    <3>1. t.at \in Slot /\ t \in Call /\ TRUE \in BOOLEAN /\ Kept(t) /\ Off(t, d)
      BY <2>2, Numbers DEF LinesOf
    <3>2. EnableLine(t, TRUE) \in Call
      BY <3>1, EnableLineType
    <3>3. Off(EnableLine(t, TRUE), d)
      <4>1. OnlyOwn(t, EnableLine(t, TRUE), c)
        BY <2>2, <3>1, EnableOnly
      <4> QED  BY <1>3, <3>1, <4>1, OnlyOff
    <3> QED  BY <2>2, <3>1, <3>2, <3>3, EnableLineKeeps
  <2>3. \A t \in G : Off(Leave(t), d)
    BY DEF Leave, Off
  <2> HIDE DEF G
  <2>4. \E t \in G : cheatEnable(s, c, TRUE) = Leave(t)
    <3>1. TRUE \in BOOLEAN
      OBVIOUS
    <3> QED  BY <2>1, <2>2, <3>1, EnableInvariant
  <2> DEFINE H == {t \in Call : Kept(t) /\ Settled(t, c, t.at) /\ Denied(t, c, t.at) /\ Off(t, d)}
  <2>5. Enter(s, c) \in H
    BY <1>1, <1>2, <1>3 DEF Off, Denied
  <2>6. ASSUME NEW t \in H, InCall(t, c), t.at \in LinesOf(c)
        PROVE  DisableLine(t) \in H
    <3>1. t.at \in Slot /\ t \in Call
      BY <2>6, Numbers DEF LinesOf
    <3>2. DisableLine(t) \in Call
      BY <3>1, DisableLineType
    <3>3. /\ \A k \in Slot, a \in Word : DisableLine(t).mem[a] = Hack(k) => t.mem[a] = Hack(k)
          /\ Denied(DisableLine(t), c, DisableLine(t).at)
      BY <2>6, DisableLineClears
    <3>4. Off(DisableLine(t), d)
      BY <2>6, <3>3 DEF Off, Plain
    <3> QED  BY <2>6, <3>2, <3>3, <3>4, DisableLineKeeps
  <2>7. \A t \in H : Off(Leave(t), d)
    BY DEF Leave, Off
  <2> HIDE DEF H
  <2>8. \E t \in H : cheatDisable(s, c) = Leave(t)
    BY <2>5, <2>6, DisableInvariant
  <2> QED  BY <2>3, <2>4, <2>7, <2>8
<1>4. Off(cheatDisable(s, c), c)
  <2> DEFINE H == {t \in Call : Kept(t) /\ Settled(t, c, t.at) /\ Denied(t, c, t.at) /\ Cleared(t, c, t.at)}
  <2>5. Enter(s, c) \in H
    <3>1. \A m \in LinesOf(c) : ~(m < Start[c])
      BY Numbers DEF LinesOf
    <3> QED  BY <1>1, <1>2, <3>1 DEF Cleared, Denied
  <2>6. ASSUME NEW t \in H, InCall(t, c), t.at \in LinesOf(c)
        PROVE  DisableLine(t) \in H
    <3>1. t.at \in Slot /\ t \in Call
      BY <2>6, Numbers DEF LinesOf
    <3>2. DisableLine(t) \in Call
      BY <3>1, DisableLineType
    <3>3. /\ Denied(DisableLine(t), c, DisableLine(t).at)
          /\ Cleared(DisableLine(t), c, DisableLine(t).at)
      BY <2>6, DisableLineClears
    <3> QED  BY <2>6, <3>2, <3>3, DisableLineKeeps
  <2>7. ASSUME NEW t \in H, t.at = End[c] PROVE Off(Leave(t), c)
    <3>1. Cleared(t, c, End[c])
      BY <2>7
    <3>2. \A m \in LinesOf(c) : m < End[c]
      BY Numbers DEF LinesOf
    <3> QED  BY <3>1, <3>2 DEF Leave, Off, Cleared
  <2> HIDE DEF H
  <2>8. \E t \in H : t.at = End[c] /\ cheatDisable(s, c) = Leave(t)
    BY <2>5, <2>6, DisableInvariant
  <2> QED  BY <2>7, <2>8
<1> QED  BY <1>3, <1>4

LEMMA UntriedOff ==
  ASSUME NEW s, \A n \in Slot, a \in Word : s.mem[a] # Hack(n)
  PROVE  \A c \in Cheat : Off(s, c)
BY DEF Off, Plain

LEMMA PressedOff ==
  ASSUME Fixed, JokersLead, FrozenReached, Laid, Apart, OnePointer, TopFree,
         Machine \in State, cheatStatus \in BOOLEAN,
         cheatSaved => Kept(Machine), ~cheatSaved => Untried(Machine),
         cheatSaved => \A d \in Cheat : ~On(d, cheatStatus) => Off(Machine, d)
  PROVE  \A d \in Cheat : ~On(d, ~cheatStatus) => Off(Pressed, d)
<1> DEFINE M == IF cheatSaved THEN Machine ELSE BackUp(Machine)
           R(i, t) == \A d \in Cheat : IF d < i THEN ~On(d, ~cheatStatus) => Off(t, d)
                                                ELSE ~On(d, cheatStatus) => Off(t, d)
           G == [i \in 0 .. N |-> {t \in State : Kept(t) /\ R(i, t)}]
<1>1. 0 \in 0 .. N /\ N \in 0 .. N /\ \A c \in Cheat : c \in 0 .. N /\ c + 1 \in 0 .. N
  BY Numbers DEF Cheat
<1>2. \A c, d \in Cheat : /\ ~(d < 0) /\ d < N
                          /\ d < c + 1 <=> d < c \/ d = c
                          /\ ~(c < c)
  BY Numbers DEF Cheat
<1>3. M \in State /\ Kept(M) /\ \A d \in Cheat : ~On(d, cheatStatus) => Off(M, d)
  BY BackUpKeeps, UntriedOff
<1> HIDE DEF M
<1>4. ASSUME NEW c \in Cheat, NEW t \in State, Kept(t), R(c, t)
      PROVE  LET v == PressCheat(t, c, ~cheatStatus) IN v \in State /\ Kept(v) /\ R(c + 1, v)
  <2> DEFINE v == PressCheat(t, c, ~cheatStatus)
             t1 == IF c \in constant /\ ~cheatSaved THEN cheatEnable(t, c, TRUE) ELSE t
  <2>0. TRUE \in BOOLEAN
    OBVIOUS
  <2>1. \A x \in State : Kept(x) =>
          /\ cheatEnable(x, c, TRUE) \in State /\ Kept(cheatEnable(x, c, TRUE))
          /\ cheatDisable(x, c) \in State /\ Kept(cheatDisable(x, c))
          /\ \A d \in Cheat : d # c /\ Off(x, d) =>
               Off(cheatEnable(x, c, TRUE), d) /\ Off(cheatDisable(x, c), d)
          /\ Off(cheatDisable(x, c), c)
    BY <2>0, CallType, CallKeeps, CallOff DEF Laid
  <2>2. t1 \in State /\ Kept(t1) /\ \A d \in Cheat : d # c /\ Off(t, d) => Off(t1, d)
    BY <1>4, <2>1
  <2>3. v = IF c \in selected
              THEN IF ~cheatStatus THEN cheatEnable(t1, c, TRUE) ELSE cheatDisable(t1, c)
              ELSE t1
    BY DEF PressCheat
  <2>4. c \notin constant => t1 = t
    OBVIOUS
  <2> HIDE DEF v, t1
  <2>5. v \in State /\ Kept(v) /\ \A d \in Cheat : d # c /\ Off(t, d) => Off(v, d)
    BY <2>1, <2>2, <2>3
  <2>6. ~On(c, ~cheatStatus) => Off(v, c)
    <3> SUFFICES ASSUME c \notin constant, ~(~cheatStatus /\ c \in selected) PROVE Off(v, c)
      BY DEF On
    <3>1. CASE c \in selected
      BY <2>1, <2>2, <2>3, <3>1
    <3>2. CASE c \notin selected
      <4>1. ~On(c, cheatStatus)
        BY <3>2 DEF On
      <4>2. Off(t, c)
        BY <1>2, <1>4, <4>1
      <4> QED  BY <2>3, <2>4, <3>2, <4>2
    <3> QED  BY <3>1, <3>2
  <2>7. R(c + 1, v)
    <3> SUFFICES ASSUME NEW d \in Cheat
                 PROVE  IF d < c + 1 THEN ~On(d, ~cheatStatus) => Off(v, d)
                                     ELSE ~On(d, cheatStatus) => Off(v, d)
      OBVIOUS
    <3>1. CASE d = c
      BY <1>2, <2>6, <3>1
    <3>2. CASE d # c
      <4>1. d < c + 1 <=> d < c
        BY <1>2, <3>2
      <4> QED  BY <1>4, <2>5, <3>2, <4>1
    <3> QED  BY <3>1, <3>2
  <2> QED  BY <2>5, <2>7 DEF v
<1>5. R(0, M)
  BY <1>2, <1>3
<1>6. ASSUME NEW x \in State, R(N, x) PROVE \A d \in Cheat : ~On(d, ~cheatStatus) => Off(x, d)
  BY <1>2, <1>6
<1> HIDE DEF R
<1>7. /\ M \in G[0]
      /\ \A c \in Cheat : \A t \in State : t \in G[c] => PressCheat(t, c, ~cheatStatus) \in G[c + 1]
  BY <1>1, <1>3, <1>4, <1>5
<1> HIDE DEF G
<1>8. Pressed \in State /\ Pressed \in G[N]
  BY <1>7, PressedInvariant DEF M
<1>9. R(N, Pressed)
  BY <1>1, <1>8 DEF G
<1> QED  BY <1>6, <1>8, <1>9

LEMMA AppliedOff ==
  ASSUME Fixed, JokersLead, FrozenReached, Laid, Apart, OnePointer, TopFree,
         Machine \in State, Kept(Machine), NEW sel, NEW con, NEW fr,
         \A d \in Cheat : ~On(d, cheatStatus) => Off(Machine, d),
         \A d \in Cheat : d \notin fr => (d \in sel <=> d \in selected) /\ (d \in con <=> d \in constant)
  PROVE  \A d \in Cheat : ~(d \in con \/ (cheatStatus /\ d \in sel)) => Off(Applied(sel, con, fr), d)
<1> DEFINE On2(d) == d \in con \/ (cheatStatus /\ d \in sel)
           R(i, t) == \A d \in Cheat : IF d < i THEN ~On2(d) => Off(t, d)
                                                ELSE ~On(d, cheatStatus) => Off(t, d)
           G == [i \in 0 .. N |-> {t \in State : Kept(t) /\ R(i, t)}]
<1>1. 0 \in 0 .. N /\ N \in 0 .. N /\ \A c \in Cheat : c \in 0 .. N /\ c + 1 \in 0 .. N
  BY Numbers DEF Cheat
<1>2. \A c, d \in Cheat : /\ ~(d < 0) /\ d < N
                          /\ d < c + 1 <=> d < c \/ d = c
                          /\ ~(c < c)
  BY Numbers DEF Cheat
<1>4. ASSUME NEW c \in Cheat, NEW t \in State, Kept(t), R(c, t)
      PROVE  LET v == ApplyFresh(t, c, sel, con, fr) IN v \in State /\ Kept(v) /\ R(c + 1, v)
  <2> DEFINE v == ApplyFresh(t, c, sel, con, fr)
  <2>0. TRUE \in BOOLEAN
    OBVIOUS
  <2>1. /\ cheatEnable(t, c, TRUE) \in State /\ Kept(cheatEnable(t, c, TRUE))
        /\ cheatDisable(t, c) \in State /\ Kept(cheatDisable(t, c))
        /\ \A d \in Cheat : d # c /\ Off(t, d) =>
             Off(cheatEnable(t, c, TRUE), d) /\ Off(cheatDisable(t, c), d)
        /\ Off(cheatDisable(t, c), c)
    BY <1>4, <2>0, CallType, CallKeeps, CallOff DEF Laid
  <2>3. v = IF c \notin fr THEN t ELSE IF On2(c) THEN cheatEnable(t, c, TRUE) ELSE cheatDisable(t, c)
    BY DEF ApplyFresh
  <2>4. c \notin fr /\ ~On2(c) => ~On(c, cheatStatus)
    BY DEF On
  <2> HIDE DEF v, On2
  <2>5. v \in State /\ Kept(v) /\ \A d \in Cheat : d # c /\ Off(t, d) => Off(v, d)
    BY <1>4, <2>1, <2>3
  <2>6. ~On2(c) => Off(v, c)
    <3> SUFFICES ASSUME ~On2(c) PROVE Off(v, c)
      OBVIOUS
    <3>1. CASE c \in fr
      BY <2>1, <2>3, <3>1
    <3>2. CASE c \notin fr
      <4>2. Off(t, c)
        BY <1>2, <1>4, <2>4, <3>2
      <4> QED  BY <2>3, <3>2, <4>2
    <3> QED  BY <3>1, <3>2
  <2>7. R(c + 1, v)
    <3> SUFFICES ASSUME NEW d \in Cheat
                 PROVE  IF d < c + 1 THEN ~On2(d) => Off(v, d)
                                     ELSE ~On(d, cheatStatus) => Off(v, d)
      OBVIOUS
    <3>1. CASE d = c
      BY <1>2, <2>6, <3>1
    <3>2. CASE d # c
      <4>1. d < c + 1 <=> d < c
        BY <1>2, <3>2
      <4> QED  BY <1>4, <2>5, <3>2, <4>1
    <3> QED  BY <3>1, <3>2
  <2> QED  BY <2>5, <2>7 DEF v
<1>5. R(0, Machine)
  BY <1>2
<1>6. ASSUME NEW x \in State, R(N, x) PROVE \A d \in Cheat : ~On2(d) => Off(x, d)
  BY <1>2, <1>6
<1> HIDE DEF R
<1>7. /\ Machine \in G[0]
      /\ \A c \in Cheat : \A t \in State : t \in G[c] => ApplyFresh(t, c, sel, con, fr) \in G[c + 1]
  BY <1>1, <1>4, <1>5
<1> HIDE DEF G
<1>8. Applied(sel, con, fr) \in State /\ Applied(sel, con, fr) \in G[N]
  BY <1>7, AppliedInvariant
<1>9. R(N, Applied(sel, con, fr))
  BY <1>1, <1>8 DEF G
<1> QED  BY <1>6, <1>8, <1>9

(* The cheats that are off have been taken back, before the pass, during   *)
(* it, and after.                                                          *)
SwitchInv ==
  /\ KeepInv /\ ("edit" \in Uses \/ address = Address)
  /\ pc \in {"pass", "enable"} => (passOn <=> cheatStatus)
  /\ cheatSaved => \A d \in Cheat : ~On(d, cheatStatus) => Off(Machine, d)

LEMMA OffPrime ==
  /\ \A d : Off(Machine', d) => Off(Machine, d)'
  /\ \A d, b : (On(d, b)' <=> d \in constant' \/ (b' /\ d \in selected'))
BY DEF Off, Plain, LinesOf, Start, End, On

(* A step that leaves the flags alone writes at most lines of cheats that  *)
(* are on.                                                                 *)
LEMMA SwitchStep ==
  ASSUME SwitchInv, KeepInv', UNCHANGED <<selected, constant, cheatStatus, cheatSaved>>,
         "edit" \in Uses \/ UNCHANGED address,
         (pc \in {"pass", "enable"} => (passOn <=> cheatStatus))',
         cheatSaved => \A d \in Cheat : ~On(d, cheatStatus) /\ Off(Machine, d) => Off(Machine', d)
  PROVE  SwitchInv'
<1>1. cheatSaved => \A d \in Cheat : ~On(d, cheatStatus) => Off(Machine, d)'
  BY OffPrime DEF SwitchInv
<1> QED  BY <1>1 DEF SwitchInv, On

LEMMA SwitchLine ==
  ASSUME JokersLead, OneCheat, SwitchInv, PassLine, KeepInv'
  PROVE  SwitchInv'
<1> DEFINE f == cur \in fresh
           s == EnableLine(Running, f)
<1>1. /\ cur \in Cheat /\ Fixed /\ f \in BOOLEAN /\ InCall(Running, cur)
      /\ Kept(Machine) /\ cheatSaved /\ pc = "enable" /\ On(cur, cheatStatus)
  <2>1. /\ cur \in Cheat /\ pc = "enable" /\ cheatSaved /\ On(cur, passOn) /\ (passOn <=> cheatStatus)
        /\ InCall(Running, cur) /\ Kept(Machine)
    BY DEF PassLine, SwitchInv, KeepInv, FreezeInv, TypeInv, PassFlags
  <2>2. On(cur, cheatStatus)
    BY <2>1 DEF On
  <2> QED  BY <2>1, <2>2, MachineType DEF SwitchInv, KeepInv, FreezeInv
<1>2. /\ Running.at = run.at /\ Running.mem = mem /\ Running.std = stdVal /\ Running.hak = hakVal
      /\ Running.dma = cheatDMA
  BY DEF Running
<1>3. Running.at \in LinesOf(cur) /\ Running \in Call
  BY <1>1, <1>2, Numbers DEF PassLine, InCall, LinesOf
<1>4. Kept(Running)
  <2>1. /\ Running.mem = Machine.mem /\ Running.std = Machine.std /\ Running.hak = Machine.hak
        /\ Running.dma = Machine.dma
    BY <1>2 DEF Machine
  <2> HIDE DEF Running, Machine
  <2> QED  BY <1>1, <2>1 DEF Kept, Placed, Games, StdClean, Values, Unseen, NoFiller, BackedUp, NoBase
<1>5. OnlyOwn(Running, s, cur)
  <2> HIDE DEF f
  <2> QED  BY <1>1, <1>3, <1>4, EnableOnly
<1>7. Becomes(s) /\ UNCHANGED <<address, selected, constant, cheatStatus, cheatSaved, pc, passOn>>
  BY DEF PassLine, Running, status, flags
<1> HIDE DEF s
<1>8. ASSUME NEW d \in Cheat, ~On(d, cheatStatus), Off(Machine, d) PROVE Off(Machine', d)
  <2>1. d # cur
    BY <1>1, <1>8
  <2>2. Off(Running, d)
    BY <1>8 DEF Off, Running, Machine
  <2>3. Off(s, d)
    BY <1>1, <1>5, <2>1, <2>2, OnlyOff
  <2>4. Machine'.mem = s.mem
    BY <1>7 DEF Becomes, Machine
  <2> HIDE DEF Machine
  <2> QED  BY <2>3, <2>4 DEF Off
<1> QED  BY <1>7, <1>8, SwitchStep DEF SwitchInv

LEMMA SwitchPass ==
  ASSUME SwitchInv, KeepInv', EnterMenu \/ StartPass \/ PassCheat \/ PassCheatEnd \/ EndPass
  PROVE  SwitchInv'
<1>1. UNCHANGED <<mem, address, selected, constant, cheatStatus, cheatSaved>>
  BY DEF EnterMenu, StartPass, PassCheat, PassCheatEnd, EndPass, flags, status, lines
<1>2. \A d \in Cheat : Off(Machine, d) => Off(Machine', d)
  BY <1>1 DEF Off, Machine
<1>3. (pc \in {"pass", "enable"} => (passOn <=> cheatStatus))'
  BY <1>1 DEF EnterMenu, StartPass, PassCheat, PassCheatEnd, EndPass, SwitchInv
<1> QED  BY <1>1, <1>2, <1>3, SwitchStep

LEMMA SwitchNext ==
  ASSUME Calm, Waits, JokersLead, FrozenReached, Laid, OnePointer, BelowTop, SwitchInv, [Next]_vars
  PROVE  SwitchInv'
<1>1. KeepInv'
  BY KeepNext DEF SwitchInv
<1>2. CASE MainStep
  BY <1>1, <1>2, SwitchPass, SwitchLine DEF MainStep, Laid
<1>3. /\ Fixed /\ Machine \in State /\ cheatStatus \in BOOLEAN /\ Apart
      /\ (cheatSaved => Kept(Machine)) /\ (~cheatSaved => Untried(Machine))
      /\ cheatSaved => \A d \in Cheat : ~On(d, cheatStatus) => Off(Machine, d)
  BY MachineType DEF SwitchInv, KeepInv, FreezeInv, TypeInv, TypeOK
<1>4. TopFree
  <2>1. CASE address = Address
    <3>1. pointer \in [Pointers -> Bases]
      BY <1>3 DEF Fixed
    <3> QED  BY <2>1, <3>1 DEF TopFree, BelowTop, Reached, WordOf
  <2>2. CASE "edit" \in Uses
    <3>1. NoPointers /\ \A n \in Plain : address[n] \in 1 .. Top - 1
      BY <2>2 DEF Calm, SwitchInv, KeepInv
    <3>2. \A c, n : WordOf(c, n) = 0 + address[n]
      BY <3>1, PlainWords
    <3>3. ASSUME NEW n \in Plain PROVE 0 + address[n] # Top
      BY <3>1, Numbers
    <3> QED  BY <3>2, <3>3 DEF TopFree
  <2> QED  BY <2>1, <2>2 DEF SwitchInv
<1>5. CASE PressTrigger
  <2>1. \A d \in Cheat : ~On(d, ~cheatStatus) => Off(Pressed, d)
    BY <1>3, <1>4, PressedOff
  <2>2. /\ Becomes(Pressed) /\ cheatSaved' /\ cheatStatus' = ~cheatStatus
        /\ UNCHANGED <<address, selected, constant, pc>> /\ pc = "loop"
    BY <1>5 DEF PressTrigger, main, Waits
  <2>3. Machine'.mem = Pressed.mem
    BY <2>2 DEF Becomes, Machine
  <2>4. \A d \in Cheat : ~On(d, ~cheatStatus) => Off(Machine', d)
    <3> HIDE DEF Machine
    <3> QED  BY <2>1, <2>3 DEF Off
  <2>5. \A d \in Cheat : (~On(d, cheatStatus) => Off(Machine, d))'
    BY <2>2, <2>4, OffPrime DEF On
  <2> QED  BY <1>1, <2>2, <2>5 DEF SwitchInv
<1>6. ASSUME NEW c \in Cheat, NEW sel, NEW con, Toggle(sel, con, c), pc = "menu",
             \A d \in Cheat : d # c => (d \in sel <=> d \in selected) /\ (d \in con <=> d \in constant)
      PROVE  SwitchInv'
  <2> DEFINE fr == fresh \cup {c}
             u == Applied(sel, con, fr)
  <2>1. cheatSaved => \A d \in Cheat : ~(d \in con \/ (cheatStatus /\ d \in sel)) => Off(u, d)
    <3>1. \A d \in Cheat : d \notin fr => (d \in sel <=> d \in selected) /\ (d \in con <=> d \in constant)
      BY <1>6
    <3> HIDE DEF fr
    <3> QED  BY <1>3, <1>4, <3>1, AppliedOff
  <2>2. /\ UNCHANGED <<address, cheatStatus, cheatSaved, pc>> /\ selected' = sel /\ constant' = con
        /\ cheatSaved => Becomes(u)
    BY <1>6 DEF Toggle, main
  <2> HIDE DEF u
  <2>3. ASSUME cheatSaved PROVE \A d \in Cheat : (~On(d, cheatStatus) => Off(Machine, d))'
    <3>1. Machine'.mem = u.mem
      BY <2>2, <2>3 DEF Becomes, Machine
    <3>2. \A d \in Cheat : ~(d \in con \/ (cheatStatus /\ d \in sel)) => Off(Machine', d)
      <4> HIDE DEF Machine
      <4> QED  BY <2>1, <2>3, <3>1 DEF Off
    <3> QED  BY <2>2, <3>2, OffPrime DEF On
  <2> QED  BY <1>1, <1>6, <2>2, <2>3 DEF SwitchInv
<1>7. CASE Menu
  <2>1. CASE LeaveMenu
    <3>1. UNCHANGED <<mem, address, selected, constant, cheatStatus, cheatSaved>> /\ pc' = "loop"
      BY <2>1 DEF LeaveMenu, lines, status, flags
    <3>2. \A d \in Cheat : Off(Machine, d) => Off(Machine', d)
      BY <3>1 DEF Off, Machine
    <3> QED  BY <1>1, <3>1, <3>2, SwitchStep
  <2>2. ASSUME NEW c \in Cheat, ToggleSelected(c) PROVE SwitchInv'
    <3>1. /\ pc = "menu" /\ Toggle(Flip(selected, c), constant \ {c}, c)
          /\ \A d \in Cheat : d # c => /\ d \in Flip(selected, c) <=> d \in selected
                                       /\ d \in constant \ {c} <=> d \in constant
      BY <2>2 DEF ToggleSelected, Flip
    <3> QED  BY <1>6, <3>1
  <2>3. ASSUME NEW c \in Cheat, ToggleConstant(c) PROVE SwitchInv'
    <3>1. /\ pc = "menu" /\ Toggle(selected \ {c}, Flip(constant, c), c)
          /\ \A d \in Cheat : d # c => /\ d \in selected \ {c} <=> d \in selected
                                       /\ d \in Flip(constant, c) <=> d \in constant
      BY <2>3 DEF ToggleConstant, Flip
    <3> QED  BY <1>6, <3>1
  <2>4. ASSUME NEW n \in Slot, EditValue(n) \/ \E w \in EditWords : EditAddress(n, w)
        PROVE  SwitchInv'
    <3>1. /\ "edit" \in Uses /\ mem' = TakenBack(n)
          /\ UNCHANGED <<selected, constant, cheatStatus, cheatSaved, pc, passOn>>
      BY <2>4 DEF EditValue, EditAddress, flags, status, main
    <3>2. \A a \in Word : mem'[a] = mem[a] \/ mem'[a] = Game(a)
      BY <3>1, EditRestores DEF SwitchInv
    <3>3. \A k \in Slot, a \in Word : mem'[a] = Hack(k) => mem[a] = Hack(k)
      BY <3>2, Distinct
    <3>4. \A d \in Cheat : Off(Machine, d) => Off(Machine', d)
      BY <3>3 DEF Off, Machine, Plain
    <3> QED  BY <1>1, <3>1, <3>4, SwitchStep DEF SwitchInv
  <2> QED  BY <1>7, <2>1, <2>2, <2>3, <2>4 DEF Menu
<1>8. CASE PressMenu \/ GameStep \/ UNCHANGED vars
  <2>1. /\ UNCHANGED <<address, selected, constant, cheatStatus, cheatSaved, pc, passOn>>
        /\ \/ UNCHANGED mem
           \/ \E a \in Word : mem' = [mem EXCEPT ![a] = Game(a)]
    BY <1>8 DEF PressMenu, GameStep, GameWrite, GameMove, HoldOrRelease, vars, lines, status, main, flags
  <2>2. mem \in [Word -> Value]
    BY DEF SwitchInv, KeepInv, FreezeInv, TypeInv, TypeOK
  <2>3. \A n \in Slot, a \in Word : mem'[a] = Hack(n) => mem[a] = Hack(n)
    BY <2>1, <2>2, Distinct
  <2>4. \A d \in Cheat : Off(Machine, d) => Off(Machine', d)
    BY <2>3 DEF Off, Machine, Plain
  <2> QED  BY <1>1, <2>1, <2>4, SwitchStep DEF SwitchInv
<1> QED  BY <1>2, <1>5, <1>7, <1>8 DEF Next

(* Between passes no word of the game holds the value of a plain line      *)
(* whose cheat is off: however the trigger, the toggles and the passes     *)
(* followed one another, wherever the pointers lead, whatever the game     *)
(* wrote; where there are no pointers, with lines edited as well.          *)
THEOREM SwitchedOffIsOff ==
  ASSUME Calm, Waits, JokersLead, FrozenReached, Laid, AlwaysApart, OnePointer, BelowTop
  PROVE  Spec => []SwitchedOff
<1>1. ASSUME Init PROVE SwitchInv
  BY <1>1, KeepInit DEF SwitchInv, Init
<1>2. SwitchInv /\ [Next]_vars => SwitchInv'
  BY SwitchNext
<1>3. SwitchInv => SwitchedOff
  <2> SUFFICES ASSUME SwitchInv, NEW c \in Cheat, ~On(c, cheatStatus) PROVE Off(Machine, c)
    BY DEF SwitchedOff, Off, Machine
  <2>1. CASE cheatSaved
    BY <2>1 DEF SwitchInv
  <2>2. CASE ~cheatSaved
    <3>1. \A n \in Slot, a \in Word : Machine.mem[a] # Hack(n)
      BY <2>2, Distinct DEF SwitchInv, KeepInv, Untried
    <3> QED  BY <3>1, UntriedOff
  <2> QED  BY <2>1, <2>2
<1> QED  BY <1>1, <1>2, <1>3, PTL DEF Spec
=============================================================================
