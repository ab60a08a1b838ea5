------------------------- MODULE SearchStoreProofs -------------------------
(***************************************************************************)
(* Theorems about SearchStore, for every number of words, values, types    *)
(* and searches: the inductive invariant SearchInv, and from it that every *)
(* file of the session is one "reset search" removes, that what is shown   *)
(* is the current search's file, and that undoing shows what was shown;    *)
(* that it implements SessionStack; the types, with what a file written    *)
(* over a longer one holds and what is left in fileBuffer; and that a      *)
(* search lists what it was asked for.                                     *)
(***************************************************************************)
EXTENDS SearchStore, FiniteSetTheorems, FunctionTheorems, SequenceTheorems, TLAPS

(* What loading a file leaves shown is that file's listing.                *)
LEMMA ReloadLists ==
  ASSUME NEW no, NEW d, no # 0, Reload(no, d)
  PROVE  /\ type' = d[no].type
         /\ Listing(d[no]) = [count |-> searchResultCounter', first |-> searchAddress']
  BY DEF Reload, Listing

LEMMA InitSearchInv == Init => SearchInv
<1> SUFFICES ASSUME Init PROVE SearchInv
  OBVIOUS
<1>1. SessionInv
  <2>1. /\ searchNo \in Nat /\ searchMax \in 0 .. MaxSearches /\ searchNo <= searchMax
        /\ ~(searchNo > 0) /\ searchNo = 0
    BY LimitAssumption DEF Init
  <2>2. DOMAIN disk = Number /\ DOMAIN found = Number
    BY DEF Init
  <2>3. extMenu \notin {"exact", "diff"} /\ extMenu # "text"
    BY DEF Init
  <2>4. cheatSearch \in BOOLEAN
    BY DEF Init
  <2> QED BY <2>1, <2>2, <2>3, <2>4 DEF SessionInv
<1>2. FilesCovered
  BY DEF Init, FilesCovered
<1>3. ListedIsCurrent
  BY DEF Init, ListedIsCurrent
<1>4. FilesKept
  BY DEF Init, FilesKept
<1> QED BY <1>1, <1>2, <1>3, <1>4 DEF SearchInv

(* A search, first or further, whatever it found.                          *)
LEMMA SearchKeepsInv ==
  ASSUME NEW recs, NEW mode, NEW by, SearchInv, extMenu \in {"exact", "diff"},
         Search(recs, mode, by)
  PROVE  SearchInv'
<1> USE LimitAssumption
<1> DEFINE no == searchNo + 1
<1>1. /\ searchNo \in Nat /\ searchMax \in Nat /\ searchNo <= searchMax
      /\ searchMax < MaxSearches /\ no \in Number /\ no # 0
  BY DEF SearchInv, SessionInv, Search, Number
<1>2. /\ searchNo' = no /\ searchMax' = searchMax + 1
      /\ cheatSearch' = cheatSearch /\ extMenu' = extMenu
  BY DEF Search
<1>3. /\ disk' = [disk EXCEPT ![no] = Written(disk[no], type, recs)]
      /\ found' = [found EXCEPT ![no] = Listing(disk'[no])]
      /\ Reload(no, disk')
  BY <1>2 DEF Search
<1>4. DOMAIN disk = Number /\ DOMAIN found = Number
  BY DEF SearchInv, SessionInv
<1>5. SessionInv'
  BY <1>1, <1>2, <1>3, <1>4 DEF SearchInv, SessionInv
<1>6. FilesCovered'
  BY <1>1, <1>2, <1>3, <1>4 DEF SearchInv, FilesCovered, Number
<1>7. ListedIsCurrent'
  BY <1>1, <1>2, <1>3, ReloadLists DEF ListedIsCurrent
<1>8. FilesKept'
  <2> SUFFICES ASSUME NEW n \in 1 .. no PROVE Listing(disk'[n]) = found'[n]
    BY <1>2 DEF FilesKept, Listing
  <2>1. n \in Number
    BY <1>1 DEF Number
  <2>2. CASE n = no
    BY <2>2, <2>1, <1>3, <1>4
  <2>3. CASE n # no
    <3>1. n \in 1 .. searchNo
      BY <2>3, <1>1
    <3>2. disk'[n] = disk[n] /\ found'[n] = found[n]
      BY <2>3, <2>1, <1>3, <1>4
    <3> QED BY <3>1, <3>2 DEF SearchInv, FilesKept, Listing
  <2> QED BY <2>2, <2>3
<1> QED BY <1>5, <1>6, <1>7, <1>8 DEF SearchInv

(* Loading the current search's file, or none, again.                      *)
LEMMA ReloadKeepsInv ==
  ASSUME SearchInv, NEW no \in 0 .. searchNo, extMenu \in {"exact", "diff"},
         Reload(no, disk), searchNo' = no,
         searchMax' \in searchMax .. MaxSearches,
         UNCHANGED <<disk, cheatSearch, extMenu, found>>
  PROVE  SearchInv'
<1> USE LimitAssumption
<1>1. searchNo \in Nat /\ searchMax \in Nat /\ searchNo <= searchMax
  BY DEF SearchInv, SessionInv
<1>2. SessionInv'
  BY <1>1 DEF SearchInv, SessionInv
<1>3. FilesCovered'
  BY <1>1 DEF SearchInv, FilesCovered, Number
<1>4. ListedIsCurrent'
  BY <1>1, ReloadLists DEF ListedIsCurrent, Listing
<1>5. FilesKept'
  <2>1. \A n \in 1 .. searchNo' : n \in 1 .. searchNo
    BY <1>1
  <2>2. \A n \in 1 .. searchNo : Listing(disk[n]) = found[n]
    BY DEF SearchInv, FilesKept
  <2> QED BY <2>1, <2>2 DEF FilesKept
<1> QED BY <1>2, <1>3, <1>4, <1>5 DEF SearchInv

(* A session that ends: no search is current any more.                     *)
LEMMA EndKeepsInv ==
  ASSUME SearchInv, extMenu = "tab", extMenu' = "tab", searchNo' = 0,
         cheatSearch' = FALSE, searchMax' \in 0 .. MaxSearches,
         DOMAIN disk' = Number, DOMAIN found' = Number, FilesCovered'
  PROVE  SearchInv'
<1>1. SessionInv'
  <2>1. /\ searchNo' \in Nat /\ searchNo' <= searchMax' /\ ~(searchNo' > 0)
    OBVIOUS
  <2>2. extMenu' \notin {"exact", "diff"} /\ extMenu' # "text"
    OBVIOUS
  <2>3. cheatSearch' \in BOOLEAN
    OBVIOUS
  <2> QED BY <2>1, <2>2, <2>3 DEF SessionInv
<1>2. ListedIsCurrent'
  BY DEF ListedIsCurrent
<1>3. FilesKept'
  BY DEF FilesKept
<1> QED BY <1>1, <1>2, <1>3 DEF SearchInv

LEMMA NextSearchInv == SearchInv /\ [Next]_vars => SearchInv'
<1> USE LimitAssumption
<1> SUFFICES ASSUME SearchInv, [Next]_vars PROVE SearchInv'
  OBVIOUS
<1>0. searchNo \in Nat /\ searchMax \in 0 .. MaxSearches /\ searchNo <= searchMax
  BY DEF SearchInv, SessionInv
<1>1. CASE EnterExact
  BY <1>1 DEF EnterExact, Enter, files, shown, SearchInv, SessionInv, FilesCovered,
     ListedIsCurrent, FilesKept, Listing
<1>2. CASE EnterDiff
  BY <1>2 DEF EnterDiff, Enter, files, shown, SearchInv, SessionInv, FilesCovered,
     ListedIsCurrent, FilesKept, Listing
<1>3. CASE EnterText
  BY <1>3, <1>0 DEF EnterText, Enter, files, shown, SearchInv, SessionInv, FilesCovered,
     ListedIsCurrent, FilesKept, Listing
<1>4. CASE LeavePage
  BY <1>4, <1>0 DEF LeavePage, StillSearching, files, shown, SearchInv, SessionInv,
     FilesCovered, ListedIsCurrent, FilesKept, Listing
<1>5. CASE ChangeType
  BY <1>5, <1>0 DEF ChangeType, files, session, SearchInv, SessionInv, FilesCovered,
     ListedIsCurrent, FilesKept, Listing
<1>6. CASE Dump
  BY <1>6, <1>0 DEF Dump, SearchInv, SessionInv, FilesCovered, ListedIsCurrent,
     FilesKept, Listing
<1>7. CASE ResetSearch
  <2>1. /\ disk' = Removed /\ DOMAIN disk' = Number
        /\ found' = [n \in Number |-> IF disk'[n] = Missing THEN Missing ELSE found[n]]
    BY <1>7 DEF ResetSearch, Removed
  <2>2. ASSUME NEW n \in Number PROVE found'[n] = Missing
    <3>1. CASE n <= searchMax
      BY <3>1, <2>1 DEF Removed
    <3>2. CASE ~(n <= searchMax)
      BY <3>2, <2>1 DEF SearchInv, FilesCovered
    <3> QED BY <3>1, <3>2
  <2>3. FilesCovered'
    BY <2>2 DEF FilesCovered
  <2>4. DOMAIN found' = Number
    BY <2>1
  <2>5. /\ extMenu = "tab" /\ extMenu' = "tab" /\ searchNo' = 0
        /\ cheatSearch' = FALSE /\ searchMax' \in 0 .. MaxSearches
    BY <1>7 DEF ResetSearch
  <2> QED BY <2>1, <2>3, <2>4, <2>5, EndKeepsInv
<1>8. CASE FirstExact
  BY <1>8, SearchKeepsInv DEF FirstExact
<1>9. CASE FirstDiff
  BY <1>9, SearchKeepsInv DEF FirstDiff
<1>10. CASE FirstDiffFails
  <2>1. searchMax' = searchMax + 1 /\ searchMax < MaxSearches
    BY <1>10 DEF FirstDiffFails
  <2>2. searchMax' \in searchMax .. MaxSearches /\ 0 \in 0 .. searchNo
    BY <2>1, <1>0
  <2> QED BY <1>10, <2>2, ReloadKeepsInv DEF FirstDiffFails, files
<1>11. CASE NextExact
  BY <1>11, SearchKeepsInv DEF NextExact, NextSearch
<1>12. CASE NextDiff
  BY <1>12, SearchKeepsInv DEF NextDiff, NextSearch
<1>13. CASE TextSearch
  <2>1. /\ searchNo' = searchNo /\ searchMax' = searchMax /\ cheatSearch' = cheatSearch
        /\ extMenu' = extMenu /\ disk' = disk /\ found' = found
    BY <1>13 DEF TextSearch, files, session
  <2>2. searchNo = 0
    BY <1>13 DEF TextSearch, SearchInv, SessionInv
  <2> QED BY <2>1, <2>2 DEF SearchInv, SessionInv, FilesCovered, ListedIsCurrent, FilesKept
<1>14. CASE Undo
  <2>1. searchNo - 1 \in 0 .. searchNo /\ searchMax \in searchMax .. MaxSearches
    BY <1>14, <1>0 DEF Undo
  <2> QED BY <1>14, <2>1, ReloadKeepsInv DEF Undo, UndoneTo, MaxAfterUndo, files
<1>15. CASE OtherPress
  <2>1. searchNo \in 0 .. searchNo /\ searchMax \in searchMax .. MaxSearches
    BY <1>0
  <2> QED BY <1>15, <2>1, ReloadKeepsInv DEF OtherPress, files, session
<1>16. CASE Save
  <2>1. FilesCovered'
    BY <1>16 DEF Save, SearchInv, FilesCovered
  <2> QED BY <1>16, <2>1, <1>0, EndKeepsInv DEF Save, files, SearchInv, SessionInv
<1>17. CASE Restart
  <2>1. FilesCovered' /\ DOMAIN found' = Number
    BY <1>17 DEF Restart, FilesCovered
  <2>2. /\ extMenu = "tab" /\ extMenu' = "tab" /\ searchNo' = 0
        /\ cheatSearch' = FALSE /\ searchMax' \in 0 .. MaxSearches
    BY <1>17 DEF Restart
  <2>3. DOMAIN disk' = Number
    BY <1>17 DEF Restart
  <2> QED BY <2>1, <2>2, <2>3, EndKeepsInv
<1>18. CASE GameWrite
  BY <1>18 DEF GameWrite, files, session, shown, SearchInv, SessionInv, FilesCovered,
     ListedIsCurrent, FilesKept, Listing
<1>19. CASE UNCHANGED vars
  BY <1>19 DEF vars, files, session, shown, SearchInv, SessionInv, FilesCovered,
     ListedIsCurrent, FilesKept, Listing
<1> QED
  BY <1>1, <1>2, <1>3, <1>4, <1>5, <1>6, <1>7, <1>8, <1>9, <1>10, <1>11, <1>12, <1>13,
     <1>14, <1>15, <1>16, <1>17, <1>18, <1>19 DEF Next, Page, Searches

(* The session is as SearchInv says, for every value of the constants.     *)
LEMMA SessionCorrect == Spec => []SearchInv
  BY InitSearchInv, NextSearchInv, PTL DEF Spec

(* "Reset search" removes every file a search has written since the plugin *)
(* started, however searches, undone searches, failures and saves alternate. *)
THEOREM FilesAreCovered == Spec => []FilesCovered
<1>1. SearchInv => FilesCovered
  BY DEF SearchInv
<1> QED BY <1>1, SessionCorrect, PTL

(* What is shown, counted and compared is the current search's own file's. *)
THEOREM CurrentIsListed == Spec => []ListedIsCurrent
<1>1. SearchInv => ListedIsCurrent
  BY DEF SearchInv
<1> QED BY <1>1, SessionCorrect, PTL

(* Undoing shows what was shown after the search undone to.                *)
THEOREM UndoCorrect == Spec => UndoShows
<1> DEFINE Undone == (searchNo' = searchNo - 1 /\ searchNo' > 0) =>
             found[searchNo'] = [count |-> searchResultCounter', first |-> searchAddress']
<1>1. SearchInv /\ SearchInv' /\ [Next]_vars => [Undone]_vars
  <2> SUFFICES ASSUME SearchInv, SearchInv', [Next]_vars,
                      searchNo' = searchNo - 1, searchNo' > 0
               PROVE  found[searchNo'] =
                        [count |-> searchResultCounter', first |-> searchAddress']
    OBVIOUS
  <2>0. searchNo \in Nat /\ searchNo' \in 1 .. searchNo
    BY DEF SearchInv, SessionInv
  <2>1. disk' = disk
    <3>1. CASE \/ EnterExact \/ EnterDiff \/ EnterText \/ LeavePage \/ ChangeType \/ Dump
              \/ GameWrite \/ UNCHANGED vars
      BY <3>1 DEF EnterExact, EnterDiff, EnterText, Enter, LeavePage, ChangeType, Dump,
         GameWrite, vars, files
    <3>2. CASE \/ FirstDiffFails \/ TextSearch \/ Undo \/ OtherPress \/ Save
      BY <3>2 DEF FirstDiffFails, TextSearch, Undo, OtherPress, Save, files
    <3>3. CASE ResetSearch \/ Restart
      BY <3>3, <2>0 DEF ResetSearch, Restart
    <3>4. CASE FirstExact \/ FirstDiff \/ NextExact \/ NextDiff
      <4>1. searchNo' = searchNo + 1
        BY <3>4 DEF FirstExact, FirstDiff, NextExact, NextDiff, NextSearch, Search
      <4> QED BY <4>1, <2>0
    <3> QED BY <3>1, <3>2, <3>3, <3>4 DEF Next, Page, Searches
  <2>2. Listing(disk'[searchNo']) =
          [count |-> searchResultCounter', first |-> searchAddress']
    BY <2>0 DEF SearchInv, ListedIsCurrent, Listing
  <2>3. Listing(disk[searchNo']) = found[searchNo']
    BY <2>0 DEF SearchInv, FilesKept
  <2> QED BY <2>1, <2>2, <2>3 DEF Listing
<1> QED BY <1>1, SessionCorrect, PTL DEF Spec, UndoShows

-----------------------------------------------------------------------------
(* The files as a stack.                                                   *)
LEMMA EmptyStack ==
  ASSUME searchNo = 0
  PROVE  StackOfFiles = <<>>
  BY DEF StackOfFiles

LEMMA AppendFun ==
  ASSUME NEW m \in Nat, NEW s, NEW t, s = [n \in 1 .. m |-> s[n]],
         t = [n \in 1 .. m + 1 |-> t[n]], \A n \in 1 .. m : t[n] = s[n]
  PROVE  t = Append(s, t[m + 1]) /\ Len(t) = m + 1
<1> DEFINE S == {t[n] : n \in 1 .. m + 1}
<1>1. s \in [1 .. m -> S] /\ t \in [1 .. m + 1 -> S] /\ t[m + 1] \in S
  OBVIOUS
<1>2. m + 1 \in Nat /\ DOMAIN s = 1 .. m /\ DOMAIN t = 1 .. m + 1
  BY <1>1
<1> HIDE DEF S
<1>3. s \in Seq(S)
  BY <1>1, SeqDef
<1>4. t \in Seq(S)
  BY <1>1, <1>2, SeqDef
<1>5. Len(s) \in Nat /\ DOMAIN s = 1 .. Len(s) /\ Len(t) \in Nat /\ DOMAIN t = 1 .. Len(t)
  BY <1>3, <1>4, LenProperties
<1>6. Len(s) = m /\ Len(t) = m + 1
  BY <1>2, <1>5
<1>7. t = Append(s, t[m + 1])
  <2>1. /\ Append(s, t[m + 1]) \in Seq(S) /\ Len(Append(s, t[m + 1])) = m + 1
        /\ \A i \in 1 .. m : Append(s, t[m + 1])[i] = s[i]
        /\ Append(s, t[m + 1])[m + 1] = t[m + 1]
    BY <1>1, <1>3, <1>6, AppendProperties
  <2>2. \A i \in 1 .. m + 1 : Append(s, t[m + 1])[i] = t[i]
    <3> SUFFICES ASSUME NEW i \in 1 .. m + 1 PROVE Append(s, t[m + 1])[i] = t[i]
      OBVIOUS
    <3>1. i \in 1 .. m \/ i = m + 1
      OBVIOUS
    <3> QED BY <2>1, <3>1
  <2> QED BY <1>4, <1>6, <2>1, <2>2, SeqEqual
<1> QED BY <1>6, <1>7

(* What is shown while a search is current is the top of the stack.        *)
LEMMA ShownIsTop ==
  ASSUME SearchInv, searchNo > 0
  PROVE  StackOfFiles[searchNo] = Shown
<1>1. searchNo \in 1 .. searchNo
  BY DEF SearchInv, SessionInv
<1> QED BY <1>1 DEF SearchInv, ListedIsCurrent, StackOfFiles, Shown

LEMMA SearchPushes ==
  ASSUME SearchInv, SearchInv', NEW recs, NEW mode, NEW by, Search(recs, mode, by)
  PROVE  Stack!Search
<1> DEFINE no == searchNo + 1
<1>1. searchNo \in Nat /\ searchNo' = no /\ no > 0 /\ no \in Nat
  BY DEF SearchInv, SessionInv, Search
<1>2. disk' = [disk EXCEPT ![no] = Written(disk[no], type, recs)] /\ DOMAIN disk = Number
  BY <1>1 DEF Search, SearchInv, SessionInv
<1>3. \A n \in 1 .. searchNo : disk'[n] = disk[n]
  BY <1>1, <1>2 DEF Number
<1>4. StackOfFiles = [n \in 1 .. searchNo |-> StackOfFiles[n]]
  BY DEF StackOfFiles
<1>5. StackOfFiles' = [n \in 1 .. no |-> StackOfFiles'[n]]
  BY <1>1 DEF StackOfFiles
<1>6. \A n \in 1 .. searchNo : StackOfFiles'[n] = StackOfFiles[n]
  <2> SUFFICES ASSUME NEW n \in 1 .. searchNo PROVE StackOfFiles'[n] = StackOfFiles[n]
    OBVIOUS
  <2>1. n \in 1 .. no /\ disk'[n] = disk[n]
    BY <1>1, <1>3
  <2> QED BY <1>1, <2>1 DEF StackOfFiles, Listing
<1>7. StackOfFiles' = Append(StackOfFiles, StackOfFiles'[no])
  BY <1>1, <1>4, <1>5, <1>6, AppendFun
<1>8. StackOfFiles'[no] = Shown'
  <2>1. no \in 1 .. no
    BY <1>1
  <2> QED BY <1>1, <2>1 DEF SearchInv, ListedIsCurrent, StackOfFiles, Shown, Listing
<1> QED BY <1>7, <1>8 DEF Stack!Search

LEMMA UndoPops ==
  ASSUME SearchInv, SearchInv', Undo
  PROVE  Stack!Undo
<1> DEFINE no == searchNo - 1
<1>1. searchNo \in Nat /\ searchNo' = no /\ searchNo > 0 /\ no \in Nat /\ searchNo = no + 1
      /\ disk' = disk
  BY DEF SearchInv, SessionInv, Undo, files
<1>2. StackOfFiles = [n \in 1 .. no + 1 |-> StackOfFiles[n]]
      /\ StackOfFiles' = [n \in 1 .. no |-> StackOfFiles'[n]]
      /\ \A n \in 1 .. no : StackOfFiles[n] = StackOfFiles'[n]
  BY <1>1 DEF StackOfFiles, Listing
<1>3. /\ StackOfFiles = Append(StackOfFiles', StackOfFiles[no + 1])
      /\ Len(StackOfFiles) = no + 1
  <2> DEFINE s == StackOfFiles'
             t == StackOfFiles
  <2>1. s = [n \in 1 .. no |-> s[n]] /\ t = [n \in 1 .. no + 1 |-> t[n]]
        /\ \A n \in 1 .. no : t[n] = s[n]
    BY <1>2
  <2> HIDE DEF s, t
  <2>2. t = Append(s, t[no + 1]) /\ Len(t) = no + 1
    BY <1>1, <2>1, AppendFun
  <2> QED BY <2>2 DEF s, t
<1>4. StackOfFiles # <<>>
  BY <1>1, <1>3
<1>5. Shown' = Stack!Top(StackOfFiles')
  <2>1. CASE no = 0
    <3>1. StackOfFiles' = <<>>
      BY <1>1, <2>1 DEF StackOfFiles
    <3>2. Shown' = [count |-> 0, first |-> <<>>]
      BY <1>1, <2>1 DEF Undo, UndoneTo, Reload, Shown
    <3> QED BY <3>1, <3>2 DEF Stack!Top
  <2>2. CASE no > 0
    <3>1. no \in 1 .. no
      BY <1>1, <2>2
    <3>2. StackOfFiles'[no] = Shown'
      BY <1>1, <2>2, <3>1 DEF SearchInv, ListedIsCurrent, StackOfFiles, Shown, Listing
    <3>3. Len(StackOfFiles') = no /\ StackOfFiles' # <<>>
      BY <1>1, <1>2, <2>2
    <3> QED BY <3>2, <3>3 DEF Stack!Top
  <2> QED BY <1>1, <2>1, <2>2
<1>6. Stack!Top(StackOfFiles) = StackOfFiles[no + 1]
  BY <1>3, <1>4 DEF Stack!Top
<1> QED BY <1>3, <1>4, <1>5, <1>6 DEF Stack!Undo

LEMMA EndClears ==
  ASSUME searchNo' = 0, searchResultCounter' = 0, searchAddress' = <<>>
  PROVE  Stack!Clear
<1>1. StackOfFiles' = <<>>
  BY DEF StackOfFiles
<1> QED BY <1>1 DEF Stack!Clear, Shown

LEMMA StackStep ==
  ASSUME SearchInv, SearchInv', [Next]_vars
  PROVE  [Stack!Next]_(Stack!vars)
<1>1. CASE \/ EnterExact \/ EnterDiff \/ EnterText \/ LeavePage \/ ChangeType \/ Dump
           \/ GameWrite \/ UNCHANGED vars
  <2>1. searchNo' = searchNo /\ disk' = disk /\ searchResultCounter' = searchResultCounter
        /\ searchAddress' = searchAddress
    BY <1>1 DEF EnterExact, EnterDiff, EnterText, Enter, LeavePage, ChangeType, Dump,
       GameWrite, vars, files, shown, session
  <2>2. StackOfFiles' = StackOfFiles /\ Shown' = Shown
    BY <2>1 DEF StackOfFiles, Shown, Listing
  <2> QED BY <2>2 DEF Stack!vars
<1>2. CASE FirstExact \/ FirstDiff \/ NextExact \/ NextDiff
  <2>1. PICK recs, mode, by : Search(recs, mode, by)
    BY <1>2 DEF FirstExact, FirstDiff, NextExact, NextDiff, NextSearch
  <2> QED BY <2>1, SearchPushes DEF Stack!Next
<1>3. CASE Undo
  BY <1>3, UndoPops DEF Stack!Next
<1>4. CASE ResetSearch \/ Save \/ Restart
  <2>1. searchNo' = 0 /\ searchResultCounter' = 0 /\ searchAddress' = <<>>
    BY <1>4 DEF ResetSearch, Save, Restart, NoResults
  <2> QED BY <2>1, EndClears DEF Stack!Next
<1>5. CASE FirstDiffFails
  <2>1. searchNo' = 0 /\ searchResultCounter' = 0 /\ searchAddress' = <<>>
    BY <1>5 DEF FirstDiffFails, Reload
  <2> QED BY <2>1, EndClears DEF Stack!Next
<1>6. CASE OtherPress
  <2>1. searchNo' = searchNo /\ disk' = disk /\ searchNo \in Nat
    BY <1>6 DEF OtherPress, files, session, SearchInv, SessionInv
  <2>2. CASE searchNo = 0
    <3>1. searchNo' = 0 /\ searchResultCounter' = 0 /\ searchAddress' = <<>>
      BY <1>6, <2>1, <2>2 DEF OtherPress, Reload
    <3> QED BY <3>1, EndClears DEF Stack!Next
  <2>3. CASE searchNo > 0
    <3>1. StackOfFiles' = StackOfFiles
      BY <2>1 DEF StackOfFiles, Listing
    <3>2. Shown = Listing(disk[searchNo]) /\ Shown' = Listing(disk[searchNo])
      BY <2>1, <2>3 DEF SearchInv, ListedIsCurrent, Shown, Listing
    <3> QED BY <3>1, <3>2 DEF Stack!vars
  <2> QED BY <2>1, <2>2, <2>3
<1>7. CASE TextSearch
  <2>1. searchNo = 0 /\ searchNo' = 0
    BY <1>7 DEF TextSearch, session, SearchInv, SessionInv
  <2>2. StackOfFiles = <<>> /\ StackOfFiles' = <<>>
    BY <2>1 DEF StackOfFiles
  <2> QED BY <2>2 DEF Stack!Next, Stack!TextSearch
<1> QED BY <1>1, <1>2, <1>3, <1>4, <1>5, <1>6, <1>7 DEF Next, Page, Searches

(* The files, the counters and what is shown implement SessionStack: every *)
(* step of the searches is a step of the stack or leaves it alone.         *)
THEOREM StackImplemented == Spec => ImplementsStack
<1>1. Init => Stack!Init
  <2> SUFFICES ASSUME Init PROVE Stack!Init
    OBVIOUS
  <2>1. StackOfFiles = <<>>
    BY EmptyStack DEF Init
  <2> QED BY <2>1 DEF Init, Stack!Init, Shown
<1>2. SearchInv /\ SearchInv' /\ [Next]_vars => [Stack!Next]_(Stack!vars)
  BY StackStep
<1> QED BY <1>1, <1>2, SessionCorrect, PTL DEF Spec, ImplementsStack, Stack!Spec

-----------------------------------------------------------------------------
(* The members of a set of numbers in ascending order: the number of       *)
(* members below one is less than their number and tells them apart, so    *)
(* each place has a member.                                                *)
LEMMA AscendingType ==
  ASSUME NEW S, S \subseteq Nat, IsFiniteSet(S)
  PROVE  /\ Cardinality(S) \in Nat
         /\ Ascending(S) \in [1 .. Cardinality(S) -> S]
<1> DEFINE n == Cardinality(S)
           Below(x) == {y \in S : y < x}
           rank == [x \in S |-> Cardinality(Below(x)) + 1]
<1>1. n \in Nat
  BY FS_CardinalityType
<1>2. ASSUME NEW x \in S
      PROVE  IsFiniteSet(Below(x)) /\ Cardinality(Below(x)) \in 0 .. n - 1
  <2>1. Below(x) \subseteq S \ {x} /\ IsFiniteSet(S \ {x}) /\ Cardinality(S \ {x}) = n - 1
    BY FS_RemoveElement
  <2> HIDE DEF Below, n
  <2>2. IsFiniteSet(Below(x)) /\ Cardinality(Below(x)) <= n - 1
    BY <2>1, FS_Subset
  <2> QED  BY <2>2, <1>1, FS_CardinalityType
<1>3. ASSUME NEW x \in S, NEW z \in S, x < z
      PROVE  Cardinality(Below(x)) < Cardinality(Below(z))
  <2>1. Below(x) \subseteq Below(z) \ {x} /\ x \in Below(z)
    <3>1. x \in Nat /\ z \in Nat /\ \A y \in S : y \in Nat
      OBVIOUS
    <3>2. \A y \in Below(x) : y \in S /\ y < z /\ y # x
      BY <1>3, <3>1
    <3>3. \A y \in Below(x) : y \in Below(z) \ {x}
      BY <3>2
    <3>4. x \in Below(z)
      BY <1>3
    <3> HIDE DEF Below
    <3> QED  BY <3>3, <3>4
  <2>2. Cardinality(Below(z)) \in Nat /\ Cardinality(Below(x)) \in Nat /\ IsFiniteSet(Below(z))
    BY <1>2
  <2> HIDE DEF Below, n
  <2>3. IsFiniteSet(Below(z) \ {x}) /\ Cardinality(Below(z) \ {x}) = Cardinality(Below(z)) - 1
    BY <2>1, <2>2, FS_RemoveElement
  <2>4. Cardinality(Below(x)) <= Cardinality(Below(z) \ {x})
    BY <2>1, <2>3, FS_Subset
  <2> QED  BY <2>2, <2>3, <2>4
<1>4. rank \in Injection(S, 1 .. n)
  <2>1. rank \in [S -> 1 .. n]
    BY <1>1, <1>2
  <2>2. \A x \in S : rank[x] = Cardinality(Below(x)) + 1 /\ Cardinality(Below(x)) \in Nat
    BY <1>2
  <2> HIDE DEF rank, Below
  <2>3. ASSUME NEW x \in S, NEW z \in S, rank[x] = rank[z] PROVE x = z
    <3>1. Cardinality(Below(x)) = Cardinality(Below(z)) /\ Cardinality(Below(x)) \in Nat
      BY <2>2, <2>3
    <3>2. ~(x < z) /\ ~(z < x)
      BY <3>1, <1>3
    <3> QED  BY <3>2
  <2> QED  BY <2>1, <2>3, Fun_IsInj
<1>5. rank \in Surjection(S, 1 .. n)
  <2>1. IsFiniteSet(1 .. n) /\ Cardinality(1 .. n) = n
    BY <1>1, FS_Interval
  <2> HIDE DEF rank
  <2> QED  BY <1>4, <2>1, FS_Injection
<1>6. ASSUME NEW i \in 1 .. n
      PROVE  (CHOOSE x \in S : Cardinality({y \in S : y < x}) = i - 1) \in S
  <2>1. PICK x \in S : rank[x] = i
    <3>1. \A j \in 1 .. n : \E x \in S : rank[x] = j
      <4> HIDE DEF rank, n
      <4> QED  BY <1>5, Fun_SurjectionProperties
    <3> HIDE DEF rank, n
    <3> QED  BY <3>1
  <2>2. rank[x] = Cardinality(Below(x)) + 1 /\ Cardinality(Below(x)) \in Nat
    BY <1>2
  <2>3. Cardinality(Below(x)) = i - 1
    <3> HIDE DEF rank, Below
    <3> QED  BY <2>1, <2>2
  <2> QED  BY <2>3
<1> QED  BY <1>1, <1>6 DEF Ascending

-----------------------------------------------------------------------------
(* The constants, as numbers.                                              *)
LEMMA Constants ==
  /\ Words \in Nat \ {0} /\ Values \in Nat \ {0} /\ Chunk \in Nat \ {0}
  /\ Words % Chunk = 0 /\ Types \subseteq {1, 2, 4} /\ 4 \in Types /\ Modes \subseteq 0 .. 5
  /\ searchResultCounterMax \in Nat /\ searchResultMax \in Nat
  /\ MaxSearches \in Nat /\ 0 \in Value /\ Garbage \notin Addr /\ Garbage = 0
  BY SizeAssumption, LimitAssumption DEF Value, Addr, Garbage

(* What a search keeps is the records of candidates it kept, with the      *)
(* values the words have now.                                              *)
Current(r) == IF r.addr = Garbage THEN r ELSE [r EXCEPT !.val = mem[r.addr]]
LEMMA ResultsAre ==
  ASSUME mem \in [Addr -> Value], NEW cand, NEW kept, kept \subseteq Nat, IsFiniteSet(kept),
         \A i \in kept : cand[i] \in Record
  PROVE  /\ Results(cand, kept) \in Seq(Record)
         /\ \A j \in DOMAIN Results(cand, kept) :
              \E i \in kept : Results(cand, kept)[j] = Current(cand[i])
<1> DEFINE s == Ascending(kept)
           n == Shorter(Len(s), searchResultCounterMax)
           recs == [j \in 1 .. n |-> Current(cand[s[j]])]
<1>1. Results(cand, kept) = recs
  BY DEF Results, Current
<1>2. Cardinality(kept) \in Nat /\ s \in [1 .. Cardinality(kept) -> kept]
  BY AscendingType
<1>3. Len(s) = Cardinality(kept)
  <2> HIDE DEF s
  <2> QED  BY <1>2
<1>4. n \in Nat /\ n <= Cardinality(kept)
  BY <1>2, <1>3, Constants DEF Shorter
<1> HIDE DEF n
<1>5. \A j \in 1 .. n : s[j] \in kept
  <2> HIDE DEF s
  <2> QED  BY <1>2, <1>4
<1>6. ASSUME NEW r \in Record PROVE Current(r) \in Record
  BY Constants DEF Current, Record
<1>7. recs \in [1 .. n -> Record]
  <2> HIDE DEF s
  <2>1. ASSUME NEW j \in 1 .. n PROVE Current(cand[s[j]]) \in Record
    BY <1>5, <1>6
  <2> QED  BY <2>1
<1>8. recs \in Seq(Record)
  <2> HIDE DEF recs
  <2> QED  BY <1>4, <1>7
<1>9. \A j \in 1 .. n : \E i \in kept : recs[j] = Current(cand[i])
  <2> HIDE DEF s
  <2> QED  BY <1>5
<1> QED  BY <1>1, <1>8, <1>9

(* A file written over another one.                                        *)
LEMMA SizeIs ==
  ASSUME NEW t \in Types PROVE Size(t) \in {5, 6, 8}
  BY Constants DEF Size

LEMMA Division ==
  ASSUME NEW k \in Nat, NEW z \in {5, 6, 8}, NEW b \in Nat \ {0}
  PROVE  ((1 + z * k) - 1) \div z = k /\ (b - 1) \div z \in Nat /\ z * k \in Nat
<1>1. CASE z = 5
  BY <1>1
<1>2. CASE z = 6
  BY <1>2
<1>3. CASE z = 8
  BY <1>3
<1> QED  BY <1>1, <1>2, <1>3

LEMMA WrittenType ==
  ASSUME NEW old, old \in File \cup {Missing}, old # Missing => Whole(old),
         NEW t \in Types, NEW recs \in Seq(Record)
  PROVE  /\ Written(old, t, recs) \in File /\ Whole(Written(old, t, recs))
         /\ Written(old, t, recs).type = t
         /\ old = Missing => Written(old, t, recs).recs = recs
<1> DEFINE z == Size(t)
           k == Len(recs)
           has == IF old = Missing THEN 1 ELSE old.bytes
           bytes == Longer(has, 1 + z * k)
           m == (bytes - 1) \div z
           Rest(i) == IF old # Missing /\ old.type = t THEN old.recs[i] ELSE Garbled
           all == [i \in 1 .. m |-> IF i <= k THEN recs[i] ELSE Rest(i)]
<1>1. Written(old, t, recs) = [type |-> t, bytes |-> bytes, recs |-> all]
  BY DEF Written
<1>2. z \in {5, 6, 8} /\ k \in Nat /\ DOMAIN recs = 1 .. k /\ \A i \in 1 .. k : recs[i] \in Record
  BY SizeIs
<1>3. has \in Nat \ {0}
  BY DEF File, Whole
<1> HIDE DEF z, k, has
<1>4. /\ z * k \in Nat /\ (1 + z * k - 1) \div z = k /\ (has - 1) \div z \in Nat
  BY <1>2, <1>3, Division
<1>5. bytes \in Nat \ {0} /\ (bytes = has \/ bytes = 1 + z * k)
  BY <1>3, <1>4 DEF Longer
<1>6. bytes = has => has > 1 + z * k \/ has = 1 + z * k
  BY <1>3, <1>4 DEF Longer
<1>7. m \in Nat
  <2> HIDE DEF bytes
  <2> QED  BY <1>2, <1>5, Division
<1> HIDE DEF m
<1>8. Garbled \in Record
  BY Constants DEF Garbled, Record
<1>9. ASSUME NEW i \in 1 .. m, ~(i <= k) PROVE Rest(i) \in Record
  <2>1. CASE old # Missing /\ old.type = t
    <3>1. old \in File /\ Whole(old) /\ has = old.bytes
      BY <2>1 DEF has
    <3>2. bytes = has
      <4>1. CASE bytes = 1 + z * k
        <5>1. m = k
          BY <4>1, <1>4 DEF m
        <5> QED  BY <1>9, <5>1, <1>2
      <4> QED  BY <4>1, <1>5
    <3>3. Len(old.recs) = m
      BY <2>1, <3>1, <3>2 DEF Whole, m, z
    <3>4. old.recs \in Seq(Record)
      BY <3>1 DEF File
    <3>5. old.recs[i] \in Record
      BY <3>3, <3>4
    <3> QED  BY <2>1, <3>5
  <2>2. CASE ~(old # Missing /\ old.type = t)
    BY <2>2, <1>8
  <2> QED  BY <2>1, <2>2
<1> HIDE DEF Rest
<1>10. all \in [1 .. m -> Record]
  BY <1>2, <1>9
<1> HIDE DEF all
<1>11. all \in Seq(Record) /\ Len(all) = m
  BY <1>7, <1>10
<1>12. Written(old, t, recs) \in File
  BY <1>1, <1>5, <1>11 DEF File
<1>13. Whole(Written(old, t, recs))
  <2> HIDE DEF bytes
  <2> QED  BY <1>1, <1>5, <1>11 DEF Whole, m, z
<1>14. ASSUME old = Missing PROVE all = recs
  <2>1. has = 1
    BY <1>14 DEF has
  <2>2. bytes = 1 + z * k
    BY <2>1, <1>4 DEF Longer
  <2>3. m = k
    BY <2>2, <1>4 DEF m
  <2>4. \A i \in 1 .. k : all[i] = recs[i]
    BY <2>3, <1>2 DEF all
  <2> QED  BY <2>3, <2>4, <1>2, <1>11, SeqEqual
<1> QED  BY <1>1, <1>12, <1>13, <1>14

(* Loading a file.                                                         *)
LEMMA ListingType ==
  ASSUME NEW f \in File
  PROVE  /\ Listing(f).count = Len(f.recs) /\ Listing(f).count \in Nat
         /\ Listing(f).first \in Seq(Addr \cup {Garbage})
         /\ Len(Listing(f).first) <= searchResultMax
<1> DEFINE n == Len(f.recs)
           a == Addresses(f.recs)
           k == Shorter(n, searchResultMax)
           A == Addr \cup {Garbage}
<1>1. f.recs \in Seq(Record) /\ n \in Nat
  BY DEF File
<1>2. ASSUME NEW i \in 1 .. n PROVE a[i] \in A
  <2>1. a[i] = f.recs[i].addr
    BY DEF Addresses
  <2>2. f.recs[i] \in Record
    BY <1>1
  <2>3. \A r \in Record : r.addr \in A
    BY DEF Record
  <2> QED  BY <2>1, <2>2, <2>3, Zenon
<1>3. k \in Nat /\ k <= n /\ k <= searchResultMax
  BY <1>1, Constants DEF Shorter
<1> HIDE DEF a, n, k, A
<1>4. SubSeq(a, 1, k) \in Seq(A) /\ Len(SubSeq(a, 1, k)) = k
  <2>1. \A i \in 1 .. k : a[i] \in A
    BY <1>1, <1>2, <1>3
  <2>2. k \in Int /\ 1 \in Int
    BY <1>3
  <2>3. SubSeq(a, 1, k) \in Seq(A) /\ Len(SubSeq(a, 1, k)) = IF 1 <= k THEN k - 1 + 1 ELSE 0
    BY <2>1, <2>2, SubSeqProperties
  <2> QED  BY <2>3, <1>3
<1>5. Listing(f) = [count |-> n, first |-> SubSeq(a, 1, k)]
  BY DEF Listing, n, a, k
<1> QED  BY <1>1, <1>3, <1>4, <1>5 DEF A, n

-----------------------------------------------------------------------------
(* Type correctness.  Of the session's numbers SearchInv says it; the rest *)
(* is the words, the files and what is shown.                              *)
ShownOK ==
  /\ type \in Types /\ searchResultCounter \in Nat
  /\ searchAddress \in Seq(Addr \cup {Garbage}) /\ Len(searchAddress) <= searchResultMax
BufferOK == Len(fileBuffer) < Chunk /\ fileBuffer \in Seq(Value)
DataOK ==
  /\ mem \in [Addr -> Value] /\ dump \in [Addr -> Value] \cup {Missing}
  /\ disk \in [Number -> File \cup {Missing}]
  /\ asked \in [mode : Modes \cup {Exact}, by : Value] \cup {Missing}
  /\ extMenu \in {"tab", "exact", "diff", "text"}
TypeInv == ShownOK /\ BufferOK /\ DataOK /\ DiskInv

LEMMA TypeInvIsType ==
  ASSUME TypeInv, SearchInv PROVE TypeOK
BY Zenon DEF TypeInv, SearchInv, SessionInv, ShownOK, BufferOK, DataOK, TypeOK

LEMMA NothingShown ==
  ASSUME type' \in Types, searchResultCounter' = 0, searchAddress' = <<>>
  PROVE  ShownOK'
<1>1. <<>> \in Seq(Addr \cup {Garbage}) /\ Len(<<>>) = 0 /\ 0 <= searchResultMax /\ 0 \in Nat
  BY EmptySeq, Constants
<1> QED  BY <1>1 DEF ShownOK

LEMMA ReloadType ==
  ASSUME type \in Types, NEW no \in Nat, NEW d, no # 0 => d[no] \in File, Reload(no, d)
  PROVE  ShownOK'
<1>1. CASE no = 0
  BY <1>1, NothingShown DEF Reload
<1>2. CASE no # 0
  <2>1. /\ type' = d[no].type /\ searchResultCounter' = Listing(d[no]).count
        /\ searchAddress' = Listing(d[no]).first
    BY <1>2 DEF Reload
  <2>2. d[no].type \in Types
    BY <1>2 DEF File
  <2>3. /\ Listing(d[no]).count \in Nat /\ Listing(d[no]).first \in Seq(Addr \cup {Garbage})
        /\ Len(Listing(d[no]).first) <= searchResultMax
    BY <1>2, ListingType
  <2> QED  BY <2>1, <2>2, <2>3, Zenon DEF ShownOK
<1> QED  BY <1>1, <1>2

LEMMA InitTypeInv ==
  ASSUME Init PROVE TypeInv
<1>1. ShownOK
  <2>1. <<>> \in Seq(Addr \cup {Garbage}) /\ Len(<<>>) = 0 /\ 0 <= searchResultMax /\ 0 \in Nat
    BY EmptySeq, Constants
  <2> QED  BY <2>1, Constants DEF Init, ShownOK
<1>2. BufferOK
  BY EmptySeq, Constants DEF Init, BufferOK
<1>3. DataOK
  <2>1. disk \in [Number -> File \cup {Missing}]
    BY DEF Init
  <2>2. asked \in {Missing} /\ extMenu \in {"tab", "exact", "diff", "text"}
    BY DEF Init
  <2> QED  BY <2>1, <2>2 DEF Init, DataOK
<1>4. DiskInv
  <2>1. \A n \in Number : disk[n] = Missing
    BY DEF Init
  <2>2. 1 .. searchNo = {}
    BY DEF Init
  <2> QED  BY <2>1, <2>2, Zenon DEF DiskInv
<1> QED  BY <1>1, <1>2, <1>3, <1>4 DEF TypeInv

(* A search, first or further.                                             *)
LEMMA SearchType ==
  ASSUME TypeInv, SearchInv, NEW recs \in Seq(Record), NEW mode \in Modes \cup {Exact},
         NEW by \in Value, Search(recs, mode, by), BufferOK'
  PROVE  TypeInv'
<1> DEFINE no == searchNo + 1
           new == Written(disk[no], type, recs)
<1>1. searchNo \in Nat /\ no \in Number /\ no \in Nat /\ no # 0
  <2>1. searchNo \in Nat /\ searchMax \in Nat /\ searchNo <= searchMax /\ MaxSearches \in Nat
    BY Constants DEF SearchInv, SessionInv
  <2>2. searchMax < MaxSearches
    BY DEF Search
  <2> QED  BY <2>1, <2>2 DEF Number
<1>2. /\ searchNo' = no /\ disk' = [disk EXCEPT ![no] = new]
      /\ asked' = [mode |-> mode, by |-> by] /\ Reload(no, disk')
      /\ mem' = mem /\ dump' = dump /\ extMenu' = extMenu
  BY DEF Search
<1>3. disk \in [Number -> File \cup {Missing}] /\ type \in Types
  BY DEF TypeInv, DataOK, ShownOK
<1>4. disk[no] \in File \cup {Missing} /\ (disk[no] # Missing => Whole(disk[no]))
  BY <1>1, <1>3 DEF TypeInv, DiskInv
<1>5. new \in File /\ Whole(new)
  BY <1>3, <1>4, WrittenType
<1> HIDE DEF new
<1>6. /\ disk' \in [Number -> File \cup {Missing}] /\ disk'[no] = new
      /\ \A n \in Number : n # no => disk'[n] = disk[n]
  BY <1>1, <1>2, <1>3, <1>5
<1>7. ShownOK'
  BY <1>1, <1>2, <1>3, <1>5, <1>6, ReloadType
<1>8. DataOK'
  <2>1. asked' \in [mode : Modes \cup {Exact}, by : Value]
    BY <1>2
  <2> QED  BY <1>2, <1>6, <2>1 DEF TypeInv, DataOK
<1>9. DiskInv'
  <2>1. \A n \in Number : disk'[n] # Missing => Whole(disk'[n])
    BY <1>5, <1>6 DEF TypeInv, DiskInv
  <2>2. ASSUME NEW n \in 1 .. no PROVE disk'[n] \in File /\ Whole(disk'[n])
    <3>1. CASE n = no
      BY <3>1, <1>5, <1>6
    <3>2. CASE n # no
      <4>1. n \in 1 .. searchNo /\ n \in Number
        BY <3>2, <1>1, Constants DEF Number
      <4>2. disk'[n] = disk[n]
        BY <3>2, <4>1, <1>6
      <4> QED  BY <4>1, <4>2 DEF TypeInv, DiskInv
    <3> QED  BY <3>1, <3>2
  <2>3. \A f : Whole(f)' <=> Whole(f)
    BY DEF Whole, Size
  <2> QED  BY <1>2, <2>1, <2>2 DEF DiskInv, File, Whole, Size
<1> QED  BY <1>7, <1>8, <1>9 DEF TypeInv

(* What is left in fileBuffer, of the chunk the last word came from.       *)
LEMMA Multiple ==
  ASSUME NEW c \in Nat \ {0}, NEW a \in Nat
  PROVE  /\ a \div c \in Nat /\ a = c * (a \div c) + (a % c)
         /\ a % c \in 0 .. c - 1
  OBVIOUS

LEMMA Product ==
  ASSUME NEW c \in Nat \ {0}, NEW a \in Int, NEW b \in Int, a < b
  PROVE  c * a + c <= c * b
<1>1. b - a >= 1 /\ b - a \in Int
  OBVIOUS
<1>2. c * (b - a) >= c
  BY <1>1
<1> QED  BY <1>2

LEMMA LeftType ==
  ASSUME BufferOK, dump \in [Addr -> Value], NEW n \in ScanStops
  PROVE  /\ LeftAfter(IF n = Words THEN n ELSE n + 1) \in Seq(Value)
         /\ Len(LeftAfter(IF n = Words THEN n ELSE n + 1)) < Chunk
<1> DEFINE m == IF n = Words THEN n ELSE n + 1
           L == Len(fileBuffer)
           q == m - L
           d == (q + Chunk - 1) \div Chunk
           e == Chunk * d
<1>1. n \in 0 .. Words /\ n % Chunk = 0 /\ L \in Nat /\ L < Chunk /\ fileBuffer \in Seq(Value)
  BY DEF ScanStops, BufferOK
<1>2. m \in Nat /\ q \in Int /\ q <= m
  BY <1>1, Constants
<1>3. LeftAfter(m) = IF q <= 0 THEN SubSeq(fileBuffer, m + 1, L) ELSE SubSeq(dump, q + 1, e)
  BY DEF LeftAfter
<1>4. CASE q <= 0
  <2>1. \A i \in m + 1 .. L : fileBuffer[i] \in Value
    BY <1>1, <1>2
  <2>2. m + 1 \in Int /\ L \in Int
    BY <1>1, <1>2
  <2> HIDE DEF m, q, d, e, L
  <2>3. /\ SubSeq(fileBuffer, m + 1, L) \in Seq(Value)
        /\ Len(SubSeq(fileBuffer, m + 1, L)) = IF m + 1 <= L THEN L - (m + 1) + 1 ELSE 0
    BY <2>1, <2>2, SubSeqProperties
  <2>4. Len(SubSeq(fileBuffer, m + 1, L)) < Chunk
    BY <2>3, <1>1, <1>2, Constants
  <2>5. LeftAfter(m) = SubSeq(fileBuffer, m + 1, L)
    BY <1>3, <1>4
  <2>6. LeftAfter(m) \in Seq(Value) /\ Len(LeftAfter(m)) < Chunk
    BY <2>3, <2>4, <2>5
  <2> QED  BY <2>6 DEF m
<1>5. CASE q > 0
  <2>1. Chunk \in Nat \ {0} /\ q + Chunk - 1 \in Nat /\ Words \in Nat /\ Words % Chunk = 0
    BY <1>2, <1>5, Constants
  <2> DEFINE r == (q + Chunk - 1) % Chunk
             v == n \div Chunk
             w == Words \div Chunk
  <2>2. /\ d \in Nat /\ q + Chunk - 1 = Chunk * d + r /\ r \in 0 .. Chunk - 1
        /\ v \in Nat /\ n = Chunk * v + (n % Chunk)
        /\ w \in Nat /\ Words = Chunk * w + (Words % Chunk)
    <3>1. d \in Nat /\ q + Chunk - 1 = Chunk * d + r /\ r \in 0 .. Chunk - 1
      <4> HIDE DEF q
      <4> QED  BY <2>1, Multiple
    <3>2. v \in Nat /\ n = Chunk * v + (n % Chunk)
      <4>1. n \in Nat
        BY <1>1
      <4> QED  BY <2>1, <4>1, Multiple
    <3>3. w \in Nat /\ Words = Chunk * w + (Words % Chunk)
      BY <2>1, Multiple
    <3> QED  BY <3>1, <3>2, <3>3
  <2> HIDE DEF d, r, v, w
  <2>3. e \in Nat /\ n = Chunk * v /\ Words = Chunk * w
    <3>1. Chunk * d \in Nat /\ Chunk * v \in Nat /\ Chunk * w \in Nat
      BY <2>1, <2>2
    <3> QED  BY <1>1, <2>1, <2>2, <3>1
  <2>4. q <= e /\ e < q + Chunk
    <3> HIDE DEF q
    <3>1. q + Chunk - 1 = e + r /\ r \in 0 .. Chunk - 1 /\ e \in Nat
      BY <2>2, <2>3
    <3>2. q \in Int /\ Chunk \in Nat
      BY <1>2, <2>1
    <3> HIDE DEF e
    <3> QED  BY <3>1, <3>2
  <2>5. e <= Words
    <3>1. CASE n = Words
      <4>1. q <= Words
        BY <3>1, <1>1
      <4>2. ~(w < d)
        <5>1. ASSUME w < d PROVE FALSE
          <6>1. Chunk * w + Chunk <= Chunk * d
            BY <2>1, <2>2, <5>1, Product
          <6> HIDE DEF q
          <6> QED  BY <2>1, <2>3, <2>4, <4>1, <6>1, <1>2
        <5> QED  BY <5>1
      <4>3. d = w \/ d < w
        BY <2>2, <4>2
      <4>4. CASE d = w
        BY <4>4, <2>3
      <4>5. CASE d < w
        <5>1. Chunk * d + Chunk <= Chunk * w
          BY <2>1, <2>2, <4>5, Product
        <5> QED  BY <5>1, <2>1, <2>3
      <4> QED  BY <4>3, <4>4, <4>5
    <3>2. CASE n # Words
      <4>1. n < Words
        BY <3>2, <1>1, <2>1
      <4>2. v < w
        <5>1. ASSUME ~(v < w) PROVE FALSE
          <6>1. w = v \/ w < v
            BY <2>2, <5>1
          <6>2. CASE w = v
            BY <6>2, <2>3, <4>1, <1>1, <2>1
          <6>3. CASE w < v
            <7>1. Chunk * w + Chunk <= Chunk * v
              BY <2>1, <2>2, <6>3, Product
            <7> QED  BY <7>1, <2>3, <4>1, <1>1, <2>1
          <6> QED  BY <6>1, <6>2, <6>3
        <5> QED  BY <5>1
      <4>3. Chunk * v + Chunk <= Chunk * w
        BY <2>1, <2>2, <4>2, Product
      <4>4. n + Chunk <= Words /\ q <= n + 1
        BY <4>3, <2>3, <3>2, <1>1
      <4> HIDE DEF q
      <4> QED  BY <2>1, <2>3, <2>4, <4>4, <1>1, <1>2
    <3> QED  BY <3>1, <3>2
  <2> HIDE DEF m, q, e, L
  <2>6. \A i \in q + 1 .. e : dump[i] \in Value
    <3>1. ASSUME NEW i \in q + 1 .. e PROVE i \in Addr
      BY <1>2, <1>5, <2>1, <2>3, <2>5 DEF Addr
    <3> QED  BY <3>1
  <2>7. q + 1 \in Int /\ e \in Int
    BY <1>2, <2>3
  <2>8. /\ SubSeq(dump, q + 1, e) \in Seq(Value)
        /\ Len(SubSeq(dump, q + 1, e)) = IF q + 1 <= e THEN e - (q + 1) + 1 ELSE 0
    BY <2>6, <2>7, SubSeqProperties
  <2>9. Len(SubSeq(dump, q + 1, e)) < Chunk
    BY <2>8, <2>4, <2>3, <1>2, Constants
  <2>10. LeftAfter(m) = SubSeq(dump, q + 1, e)
    <3>1. ~(q <= 0)
      BY <1>2, <1>5
    <3> QED  BY <1>3, <3>1, Zenon
  <2>11. LeftAfter(m) \in Seq(Value) /\ Len(LeftAfter(m)) < Chunk
    BY <2>8, <2>9, <2>10
  <2> QED  BY <2>11 DEF m
<1>6. q <= 0 \/ q > 0
  BY <1>2
<1> QED  BY <1>4, <1>5, <1>6

-----------------------------------------------------------------------------
(* The candidates of each kind of search.                                  *)
LEMMA KeptFinite ==
  ASSUME NEW n \in Nat, NEW K, K \subseteq 1 .. n
  PROVE  K \subseteq Nat /\ IsFiniteSet(K)
<1>1. IsFiniteSet(1 .. n)
  BY FS_Interval
<1>2. IsFiniteSet(K)
  BY <1>1, FS_Subset
<1> QED  BY <1>2

LEMMA MatchesAre ==
  ASSUME NEW cand, NEW n \in Nat, NEW mode, NEW by
  PROVE  /\ Matches(cand, n, mode, by) \subseteq 1 .. n /\ Unknown(cand, n) \subseteq 1 .. n
         /\ \A i \in Matches(cand, n, mode, by) :
              /\ cand[i].addr # Garbage
              /\ Keeps(mode, cand[i].val, mem[cand[i].addr], by)
BY Zenon DEF Matches, Unknown

LEMMA StopsAre ==
  ASSUME NEW n \in ScanStops PROVE n \in Nat /\ 1 .. n \subseteq Addr
BY Constants DEF ScanStops, Addr

LEMMA ScannedType == \A i \in Addr : Scanned[i] \in Record
BY Constants DEF Scanned, Record

LEMMA OldType ==
  ASSUME BufferOK, dump \in [Addr -> Value], NEW i \in Addr
  PROVE  Old(i) \in Value
<1>1. Len(fileBuffer) \in Nat /\ i \in Nat /\ 1 <= i /\ i <= Words /\ Words \in Nat
  BY LenProperties, Constants DEF BufferOK, Addr
<1>2. CASE i <= Len(fileBuffer)
  <2>1. fileBuffer[i] \in Value
    BY <1>1, <1>2, ElementOfSeq DEF BufferOK
  <2> QED  BY <1>2, <2>1 DEF Old
<1>3. CASE ~(i <= Len(fileBuffer))
  <2>1. i - Len(fileBuffer) \in Addr
    BY <1>1, <1>3 DEF Addr
  <2> QED  BY <1>3, <2>1 DEF Old
<1> QED  BY <1>2, <1>3

LEMMA ComparedType ==
  ASSUME BufferOK, dump \in [Addr -> Value]
  PROVE  \A i \in Addr : Compared[i] \in Record
<1>1. \A i \in Addr : Compared[i] = [addr |-> i, val |-> Old(i)]
  BY DEF Compared
<1>2. \A i \in Addr : Old(i) \in Value
  BY OldType
<1>3. ASSUME NEW i \in Addr, NEW v \in Value PROVE [addr |-> i, val |-> v] \in Record
  BY DEF Record
<1> QED  BY <1>1, <1>2, <1>3, Zenon

(* Each search, by what it goes through and what of it is kept.            *)
SearchOf(cand, kept, mode, by) ==
  /\ Search(Results(cand, kept), mode, by)
  /\ mode \in Modes \cup {Exact} /\ by \in Value
  /\ kept \subseteq Nat /\ IsFiniteSet(kept)
  /\ \A i \in kept : cand[i] \in Record

LEMMA FirstExactSearches ==
  ASSUME TypeInv, SearchInv, FirstExact
  PROVE  \E n \in ScanStops, by \in Value :
           SearchOf(Scanned, Matches(Scanned, n, Exact, by), Exact, by)
<1>1. PICK by \in Value, n \in ScanStops :
        Search(Results(Scanned, Matches(Scanned, n, Exact, by)), Exact, by)
  BY DEF FirstExact
<1> DEFINE K == Matches(Scanned, n, Exact, by)
<1>2. n \in Nat /\ 1 .. n \subseteq Addr
  BY StopsAre
<1>3. K \subseteq 1 .. n
  BY <1>2, MatchesAre
<1> HIDE DEF K
<1>4. K \subseteq Nat /\ IsFiniteSet(K)
  BY <1>2, <1>3, KeptFinite
<1>5. \A i \in K : Scanned[i] \in Record
  BY <1>2, <1>3, ScannedType
<1> QED  BY <1>1, <1>4, <1>5, Zenon DEF SearchOf, K

LEMMA FirstDiffSearches ==
  ASSUME TypeInv, SearchInv, FirstDiff
  PROVE  \E n \in ScanStops, mode \in Modes, by \in Value :
           /\ SearchOf(Compared, Matches(Compared, n, mode, by), mode, by)
           /\ fileBuffer' = LeftAfter(IF n = Words THEN n ELSE n + 1)
<1>1. PICK mode \in Modes, by \in Value, n \in ScanStops :
        /\ Search(Results(Compared, Matches(Compared, n, mode, by)), mode, by)
        /\ fileBuffer' = LeftAfter(IF n = Words THEN n ELSE n + 1)
  BY DEF FirstDiff
<1> DEFINE K == Matches(Compared, n, mode, by)
<1>2. n \in Nat /\ 1 .. n \subseteq Addr
  BY StopsAre
<1>3. K \subseteq 1 .. n
  BY <1>2, MatchesAre
<1> HIDE DEF K
<1>4. K \subseteq Nat /\ IsFiniteSet(K)
  BY <1>2, <1>3, KeptFinite
<1>5. dump \in [Addr -> Value] /\ BufferOK
  BY DEF FirstDiff, TypeInv, DataOK
<1>6. \A i \in K : Compared[i] \in Record
  BY <1>2, <1>3, <1>5, ComparedType
<1> QED  BY <1>1, <1>4, <1>6, Zenon DEF SearchOf, K

LEMMA NextSearches ==
  ASSUME TypeInv, SearchInv, NEW modes, modes \subseteq Modes \cup {Exact}, NextSearch(modes)
  PROVE  \E n \in FileStops(searchResultCounter), mode \in modes, by \in Value :
         \E other \in SUBSET Unknown(disk[searchNo].recs, n) :
           /\ n \in 0 .. Len(disk[searchNo].recs)
           /\ SearchOf(disk[searchNo].recs,
                       Matches(disk[searchNo].recs, n, mode, by) \cup other, mode, by)
<1> DEFINE cand == disk[searchNo].recs
<1>0. PICK mode \in modes, by \in Value, n \in FileStops(searchResultCounter) :
        \E other \in SUBSET Unknown(cand, n) :
          Search(Results(cand, Matches(cand, n, mode, by) \cup other), mode, by)
  BY DEF NextSearch
<1>1. PICK other \in SUBSET Unknown(cand, n) :
        Search(Results(cand, Matches(cand, n, mode, by) \cup other), mode, by)
  BY <1>0
<1> DEFINE K == Matches(cand, n, mode, by) \cup other
<1>2. searchNo \in Nat /\ searchNo > 0 /\ searchNo \in 1 .. searchNo
  BY DEF NextSearch, SearchInv, SessionInv
<1>3. disk[searchNo] \in File
  BY <1>2 DEF TypeInv, DiskInv
<1>4. cand \in Seq(Record) /\ Len(cand) \in Nat
  BY <1>3, LenProperties DEF File
<1>5. searchResultCounter = Len(cand)
  <2>1. Listing(disk[searchNo]).count = searchResultCounter
    BY <1>2 DEF SearchInv, ListedIsCurrent
  <2> QED  BY <1>3, <2>1, ListingType
<1> HIDE DEF cand
<1>6. n \in 0 .. Len(cand) /\ n \in Nat
  BY <1>4, <1>5 DEF FileStops
<1>7. K \subseteq 1 .. n
  BY <1>6, MatchesAre
<1> HIDE DEF K
<1>8. K \subseteq Nat /\ IsFiniteSet(K)
  BY <1>6, <1>7, KeptFinite
<1>9. \A i \in K : cand[i] \in Record
  BY <1>4, <1>6, <1>7
<1>10. mode \in Modes \cup {Exact}
  OBVIOUS
<1>11. SearchOf(cand, K, mode, by)
  BY <1>1, <1>8, <1>9, <1>10 DEF SearchOf, K
<1> QED  BY <1>6, <1>11 DEF cand, K

LEMMA SearchOfType ==
  ASSUME TypeInv, SearchInv, NEW cand, NEW kept, NEW mode, NEW by,
         SearchOf(cand, kept, mode, by), BufferOK'
  PROVE  TypeInv'
<1>1. mem \in [Addr -> Value]
  BY DEF TypeInv, DataOK
<1>2. Results(cand, kept) \in Seq(Record)
  BY <1>1, ResultsAre DEF SearchOf
<1> QED  BY <1>2, SearchType DEF SearchOf

(* The other steps leave the files, or remove some.                        *)
LEMMA FilesStay ==
  ASSUME DiskInv, searchNo' \in Nat, searchNo \in Nat, searchNo' <= searchNo, UNCHANGED disk
  PROVE  DiskInv'
<1>1. 1 .. searchNo' \subseteq 1 .. searchNo
  OBVIOUS
<1> QED  BY <1>1 DEF DiskInv, File, Whole, Size

LEMMA FilesGo ==
  ASSUME DiskInv, searchNo' = 0, \A n \in Number : disk'[n] \in {disk[n], Missing}
  PROVE  DiskInv'
<1>1. 1 .. searchNo' = {}
  OBVIOUS
<1>2. ASSUME NEW n \in Number, disk'[n] # Missing PROVE Whole(disk'[n])
  <2>1. disk'[n] = disk[n]
    BY <1>2
  <2> QED  BY <1>2, <2>1, Zenon DEF DiskInv
<1> QED  BY <1>1, <1>2, Zenon DEF DiskInv, Whole, Size

LEMMA NextTypeInv ==
  ASSUME TypeInv, SearchInv, [Next]_vars
  PROVE  TypeInv'
<1>0. /\ searchNo \in Nat /\ searchNo <= searchNo /\ type \in Types
      /\ disk \in [Number -> File \cup {Missing}] /\ ShownOK /\ BufferOK /\ DataOK /\ DiskInv
  <2>1. searchNo \in Nat
    BY DEF SearchInv, SessionInv
  <2>2. searchNo <= searchNo
    BY <2>1
  <2> QED  BY <2>1, <2>2, Zenon DEF TypeInv, ShownOK, DataOK
<1>a. ASSUME UNCHANGED <<mem, files, fileBuffer, searchNo, asked>>, ShownOK',
             extMenu' \in {"tab", "exact", "diff", "text"}
      PROVE  TypeInv'
  <2>1. DiskInv'
    BY <1>0, <1>a, FilesStay DEF files
  <2>2. BufferOK'
    BY <1>0, <1>a, Zenon DEF BufferOK
  <2>3. DataOK'
    BY <1>0, <1>a, Zenon DEF DataOK, files
  <2> QED  BY <1>a, <2>1, <2>2, <2>3 DEF TypeInv
<1>b. ASSUME UNCHANGED shown PROVE ShownOK'
  BY <1>0, <1>b, Zenon DEF ShownOK, shown
<1>1. CASE Page
  <2>1. CASE EnterExact \/ EnterDiff \/ EnterText \/ LeavePage
    <3>1. UNCHANGED <<mem, files, fileBuffer, searchNo, asked>> /\ UNCHANGED shown
      BY <2>1 DEF EnterExact, EnterDiff, EnterText, LeavePage, Enter
    <3>2. extMenu' \in {"tab", "exact", "diff", "text"}
      BY <2>1 DEF EnterExact, EnterDiff, EnterText, LeavePage, Enter
    <3> QED  BY <3>1, <3>2, <1>a, <1>b
  <2>2. CASE ChangeType
    <3>1. UNCHANGED <<mem, files, fileBuffer, searchNo, asked>> /\ extMenu' = extMenu
      BY <2>2 DEF ChangeType, session
    <3>2. ShownOK'
      BY <1>0, <2>2, Zenon DEF ChangeType, ShownOK
    <3>3. extMenu' \in {"tab", "exact", "diff", "text"}
      BY <1>0, <3>1 DEF DataOK
    <3> QED  BY <3>1, <3>2, <3>3, <1>a
  <2> QED  BY <1>1, <2>1, <2>2 DEF Page
<1>2. CASE Dump
  <2>1. ShownOK'
    BY <1>0, <1>2, Zenon DEF Dump, ShownOK
  <2>2. BufferOK'
    BY <1>0, <1>2, Zenon DEF Dump, BufferOK
  <2>3. DataOK'
    BY <1>0, <1>2, Zenon DEF Dump, DataOK
  <2>4. DiskInv'
    BY <1>0, <1>2, FilesStay DEF Dump
  <2> QED  BY <2>1, <2>2, <2>3, <2>4 DEF TypeInv
<1>3. CASE ResetSearch
  <2>1. ShownOK'
    BY <1>0, <1>3, NothingShown DEF ResetSearch, NoResults
  <2>2. BufferOK'
    BY <1>0, <1>3, Zenon DEF ResetSearch, BufferOK
  <2>3. \A n \in Number : disk'[n] \in {disk[n], Missing}
    BY <1>3 DEF ResetSearch, Removed
  <2>4. disk' \in [Number -> File \cup {Missing}]
    BY <1>0, <1>3 DEF ResetSearch, Removed
  <2>5. DataOK'
    <3>1. mem' = mem /\ dump' = Missing /\ asked' = Missing /\ extMenu' = extMenu
      BY <1>3 DEF ResetSearch
    <3> QED  BY <1>0, <2>4, <3>1 DEF DataOK
  <2>6. searchNo' = 0
    BY <1>3 DEF ResetSearch
  <2>7. DiskInv'
    BY <1>0, <2>3, <2>6, FilesGo
  <2> QED  BY <2>1, <2>2, <2>5, <2>7 DEF TypeInv
<1>4. CASE FirstExact
  <2>1. BufferOK'
    BY <1>0, <1>4, Zenon DEF FirstExact, BufferOK
  <2>2. PICK n \in ScanStops, by \in Value :
          SearchOf(Scanned, Matches(Scanned, n, Exact, by), Exact, by)
    BY <1>4, FirstExactSearches
  <2> QED  BY <2>1, <2>2, SearchOfType
<1>5. CASE FirstDiff
  <2>1. PICK n \in ScanStops, mode \in Modes, by \in Value :
          /\ SearchOf(Compared, Matches(Compared, n, mode, by), mode, by)
          /\ fileBuffer' = LeftAfter(IF n = Words THEN n ELSE n + 1)
    BY <1>5, FirstDiffSearches
  <2>2. dump \in [Addr -> Value]
    BY <1>0, <1>5 DEF FirstDiff, DataOK
  <2>3. BufferOK'
    <3>1. fileBuffer' \in Seq(Value) /\ Len(fileBuffer') < Chunk
      BY <1>0, <2>1, <2>2, LeftType
    <3> QED  BY <3>1 DEF BufferOK, Value
  <2> QED  BY <2>1, <2>3, SearchOfType
<1>6. CASE NextExact \/ NextDiff
  <2>1. PICK modes : modes \subseteq Modes \cup {Exact} /\ NextSearch(modes)
    BY <1>6 DEF NextExact, NextDiff
  <2>2. BufferOK'
    BY <1>0, <2>1, Zenon DEF NextSearch, BufferOK
  <2>3. PICK n \in FileStops(searchResultCounter), mode \in modes, by \in Value :
        \E other \in SUBSET Unknown(disk[searchNo].recs, n) :
          SearchOf(disk[searchNo].recs,
                   Matches(disk[searchNo].recs, n, mode, by) \cup other, mode, by)
    BY <2>1, NextSearches
  <2> QED  BY <2>2, <2>3, SearchOfType
<1>7. CASE FirstDiffFails
  <2>1. PICK mode \in Modes, by \in Value : asked' = [mode |-> mode, by |-> by]
    BY <1>7 DEF FirstDiffFails
  <2>2. asked' \in [mode : Modes \cup {Exact}, by : Value]
    BY <2>1
  <2>3. ShownOK'
    BY <1>0, <1>7, ReloadType DEF FirstDiffFails
  <2>4. /\ UNCHANGED <<mem, dump, disk, fileBuffer, searchNo, extMenu>>
    BY <1>7 DEF FirstDiffFails, files
  <2>5. DataOK'
    BY <1>0, <2>2, <2>4, Zenon DEF DataOK
  <2>6. BufferOK'
    BY <1>0, <2>4, Zenon DEF BufferOK
  <2>7. DiskInv'
    BY <1>0, <2>4, FilesStay
  <2> QED  BY <2>3, <2>5, <2>6, <2>7 DEF TypeInv
<1>8. CASE TextSearch
  <2>1. PICK S \in SUBSET Addr :
          /\ Cardinality(S) <= searchResultMax
          /\ searchAddress' = Ascending(S) /\ searchResultCounter' = Cardinality(S)
    BY <1>8 DEF TextSearch
  <2>2. S \subseteq Nat /\ IsFiniteSet(S)
    BY Constants, KeptFinite DEF Addr
  <2>3. Cardinality(S) \in Nat /\ Ascending(S) \in [1 .. Cardinality(S) -> S]
    BY <2>2, AscendingType
  <2>4. Ascending(S) \in Seq(S) /\ Len(Ascending(S)) = Cardinality(S)
    BY <2>3
  <2>5. Ascending(S) \in Seq(Addr \cup {Garbage})
    <3>1. S \subseteq Addr \cup {Garbage}
      OBVIOUS
    <3> QED  BY <2>4, <3>1, SeqMonotonic
  <2>6. type' = type /\ UNCHANGED <<mem, files, fileBuffer, searchNo, asked>> /\ extMenu' = extMenu
    BY <1>8 DEF TextSearch, session
  <2>7. ShownOK'
    BY <1>0, <2>1, <2>3, <2>4, <2>5, <2>6, Zenon DEF ShownOK
  <2>8. extMenu' \in {"tab", "exact", "diff", "text"}
    BY <1>0, <2>6 DEF DataOK
  <2> QED  BY <2>6, <2>7, <2>8, <1>a
<1>9. CASE Undo
  <2>1. searchNo > 0 /\ searchNo' = searchNo - 1 /\ Reload(searchNo - 1, disk)
    BY <1>9 DEF Undo, UndoneTo
  <2>2. searchNo - 1 \in Nat /\ (searchNo - 1 # 0 => searchNo - 1 \in 1 .. searchNo)
        /\ searchNo' <= searchNo
    BY <1>0, <2>1
  <2>3. searchNo - 1 # 0 => disk[searchNo - 1] \in File
    BY <1>0, <2>2, Zenon DEF DiskInv
  <2>4. ShownOK'
    BY <1>0, <2>1, <2>2, <2>3, ReloadType
  <2>5. UNCHANGED <<mem, dump, disk, fileBuffer, asked, extMenu>>
    BY <1>9 DEF Undo, files
  <2>6. DataOK'
    BY <1>0, <2>5, Zenon DEF DataOK
  <2>7. BufferOK'
    BY <1>0, <2>5, Zenon DEF BufferOK
  <2>8. DiskInv'
    BY <1>0, <2>1, <2>2, <2>5, FilesStay
  <2> QED  BY <2>4, <2>6, <2>7, <2>8 DEF TypeInv
<1>10. CASE OtherPress
  <2>1. searchNo # 0 => searchNo \in 1 .. searchNo
    BY <1>0
  <2>2. searchNo # 0 => disk[searchNo] \in File
    BY <1>0, <2>1, Zenon DEF DiskInv
  <2>3. ShownOK'
    BY <1>0, <1>10, <2>2, ReloadType DEF OtherPress
  <2>4. UNCHANGED <<mem, files, fileBuffer, searchNo, asked>> /\ extMenu' = extMenu
    BY <1>10 DEF OtherPress, session
  <2>5. extMenu' \in {"tab", "exact", "diff", "text"}
    BY <1>0, <2>4 DEF DataOK
  <2> QED  BY <2>3, <2>4, <2>5, <1>a
<1>11. CASE Save
  <2>1. searchNo' = 0 /\ asked' = Missing /\ type' = type /\ NoResults
        /\ UNCHANGED <<mem, dump, disk, fileBuffer, extMenu>>
    BY <1>11 DEF Save, files
  <2>2. ShownOK'
    BY <1>0, <2>1, NothingShown DEF NoResults
  <2>3. DataOK'
    BY <1>0, <2>1 DEF DataOK
  <2>4. BufferOK'
    BY <1>0, <2>1, Zenon DEF BufferOK
  <2>5. DiskInv'
    BY <1>0, <2>1, FilesGo
  <2> QED  BY <2>2, <2>3, <2>4, <2>5 DEF TypeInv
<1>12. CASE Restart
  <2>1. searchNo' = 0 /\ asked' = Missing /\ type' = 4 /\ NoResults /\ fileBuffer' = <<>>
        /\ UNCHANGED <<mem, dump, extMenu>>
        /\ disk' = [n \in Number |-> IF n <= Swept THEN Missing ELSE disk[n]]
    BY <1>12 DEF Restart
  <2>2. ShownOK'
    BY <2>1, NothingShown, Constants DEF NoResults
  <2>3. disk' \in [Number -> File \cup {Missing}] /\ \A n \in Number : disk'[n] \in {disk[n], Missing}
    BY <1>0, <2>1
  <2>4. DataOK'
    BY <1>0, <2>1, <2>3 DEF DataOK
  <2>5. BufferOK'
    BY <2>1, EmptySeq, Constants DEF BufferOK
  <2>6. DiskInv'
    BY <1>0, <2>1, <2>3, FilesGo
  <2> QED  BY <2>2, <2>4, <2>5, <2>6 DEF TypeInv
<1>13. CASE GameWrite
  <2>1. mem' \in [Addr -> Value]
    BY <1>0, <1>13 DEF GameWrite, DataOK
  <2>2. UNCHANGED <<dump, disk, fileBuffer, searchNo, asked, extMenu>> /\ UNCHANGED shown
    BY <1>13 DEF GameWrite, files, session
  <2>3. DataOK'
    BY <1>0, <2>1, <2>2, Zenon DEF DataOK
  <2>4. BufferOK'
    BY <1>0, <2>2, Zenon DEF BufferOK
  <2>5. DiskInv'
    BY <1>0, <2>2, FilesStay
  <2> QED  BY <2>2, <2>3, <2>4, <2>5, <1>b DEF TypeInv
<1>14. CASE UNCHANGED vars
  <2>1. UNCHANGED <<mem, files, fileBuffer, searchNo, asked>> /\ UNCHANGED shown /\ extMenu' = extMenu
    BY <1>14 DEF vars, session
  <2>2. extMenu' \in {"tab", "exact", "diff", "text"}
    BY <1>0, <2>1 DEF DataOK
  <2> QED  BY <2>1, <2>2, <1>a, <1>b
<1> QED  BY <1>1, <1>2, <1>3, <1>4, <1>5, <1>6, <1>7, <1>8, <1>9, <1>10, <1>11, <1>12,
            <1>13, <1>14, Zenon DEF Next, Searches

LEMMA TypeInvHolds == Spec => [](TypeInv /\ SearchInv)
<1> QED  BY InitTypeInv, NextTypeInv, InitSearchInv, NextSearchInv, PTL DEF Spec

(* The types: of a file of any earlier search whatever is read is a record *)
(* of it, and fileBuffer never keeps a whole chunk.                        *)
THEOREM TypeCorrect == Spec => []TypeOK
<1> QED  BY TypeInvHolds, TypeInvIsType, PTL

-----------------------------------------------------------------------------
(* What a search lists is what it was asked for, where it writes a file    *)
(* that was not there.                                                     *)
LEMMA SearchFinds ==
  ASSUME TypeInv, SearchInv, NEW cand, NEW kept, NEW mode, NEW by,
         SearchOf(cand, kept, mode, by), disk[searchNo'] = Missing,
         \A i \in kept : /\ cand[i].addr # Garbage
                         /\ Keeps(mode, cand[i].val, mem[cand[i].addr], by)
                         /\ cand[i] \in Before(searchNo')
  PROVE  FoundAskedFor
<1> DEFINE recs == Results(cand, kept)
           no == searchNo + 1
<1>1. mem \in [Addr -> Value] /\ type \in Types
  BY DEF TypeInv, DataOK, ShownOK
<1>2. /\ recs \in Seq(Record)
      /\ \A j \in DOMAIN recs : \E i \in kept : recs[j] = Current(cand[i])
  BY <1>1, ResultsAre DEF SearchOf
<1> HIDE DEF recs
<1>3. searchNo' = no /\ asked' = [mode |-> mode, by |-> by]
      /\ disk' = [disk EXCEPT ![no] = Written(disk[no], type, recs)]
  BY DEF SearchOf, Search, recs
<1>4. no \in Number /\ DOMAIN disk = Number
  <2>1. searchNo \in Nat /\ searchMax \in Nat /\ searchNo <= searchMax /\ MaxSearches \in Nat
    BY Constants DEF SearchInv, SessionInv
  <2>2. searchMax < MaxSearches
    BY DEF SearchOf, Search
  <2> QED  BY <2>1, <2>2 DEF Number, SearchInv, SessionInv
<1>5. disk[no] = Missing
  BY <1>3
<1>6. Written(disk[no], type, recs).recs = recs
  BY <1>1, <1>2, <1>5, WrittenType
<1>7. disk'[searchNo'].recs = recs
  BY <1>3, <1>4, <1>6
<1>8. ASSUME NEW j \in DOMAIN recs PROVE IsAskedFor(recs[j])
  <2>1. PICK i \in kept : recs[j] = Current(cand[i])
    BY <1>2
  <2> DEFINE old == cand[i]
             r == recs[j]
  <2>2. old \in Record /\ old.addr # Garbage /\ old.addr \in Addr
    BY DEF SearchOf, Record
  <2>3. r = [old EXCEPT !.val = mem[old.addr]]
    BY <2>1, <2>2 DEF Current
  <2>4. r.addr = old.addr /\ r.val = mem[old.addr]
    BY <2>2, <2>3 DEF Record
  <2>5. Keeps(mode, old.val, mem[old.addr], by) /\ old \in Before(searchNo')
    OBVIOUS
  <2>6. asked'.mode = mode /\ asked'.by = by
    BY <1>3
  <2> HIDE DEF old, r
  <2>7. IsAskedFor(r)
    BY <2>2, <2>4, <2>5, <2>6, Zenon DEF IsAskedFor
  <2> QED  BY <2>7 DEF r
<1> QED  BY <1>7, <1>8 DEF FoundAskedFor, Range

Fresh ==
  /\ searchNo' > searchNo /\ disk[searchNo'] = Missing
  /\ searchNo > 0 => \A r \in Range(disk[searchNo].recs) : r.addr # Garbage
  /\ searchNo = 0 /\ asked'.mode # Exact => fileBuffer = <<>>

LEMMA FirstExactFinds ==
  ASSUME TypeInv, SearchInv, FirstExact, Fresh PROVE FoundAskedFor
<1>1. PICK n \in ScanStops, by \in Value :
        SearchOf(Scanned, Matches(Scanned, n, Exact, by), Exact, by)
  BY FirstExactSearches
<1> DEFINE K == Matches(Scanned, n, Exact, by)
<1>2. n \in Nat /\ 1 .. n \subseteq Addr
  BY StopsAre
<1>3. K \subseteq 1 .. n
      /\ \A i \in K : /\ Scanned[i].addr # Garbage
                      /\ Keeps(Exact, Scanned[i].val, mem[Scanned[i].addr], by)
  BY <1>2, MatchesAre
<1>4. searchNo = 0 /\ searchNo' = 1 /\ asked' = [mode |-> Exact, by |-> by]
  BY <1>1 DEF FirstExact, SearchOf, Search
<1>5. Before(searchNo') = [addr : Addr, val : Value]
  <2>1. ~(searchNo' > 1) /\ asked'.mode = Exact
    BY <1>4
  <2> QED  BY <2>1, Zenon DEF Before
<1> HIDE DEF K
<1>6. \A i \in K : Scanned[i] \in Before(searchNo')
  <2>1. ASSUME NEW i \in Addr PROVE Scanned[i] \in [addr : Addr, val : Value]
    BY Constants DEF Scanned
  <2> QED  BY <2>1, <1>2, <1>3, <1>5
<1> QED  BY <1>1, <1>3, <1>6, SearchFinds DEF K, Fresh

LEMMA FirstDiffFinds ==
  ASSUME TypeInv, SearchInv, FirstDiff, Fresh PROVE FoundAskedFor
<1>1. PICK n \in ScanStops, mode \in Modes, by \in Value :
        SearchOf(Compared, Matches(Compared, n, mode, by), mode, by)
  BY FirstDiffSearches
<1> DEFINE K == Matches(Compared, n, mode, by)
<1>2. n \in Nat /\ 1 .. n \subseteq Addr
  BY StopsAre
<1>3. K \subseteq 1 .. n
      /\ \A i \in K : /\ Compared[i].addr # Garbage
                      /\ Keeps(mode, Compared[i].val, mem[Compared[i].addr], by)
  BY <1>2, MatchesAre
<1>4. searchNo = 0 /\ searchNo' = 1 /\ asked'.mode = mode
  BY <1>1 DEF FirstDiff, SearchOf, Search
<1>5. mode # Exact
  BY Constants DEF Exact
<1>6. fileBuffer = <<>> /\ Before(searchNo') = {[addr |-> i, val |-> dump[i]] : i \in Addr}
  BY <1>4, <1>5 DEF Before, Fresh
<1> HIDE DEF K
<1>7. ASSUME NEW i \in Addr PROVE Compared[i] = [addr |-> i, val |-> dump[i]]
  <2>1. i \in Nat /\ i >= 1 /\ Len(fileBuffer) = 0
    BY <1>6, Constants DEF Addr
  <2>2. Old(i) = dump[i]
    BY <2>1 DEF Old
  <2> QED  BY <2>2 DEF Compared
<1>8. \A i \in K : Compared[i] \in Before(searchNo')
  BY <1>2, <1>3, <1>6, <1>7
<1> QED  BY <1>1, <1>3, <1>8, SearchFinds DEF K, Fresh

LEMMA NextFinds ==
  ASSUME TypeInv, SearchInv, NextExact \/ NextDiff, Fresh PROVE FoundAskedFor
<1> DEFINE cand == disk[searchNo].recs
<1>1. PICK modes : modes \subseteq Modes \cup {Exact} /\ NextSearch(modes)
  BY DEF NextExact, NextDiff
<1>a. PICK n \in FileStops(searchResultCounter), mode \in modes, by \in Value :
        \E other \in SUBSET Unknown(cand, n) :
          /\ n \in 0 .. Len(cand)
          /\ SearchOf(cand, Matches(cand, n, mode, by) \cup other, mode, by)
  BY <1>1, NextSearches
<1>2. PICK other \in SUBSET Unknown(cand, n) :
        /\ n \in 0 .. Len(cand)
        /\ SearchOf(cand, Matches(cand, n, mode, by) \cup other, mode, by)
  BY <1>a
<1> DEFINE K == Matches(cand, n, mode, by) \cup other
<1>3. searchNo \in Nat /\ searchNo > 0 /\ searchNo \in 1 .. searchNo /\ searchNo' = searchNo + 1
  BY <1>1, <1>2 DEF NextSearch, SearchInv, SessionInv, SearchOf, Search
<1>4. disk[searchNo] \in File
  BY <1>3 DEF TypeInv, DiskInv
<1>5. cand \in Seq(Record) /\ Len(cand) \in Nat /\ DOMAIN cand = 1 .. Len(cand)
  BY <1>4, LenProperties DEF File
<1>6. \A i \in DOMAIN cand : cand[i] \in Range(cand) /\ cand[i].addr # Garbage
  BY <1>3 DEF Fresh, Range
<1>7. Before(searchNo') = Range(cand)
  BY <1>3 DEF Before
<1> HIDE DEF cand
<1>8. n \in Nat /\ 1 .. n \subseteq DOMAIN cand
  BY <1>2, <1>5
<1>9. other = {}
  <2>1. Unknown(cand, n) = {}
    BY <1>6, <1>8 DEF Unknown
  <2> QED  BY <2>1
<1>10. K \subseteq 1 .. n
       /\ \A i \in K : Keeps(mode, cand[i].val, mem[cand[i].addr], by)
  BY <1>8, <1>9, MatchesAre
<1> HIDE DEF K
<1>11. \A i \in K : cand[i].addr # Garbage /\ cand[i] \in Before(searchNo')
  BY <1>6, <1>7, <1>8, <1>10
<1> QED  BY <1>2, <1>10, <1>11, SearchFinds DEF K, Fresh

(* A search without a file of an earlier one under its own, with records   *)
(* of its own to go through and nothing left in fileBuffer lists only      *)
(* addresses that held the value asked for or changed as asked, however    *)
(* searches are aborted, undone, saved over and the plugin restarted.      *)
THEOREM FreshSearchesFind == Spec => FreshResultsHold
<1>1. ASSUME TypeInv, SearchInv, [Next]_vars, Fresh PROVE FoundAskedFor
  <2>1. ~(searchNo > searchNo) /\ ~(searchNo - 1 > searchNo) /\ ~(0 > searchNo)
    <3>1. searchNo \in Nat
      BY <1>1 DEF SearchInv, SessionInv
    <3> QED  BY <3>1
  <2>2. searchNo' # searchNo /\ searchNo' # searchNo - 1 /\ searchNo' # 0
    BY <1>1, <2>1 DEF Fresh
  <2>3. FirstExact \/ FirstDiff \/ NextExact \/ NextDiff
    BY <1>1, <2>2, Zenon DEF Next, Page, Searches, EnterExact, EnterDiff, EnterText, Enter, LeavePage,
       ChangeType, Dump, ResetSearch, FirstDiffFails, TextSearch, Undo, OtherPress, Save,
       Restart, GameWrite, session, vars
  <2> QED  BY <1>1, <2>3, FirstExactFinds, FirstDiffFinds, NextFinds
<1>2. ASSUME TypeInv, SearchInv, [Next]_vars PROVE [Fresh => FoundAskedFor]_vars
  BY <1>1, <1>2
<1> QED  BY <1>2, TypeInvHolds, PTL DEF Spec, FreshResultsHold, Fresh
=============================================================================
