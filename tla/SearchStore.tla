---------------------------- MODULE SearchStore ----------------------------
(***************************************************************************)
(* The searches of MKIJIRO (src/objects/crt0_prx.c): the user looks for    *)
(* the words of the game that hold a value ("Find Exact Value"), or whose  *)
(* value changed in a given way since a dump or since the last search      *)
(* ("Find Unknown Value"), narrows the results by further searches and     *)
(* undoes them.  The n-th search's results are kept in the file            *)
(* ms0:/search<n>.dat, the dump in ms0:/search.ram; the dump outlives the  *)
(* plugin, and so do the files it does not remove when it starts.  A       *)
(* search runs with the game suspended and is one step here.               *)
(*                                                                         *)
(* A file is a type byte and records of an address and a value of that     *)
(* type's size.  Files are opened without truncation: writing fewer bytes  *)
(* than a file has leaves the rest in it.                                  *)
(***************************************************************************)
EXTENDS Integers, FiniteSets, SequencesExt

CONSTANTS
  Words,        \* the words searched are 1 .. Words
  Values,       \* their values are 0 .. Values - 1
  Types,        \* sizes of a value: 1, 2 or 4 bytes
  Modes,        \* the comparisons an unknown search may use, of 0 .. 5
  Chunk,        \* words fileBufferRead takes at once from the dump (1024 bytes)
  Every,        \* records between two looks at the buttons (64)
  searchResultCounterMax, \* records a file takes
  searchResultMax,        \* addresses shown
  Swept,        \* the files removed when the plugin starts are 1 .. Swept (14)
  MaxSearches,  \* bound: searches since the files were last removed
  Missing,      \* no such file
  Uses          \* what this instance contains beyond the searches

(* "undo": searches are undone; "save": the cheats are saved; "restart":   *)
(* the plugin starts again with the memory stick as it is.                 *)
AllUses == {"undo", "save", "restart"}

Addr == 1 .. Words
Value == 0 .. Values - 1
Garbage == 0    \* an address made of other bytes than a record's
Exact == 6

ASSUME SizeAssumption ==
  /\ Words \in Nat \ {0} /\ Values \in Nat \ {0}
  /\ Types \subseteq {1, 2, 4} /\ 4 \in Types
  /\ Modes \subseteq 0 .. 5
  /\ Chunk \in Nat \ {0} /\ Words % Chunk = 0
  /\ Every \in Nat \ {0}
ASSUME LimitAssumption ==
  /\ searchResultCounterMax \in Nat /\ searchResultMax \in Nat
  /\ Swept \in Nat /\ MaxSearches \in Nat
  /\ Uses \subseteq AllUses

Number == 1 .. MaxSearches
Record == [addr : Addr \cup {Garbage}, val : Value]

VARIABLES
  mem,          \* the words searched
  dump,         \* ms0:/search.ram
  fileBuffer,   \* what fileBufferRead has taken of the dump and not yet given out
  disk,         \* ms0:/search<n>.dat
  searchNo,     \* the search whose results are current, 0 for none
  searchMax,    \* the files "reset search" removes
  cheatSearch,  \* is a search under way?
  type,         \* the size the next search compares
  searchResultCounter,
  searchAddress,\* the results shown
  asked,        \* the mode and the value of the newest search in the history, if any
  extMenu,      \* the page of the Searcher tab
  found         \* history: what was shown after each search since the start

session == <<searchNo, searchMax, cheatSearch>>
shown == <<type, searchResultCounter, searchAddress>>
files == <<dump, disk>>
vars == <<mem, files, fileBuffer, session, shown, asked, extMenu, found>>

-----------------------------------------------------------------------------
(* Files.                                                                  *)
Size(t) == 4 + t
Garbled == [addr |-> Garbage, val |-> 0]
Addresses(recs) == [i \in 1 .. Len(recs) |-> recs[i].addr]
Longer(a, b) == IF a > b THEN a ELSE b
Shorter(a, b) == IF a < b THEN a ELSE b

(* Records written over a file: what the file has beyond them stays, as    *)
(* records if it was written with the same size.                           *)
Written(old, t, recs) ==
  LET has == IF old = Missing THEN 1 ELSE old.bytes
      bytes == Longer(has, 1 + Size(t) * Len(recs))
      Rest(i) == IF old # Missing /\ old.type = t THEN old.recs[i] ELSE Garbled
  IN [type |-> t, bytes |-> bytes,
      recs |-> [i \in 1 .. (bytes - 1) \div Size(t) |->
                 IF i <= Len(recs) THEN recs[i] ELSE Rest(i)]]

(* "Load the file again, get the sample numbers".                          *)
Listing(f) ==
  [count |-> Len(f.recs),
   first |-> SubSeq(Addresses(f.recs), 1, Shorter(Len(f.recs), searchResultMax))]

Reload(no, d) ==
  IF no = 0
    THEN searchResultCounter' = 0 /\ searchAddress' = <<>> /\ UNCHANGED type
    ELSE /\ type' = d[no].type
         /\ searchResultCounter' = Listing(d[no]).count
         /\ searchAddress' = Listing(d[no]).first

-----------------------------------------------------------------------------
(* Comparing.  The results of a search are the records of those of its     *)
(* candidates that it keeps, up to the file's limit.                       *)
Keeps(mode, old, new, by) ==
  CASE mode = 0 -> old = new
    [] mode = 1 -> old # new
    [] mode = 2 -> old < new
    [] mode = 3 -> old > new
    [] mode = 4 -> (old + by) % Values = new
    [] mode = 5 -> (old - by) % Values = new
    [] mode = Exact -> new = by

Ascending(S) ==
  [i \in 1 .. Cardinality(S) |-> CHOOSE x \in S : Cardinality({y \in S : y < x}) = i - 1]

\* Fault for the checks: the value compared with is stored.
ResultsStale(cand, kept) ==
  LET s == Ascending(kept)
  IN [i \in 1 .. Shorter(Len(s), searchResultCounterMax) |-> cand[s[i]]]
Results(cand, kept) ==
  LET s == Ascending(kept)
      Current(r) == IF r.addr = Garbage THEN r ELSE [r EXCEPT !.val = mem[r.addr]]
  IN [i \in 1 .. Shorter(Len(s), searchResultCounterMax) |-> Current(cand[s[i]])]

(* Those kept of the first n candidates; what a record of other bytes      *)
(* compares as is anything.                                                *)
Matches(cand, n, mode, by) ==
  {i \in 1 .. n : cand[i].addr # Garbage
                    /\ Keeps(mode, cand[i].val, mem[cand[i].addr], by)}
Unknown(cand, n) == {i \in 1 .. n : cand[i].addr = Garbage}

(* Where the user may abort: the scan of the memory looks at the buttons   *)
(* at the beginnings of some chunks, that of a file when a multiple of     *)
(* Every records is left.                                                  *)
ScanStops == {k \in 0 .. Words : k % Chunk = 0}
FileStops(n) == {k \in 0 .. n : (n - k) % Every = 0}

(* What the words are compared with in the first unknown search: first     *)
(* what is left in fileBuffer, then the dump from the start of the range.  *)
Old(i) == IF i <= Len(fileBuffer) THEN fileBuffer[i] ELSE dump[i - Len(fileBuffer)]

(* fileBuffer after n words: the rest of the chunk the last one came from. *)
\* Fault for the checks: the last word taken stays in it.
LeftAfterWithLast(n) ==
  LET q == n - Len(fileBuffer)
      end == Chunk * ((q + Chunk - 1) \div Chunk)
  IN IF q <= 0 THEN SubSeq(fileBuffer, n + 1, Len(fileBuffer))
     ELSE SubSeq(dump, q, end)
LeftAfter(n) ==
  LET q == n - Len(fileBuffer)
      end == Chunk * ((q + Chunk - 1) \div Chunk)
  IN IF q <= 0 THEN SubSeq(fileBuffer, n + 1, Len(fileBuffer))
     ELSE SubSeq(dump, q + 1, end)

-----------------------------------------------------------------------------
(* The dump of an earlier game may still be there.                         *)
Init ==
  /\ mem \in [Addr -> Value]
  /\ dump \in [Addr -> Value] \cup {Missing} /\ disk = [n \in Number |-> Missing]
  /\ fileBuffer = <<>>
  /\ searchNo = 0 /\ searchMax = 0 /\ cheatSearch = FALSE
  /\ type = 4 /\ searchResultCounter = 0 /\ searchAddress = <<>>
  /\ asked = Missing
  /\ extMenu = "tab"
  /\ found = [n \in Number |-> Missing]

(* The Searcher tab.  The text search is offered while no search is under  *)
(* way, the unknown search while one is.                                   *)
Enter(page, search) ==
  /\ extMenu = "tab" /\ extMenu' = page
  /\ cheatSearch' = search
  /\ UNCHANGED <<mem, files, fileBuffer, searchNo, searchMax, shown, asked, found>>
EnterExact == Enter("exact", TRUE)
EnterDiff == cheatSearch /\ Enter("diff", cheatSearch)
EnterText == ~cheatSearch /\ Enter("text", cheatSearch)

(* "Find Unknown Value" begins with a dump of the memory.                  *)
Dump ==
  /\ extMenu = "tab" /\ ~cheatSearch
  /\ dump' = mem
  /\ type' \in Types
  /\ cheatSearch' = TRUE
  /\ UNCHANGED <<mem, disk, fileBuffer, searchNo, searchMax, searchResultCounter,
                 searchAddress, asked, extMenu, found>>

(* The end of a session shows no results.                                  *)
\* Fault for the checks: what was found stays.
ResultsStay == UNCHANGED <<searchResultCounter, searchAddress>>
NoResults == searchResultCounter' = 0 /\ searchAddress' = <<>>

(* "Reset search" removes the dump and the files up to searchMax.          *)
Removed == [n \in Number |-> IF n <= searchMax THEN Missing ELSE disk[n]]
ResetSearch ==
  /\ extMenu = "tab"
  /\ dump' = Missing /\ disk' = Removed
  /\ searchNo' = 0 /\ searchMax' = 0 /\ cheatSearch' = FALSE
  /\ NoResults
  /\ asked' = Missing
  /\ found' = [n \in Number |-> IF disk'[n] = Missing THEN Missing ELSE found[n]]
  /\ UNCHANGED <<mem, fileBuffer, type, extMenu>>

(* Leaving a page.  Without a search made, none is under way; leaving the  *)
(* text search does not look at that.                                      *)
\* Fault for the checks: leaving ends every search.
StillSearchingNever == FALSE
StillSearching == cheatSearch /\ (extMenu = "text" \/ searchNo # 0)

LeavePage ==
  /\ extMenu # "tab"
  /\ cheatSearch' = StillSearching
  /\ extMenu' = "tab"
  /\ UNCHANGED <<mem, files, fileBuffer, searchNo, searchMax, shown, asked, found>>

(* SQUARE changes the type, until the first search.                        *)
ChangeType ==
  /\ extMenu = "exact" /\ searchNo = 0
  /\ type' \in Types \ {type}
  /\ UNCHANGED <<mem, files, fileBuffer, session, searchResultCounter,
                 searchAddress, asked, extMenu, found>>

-----------------------------------------------------------------------------
(* A search that has its results: they become the file of its number,      *)
(* which is then loaded again.                                             *)
Search(recs, mode, by) ==
  /\ searchMax < MaxSearches
  /\ searchNo' = searchNo + 1 /\ searchMax' = searchMax + 1
  /\ disk' = [disk EXCEPT ![searchNo'] = Written(disk[searchNo'], type, recs)]
  /\ asked' = [mode |-> mode, by |-> by]
  /\ Reload(searchNo', disk')
  /\ found' = [found EXCEPT ![searchNo'] = Listing(disk'[searchNo'])]
  /\ UNCHANGED <<mem, dump, cheatSearch, extMenu>>

(* The first exact search scans the memory, the first unknown search the   *)
(* memory and the dump.  Aborting the latter, a word more than was         *)
(* compared has been taken from fileBuffer.                                *)
Scanned == [i \in Addr |-> [addr |-> i, val |-> 0]]
FirstExact ==
  /\ extMenu = "exact" /\ searchNo = 0
  /\ \E by \in Value, n \in ScanStops :
       Search(Results(Scanned, Matches(Scanned, n, Exact, by)), Exact, by)
  /\ UNCHANGED fileBuffer

Compared == [i \in Addr |-> [addr |-> i, val |-> Old(i)]]
FirstDiff ==
  /\ extMenu = "diff" /\ searchNo = 0 /\ dump # Missing
  /\ \E mode \in Modes, by \in Value, n \in ScanStops :
       /\ Search(Results(Compared, Matches(Compared, n, mode, by)), mode, by)
       /\ fileBuffer' = LeftAfter(IF n = Words THEN n ELSE n + 1)

(* Without a dump the first unknown search is undone, but for searchMax.   *)
FirstDiffFails ==
  /\ extMenu = "diff" /\ searchNo = 0 /\ dump = Missing
  /\ searchMax < MaxSearches
  /\ searchMax' = searchMax + 1
  /\ \E mode \in Modes, by \in Value : asked' = [mode |-> mode, by |-> by]
  /\ Reload(0, disk)
  /\ UNCHANGED <<mem, files, fileBuffer, searchNo, cheatSearch, extMenu, found>>

(* A further search goes through the file of the one before, as many       *)
(* records as were counted when it was loaded.                             *)
NextSearch(modes) ==
  /\ searchNo > 0
  /\ LET cand == disk[searchNo].recs
     IN \E mode \in modes, by \in Value, n \in FileStops(searchResultCounter) :
          \E other \in SUBSET Unknown(cand, n) :
            Search(Results(cand, Matches(cand, n, mode, by) \cup other), mode, by)
  /\ UNCHANGED fileBuffer
NextExact == extMenu = "exact" /\ NextSearch({Exact})
NextDiff == extMenu = "diff" /\ NextSearch(Modes)

(* "Undo Search": the files stay, to be removed some time; the one before  *)
(* is loaded.                                                              *)
\* Fault for the checks: the file is no longer counted.
MaxAfterUndoLess == searchMax - 1
MaxAfterUndo == searchMax
\* Fault for the checks: the current file is loaded again.
UndoneToSame == searchNo
UndoneTo == searchNo - 1
Undo ==
  /\ "undo" \in Uses
  /\ extMenu \in {"exact", "diff"} /\ searchNo > 0
  /\ searchNo' = searchNo - 1
  /\ searchMax' = MaxAfterUndo
  /\ Reload(UndoneTo, disk)
  /\ UNCHANGED <<mem, files, fileBuffer, cheatSearch, asked, extMenu, found>>

(* Any other press of the pages' button, such as the one that makes a      *)
(* result a cheat, loads the results again too.                            *)
OtherPress ==
  /\ extMenu \in {"exact", "diff"}
  /\ Reload(searchNo, disk)
  /\ UNCHANGED <<mem, files, fileBuffer, session, asked, extMenu, found>>

(* The text search keeps its results in memory only; which words hold the  *)
(* text is left open.                                                      *)
TextSearch ==
  /\ extMenu = "text"
  /\ \E S \in SUBSET Addr :
       /\ Cardinality(S) <= searchResultMax
       /\ searchAddress' = Ascending(S)
       /\ searchResultCounter' = Cardinality(S)
  /\ UNCHANGED <<mem, files, fileBuffer, session, type, asked, extMenu, found>>

-----------------------------------------------------------------------------
(* cheatSave ends the search; neither the files nor searchMax is touched.  *)
Save ==
  /\ "save" \in Uses /\ extMenu = "tab"
  /\ searchNo' = 0 /\ cheatSearch' = FALSE
  /\ NoResults
  /\ asked' = Missing
  /\ UNCHANGED <<mem, files, fileBuffer, searchMax, type, extMenu, found>>

(* The plugin starts again, and removes the first files before all else.   *)
Restart ==
  /\ "restart" \in Uses /\ extMenu = "tab"
  /\ disk' = [n \in Number |-> IF n <= Swept THEN Missing ELSE disk[n]]
  /\ searchNo' = 0 /\ searchMax' = 0 /\ cheatSearch' = FALSE
  /\ type' = 4 /\ NoResults
  /\ fileBuffer' = <<>>
  /\ asked' = Missing
  /\ found' = [n \in Number |-> Missing]
  /\ UNCHANGED <<mem, dump, extMenu>>

(* The game runs while the user is on no page.                             *)
GameWrite ==
  /\ extMenu = "tab"
  /\ \E a \in Addr, v \in Value : mem' = [mem EXCEPT ![a] = v]
  /\ UNCHANGED <<files, fileBuffer, session, shown, asked, extMenu, found>>

Page == EnterExact \/ EnterDiff \/ EnterText \/ LeavePage \/ ChangeType
Searches == FirstExact \/ FirstDiff \/ FirstDiffFails \/ NextExact \/ NextDiff \/ TextSearch
Next == Page \/ Dump \/ ResetSearch \/ Searches \/ Undo \/ OtherPress
          \/ Save \/ Restart \/ GameWrite

Spec == Init /\ [][Next]_vars
-----------------------------------------------------------------------------
File == [type : Types, bytes : Nat, recs : Seq(Record)]

TypeOK ==
  /\ mem \in [Addr -> Value]
  /\ dump \in [Addr -> Value] \cup {Missing}
  /\ disk \in [Number -> File \cup {Missing}]
  /\ Len(fileBuffer) < Chunk /\ fileBuffer \in Seq(Value)
  /\ searchNo \in Nat /\ searchMax \in 0 .. MaxSearches
  /\ cheatSearch \in BOOLEAN
  /\ type \in Types /\ searchResultCounter \in Nat
  /\ searchAddress \in Seq(Addr \cup {Garbage})
  /\ Len(searchAddress) <= searchResultMax
  /\ asked \in [mode : Modes \cup {Exact}, by : Value] \cup {Missing}
  /\ extMenu \in {"tab", "exact", "diff", "text"}

(* "Reset search" will find every file a search has written since the      *)
(* plugin started: undone searches and saves keep searchMax beyond them.   *)
FilesCovered == \A n \in Number : found[n] # Missing => n <= searchMax

(* While a search is current, what is shown and counted, and the size the  *)
(* next search compares, are its own file's: the next search reads exactly *)
(* the records that file has.  The text search does not come in between.   *)
ListedIsCurrent ==
  searchNo > 0 =>
    /\ type = disk[searchNo].type
    /\ Listing(disk[searchNo]) = [count |-> searchResultCounter, first |-> searchAddress]

(* Undoing a search shows again what was shown after the search undone to, *)
(* with whatever searches, undone or not, in between.                      *)
UndoShows ==
  [][(searchNo' = searchNo - 1 /\ searchNo' > 0) =>
       found[searchNo'] = [count |-> searchResultCounter', first |-> searchAddress']]_vars

(* What a search was asked for: an address it lists held the value asked   *)
(* for, or changed as asked since the dump or the search before, among     *)
(* whose results it was.                                                   *)
Before(n) ==
  IF n > 1 THEN Range(disk[n - 1].recs)
  ELSE IF asked'.mode = Exact THEN [addr : Addr, val : Value]
  ELSE {[addr |-> i, val |-> dump[i]] : i \in Addr}
IsAskedFor(r) ==
  /\ r.addr \in Addr /\ r.val = mem[r.addr]
  /\ \E old \in Before(searchNo') :
       old.addr = r.addr /\ Keeps(asked'.mode, old.val, r.val, asked'.by)
FoundAskedFor == \A r \in Range(disk'[searchNo'].recs) : IsAskedFor(r)

(* A search lists what was asked for where it writes a file that was not   *)
(* there, has records of its own to go through and, being the first and an *)
(* unknown one, finds nothing left in fileBuffer.                          *)
FreshResultsHold ==
  [][(/\ searchNo' > searchNo /\ disk[searchNo'] = Missing
      /\ searchNo > 0 => \A r \in Range(disk[searchNo].recs) : r.addr # Garbage
      /\ searchNo = 0 /\ asked'.mode # Exact => fileBuffer = <<>>) => FoundAskedFor]_vars

(* The files of the searches up to the current one are a stack of listings *)
(* and the newest is shown, whatever is saved, restarted, undone, aborted  *)
(* or searched in between.                                                 *)
StackOfFiles == [n \in 1 .. searchNo |-> Listing(disk[n])]
Shown == [count |-> searchResultCounter, first |-> searchAddress]
Stack == INSTANCE SessionStack
           WITH Nothing <- [count |-> 0, first |-> <<>>], stack <- StackOfFiles, shown <- Shown
ImplementsStack == Stack!Spec

-----------------------------------------------------------------------------
(* The inductive invariant behind FilesCovered, ListedIsCurrent and        *)
(* UndoShows: searchMax never falls behind, a search made is under way, so *)
(* that no text search comes in between, and the files of the searches up  *)
(* to the current one are as they were shown.                              *)
SessionInv ==
  /\ searchNo \in Nat /\ searchMax \in 0 .. MaxSearches /\ searchNo <= searchMax
  /\ DOMAIN disk = Number /\ DOMAIN found = Number
  /\ cheatSearch \in BOOLEAN
  /\ searchNo > 0 => cheatSearch
  /\ extMenu \in {"exact", "diff"} => cheatSearch
  /\ extMenu = "text" => searchNo = 0
FilesKept == \A n \in 1 .. searchNo : Listing(disk[n]) = found[n]
SearchInv == SessionInv /\ FilesCovered /\ ListedIsCurrent /\ FilesKept

(* What TypeOK needs to be inductive: a file has as many records as its    *)
(* bytes hold, so that what a shorter search leaves of it is there to be   *)
(* read, and those of the searches up to the current one exist.            *)
Whole(f) == f.bytes >= 1 /\ Len(f.recs) = (f.bytes - 1) \div Size(f.type)
DiskInv ==
  /\ \A n \in Number : disk[n] # Missing => Whole(disk[n])
  /\ \A n \in 1 .. searchNo : disk[n] \in File /\ Whole(disk[n])

=============================================================================
