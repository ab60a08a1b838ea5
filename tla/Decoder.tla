------------------------------ MODULE Decoder ------------------------------
(***************************************************************************)
(* Tab 3 of MKIJIRO's menu (src/objects/crt0_prx.c): the memory editor of  *)
(* Browser and, on the same five pages, the decoder: 26 words of the       *)
(* game's memory as instructions, with a cursor.  From a word that is a    *)
(* pointer, a jump or a branch the user follows it and returns; the places *)
(* left are logged, 32 of them, in a list and in the game's memory, where  *)
(* the user may look at them and go on from one.  A page also jumps to the *)
(* results of a search, to two marks and to what was copied.               *)
(*                                                                         *)
(* What the words are is left open, also those of the log: the game may    *)
(* have written them.  So is the column of the cursor.                     *)
(***************************************************************************)
EXTENDS Browser, SequencesExt

CONSTANTS
  Word,            \* bytes of a word: 4
  Byte,            \* values of a byte: 256
  JumpLog,         \* last entry of the log: 31
  LogStart,        \* its first word in the game's memory
  BackPages,       \* pages that backaddress[] has room for: 4
  searchResultMax, \* results listed
  Leap,            \* results UP and DOWN leap over: 10
  MaxNo,           \* bound: the number of a result that is copied
  Found,           \* addresses that results have
  Garbage,         \* bound: what is read and written beyond an array's end
  Together,        \* bound: the sets of tools that are used together
  Onward           \* bound: does the user go on once something led astray?

Tools == {"browse", "move", "digits", "log", "viewer", "marks", "results"}
LogIndex(a) == ((a - Low) \div Word) % Byte
DecodeLast == High - Rows * Word

ASSUME DecoderAssumption ==
  /\ Word \in Nat \ {0} /\ Byte \in Nat /\ Byte % 2 = 0
  /\ 2 * Rows <= Byte /\ JumpLog \in Nat /\ JumpLog + 2 < Byte
  /\ Low + Rows * Word <= High /\ (Byte \div 2 + 1) * Word <= Low
  /\ \A k \in Stick : k * Wide <= (Byte \div 2 - 1) * Word
  /\ BackPages \in Nat /\ searchResultMax \in Nat /\ Leap \in Nat \ {0}
  /\ MaxNo \in Nat /\ searchResultMax <= MaxNo
  /\ Found \subseteq Nat /\ Garbage \subseteq Nat
  /\ Together \subseteq SUBSET Tools /\ Onward \in BOOLEAN
ASSUME AlignedAssumption ==
  /\ Low % Word = 0 /\ High % Word = 0 /\ LogStart % Word = 0
  /\ Narrow % Word = 0 /\ Wide % Word = 0
  /\ \A x \in 0 .. Digits - 2 : Weight[x] % Word = 0
  /\ \A a \in Found : a % Word = 0
(* logstart is 0x48802804: the entry after the one at a word of the log is *)
(* that word's distance from the memory's beginning, in a byte.            *)
ASSUME LogAssumption ==
  /\ LogStart \in Nat /\ Low + Word <= LogStart
  /\ LogStart + JumpLog * Word < High
  /\ \A i \in -1 .. JumpLog : LogIndex(LogStart + i * Word) = i + 1

Signed == -(Byte \div 2) .. Byte \div 2 - 1    \* a char
Entry == 0 .. JumpLog
BackPage == 0 .. BackPages - 1
Place == [addr : Nat, y : Signed]

VARIABLES
  flipme,         \* is it the editor that is shown, or the decoder?
  decode,         \* each page's decodeAddress and decodeY
  logcounter, storedAddress, \* the log
  back,           \* backaddress and backaddressY: where the log is left for
  copyStartFlag, copyEndFlag, copyToggle, \* the marks
  searchjumpNo,   \* the result jumped to
  shownResults,   \* searchjumpNoMax: the results that are listed
  tools,          \* bound: the tools that are used
  astray,         \* history: something led where nothing is checked
  trail           \* history: the places left and not returned to

logVars == <<logcounter, storedAddress, trail>>
markVars == <<copyStartFlag, copyEndFlag, copyToggle>>
resultVars == <<searchjumpNo, shownResults>>
vars == <<browserVars, flipme, decode, logVars, back, markVars, resultVars, tools, astray>>

Init ==
  /\ BrowserInit
  /\ flipme = TRUE
  /\ decode = [p \in Page |-> [addr |-> Low, y |-> 0]]
  /\ logcounter = 0 /\ storedAddress = [i \in Entry |-> 0] /\ trail = <<>>
  /\ back = [p \in BackPage |-> [addr |-> 0, y |-> 0]]
  /\ copyStartFlag = Low /\ copyEndFlag = Low /\ copyToggle = FALSE
  /\ searchjumpNo = 0 /\ shownResults = 0
  /\ tools \in Together /\ astray = FALSE

Using(tool) == tool \in tools /\ (astray => Onward) /\ UNCHANGED tools

-----------------------------------------------------------------------------
(* Places.                                                                 *)
Cursor(pos) == pos.addr + pos.y * Word
ToChar(n) == ((n + Byte \div 2) % Byte) - Byte \div 2
AtMost(a, b) == IF a < b THEN a ELSE b
AtLeast(a, b) == IF a > b THEN a ELSE b

(* A page that would go beyond the memory ends with it, and the cursor     *)
(* stays on the word - as far as a char can count the words.               *)
decodeMAX(pos) ==
  IF pos.addr < Low THEN [pos EXCEPT !.addr = Low]
  ELSE IF pos.addr > DecodeLast
    THEN [addr |-> DecodeLast,
          y |-> AtMost(ToChar((pos.addr - DecodeLast) \div Word), Rows - 1)]
  ELSE pos

At == decode[bdNo]
To(pos) == decode' = [decode EXCEPT ![bdNo] = pos]
PageAt(a) == decodeMAX([At EXCEPT !.addr = a])
CursorAt(a) == decodeMAX([addr |-> a, y |-> 0])

-----------------------------------------------------------------------------
(* Moving the cursor and the page.                                         *)
Target == {a \in Low .. High - 1 : a % Word = 0}
CursorUp(pos) ==
  IF pos.y > 0 THEN [pos EXCEPT !.y = @ - 1]
  ELSE IF pos.y = 0 /\ pos.addr > Low THEN [pos EXCEPT !.addr = @ - Word]
  ELSE pos
\* Fault for the checks: the page follows wherever it is.
CursorDownOn(pos) ==
  IF pos.y < Rows - 1 THEN [pos EXCEPT !.y = @ + 1] ELSE [pos EXCEPT !.addr = @ + Word]
CursorDown(pos) ==
  IF pos.y < Rows - 1 THEN [pos EXCEPT !.y = @ + 1]
  ELSE IF pos.y = Rows - 1 /\ pos.addr < DecodeLast THEN [pos EXCEPT !.addr = @ + Word]
  ELSE pos
PageUp(pos) == IF pos.addr > Low THEN [pos EXCEPT !.addr = @ - Word] ELSE pos
PageDown(pos) ==
  IF pos.addr < DecodeLast THEN decodeMAX([pos EXCEPT !.addr = @ + Word]) ELSE pos

(* A digit of the address: the last one counts a word.  Going up, the      *)
(* cursor's row is added where the page would go beyond the memory.        *)
Step(x) == IF x = Digits - 1 THEN Word ELSE Weight[x]
Stepped(pos, x) ==
  LET a == pos.addr + Step(x)
  IN IF a > DecodeLast THEN a + pos.y * Word ELSE a
\* Fault for the checks: the row is not added.
DigitUpNoRow(pos, x) == decodeMAX([pos EXCEPT !.addr = @ + Step(x)])
DigitUp(pos, x) == decodeMAX([pos EXCEPT !.addr = Stepped(pos, x)])
DigitDown(pos, x) == decodeMAX([pos EXCEPT !.addr = @ - Step(x)])

(* How far beyond the last page a char can count.                          *)
Reach == DecodeLast + (Byte \div 2 - 1) * Word
BeyondReach(pos, x) == Stepped(pos, x) > Reach

(* What UP and DOWN may do, a digit apart; a word that is edited stays     *)
(* where it is.  The stick moves the page by rows of the editor.           *)
OnUp(pos) == {pos, CursorUp(pos), PageUp(pos)}
OnDown(pos) == {pos, CursorDown(pos), PageDown(pos)}
Move ==
  /\ ~flipme /\ Using("move")
  /\ \E pos \in OnUp(At) \cup OnDown(At)
                  \cup {PageAt(At.addr + k * browseLines) : k \in Stick} : To(pos)
  /\ UNCHANGED <<browserVars, flipme, logVars, back, markVars, resultVars, astray>>
EditDigit ==
  /\ ~flipme /\ Using("digits")
  /\ \E x \in Column :
       \/ To(DigitUp(At, x)) /\ astray' = (astray \/ BeyondReach(At, x))
       \/ To(DigitDown(At, x)) /\ UNCHANGED astray
  /\ UNCHANGED <<browserVars, flipme, logVars, back, markVars, resultVars>>
(* "Paste address": what was copied is a word of the memory, or the        *)
(* address of a line of the table, which may be beyond it.                 *)
Paste ==
  /\ ~flipme /\ Using("move")
  /\ \E a \in Target \cup {f \in Found : f >= Low} :
       To(PageAt(a)) /\ astray' = (astray \/ a > Reach)
  /\ UNCHANGED <<browserVars, flipme, logVars, back, markVars, resultVars>>

-----------------------------------------------------------------------------
(* Jumps.                                                                  *)
InLog == Cursor(At) \in LogStart - Word .. LogStart + JumpLog * Word

Logged ==
  /\ storedAddress' = [storedAddress EXCEPT ![logcounter] = Cursor(At)]
  /\ logcounter' = logcounter + 1
  /\ trail' = Append(trail, Cursor(At))

(* A pointer in the log: what was logged up to its word is the log again.  *)
Resumed ==
  /\ logcounter' = LogIndex(Cursor(At))
  /\ trail' = [i \in 1 .. logcounter' |-> AtLeast(storedAddress[i - 1], Low)]
  /\ UNCHANGED storedAddress

(* With the log full the first press only makes room in it.                *)
Full ==
  /\ logcounter > JumpLog
  /\ logcounter' = JumpLog
  /\ trail' = SubSeq(trail, 1, JumpLog)
  /\ UNCHANGED <<decode, storedAddress>>
Followed ==
  \/ \E a \in Target : To(CursorAt(a)) /\ (IF InLog THEN Resumed ELSE Logged) \* pointer
  \/ \E a \in Target : To(CursorAt(a)) /\ Logged  \* jump or branch
  \/ To(decodeMAX(At)) /\ Logged                  \* branch out of the memory
  \/ To(decodeMAX(At)) /\ UNCHANGED logVars       \* none of these
\* Fault for the checks: a full log is not looked at.
FollowFull == Followed
Follow == logcounter <= JumpLog /\ Followed
Jump ==
  /\ ~flipme /\ Using("log")
  /\ Full \/ Follow
  /\ UNCHANGED <<browserVars, flipme, back, markVars, resultVars, astray>>

(* The way back.                                                           *)
\* Fault for the checks: the counter is lowered first.
ReturnPlaceLate == CursorAt(storedAddress[AtLeast(logcounter - 2, 0)])
ReturnPlace == CursorAt(storedAddress[logcounter - 1])
Return ==
  /\ ~flipme /\ Using("log")
  /\ IF logcounter >= 1
       THEN /\ To(ReturnPlace)
            /\ logcounter' = logcounter - 1 /\ trail' = Front(trail)
       ELSE /\ To(decodeMAX([At EXCEPT !.y = 0]))
            /\ UNCHANGED <<logcounter, trail>>
  /\ UNCHANGED <<browserVars, flipme, storedAddress, back, markVars, resultVars, astray>>

-----------------------------------------------------------------------------
(* The copy menu's "view log" goes to the log's newest entry and, from the *)
(* log, back.  backaddress[] has room for four pages: what a fifth writes  *)
(* may be the rows of the others and the log's first entry, and what it    *)
(* reads is anything.  An address copied from elsewhere may be too high    *)
(* for the log to be shown.                                                *)
Newest == LogStart + (logcounter - 1) * Word
View ==
  /\ ~InLog
  /\ To(decodeMAX([addr |-> At.addr, y |-> 0])) \/ To(CursorAt(Newest))
  /\ IF bdNo \in BackPage
       THEN back' = [back EXCEPT ![bdNo] = At] /\ UNCHANGED <<storedAddress, astray>>
       ELSE /\ \E g \in [BackPage -> Garbage] :
                 back' = [p \in BackPage |-> [back[p] EXCEPT !.y = ToChar(g[p])]]
            /\ \E a \in Garbage :
                 storedAddress' = [storedAddress EXCEPT ![0] = a]
            /\ astray' = TRUE
WayBack == decodeMAX(back[bdNo])
ViewBack ==
  /\ InLog
  /\ IF bdNo \in BackPage
       THEN To(WayBack) /\ UNCHANGED astray
       ELSE /\ \E a, y \in Garbage : To(decodeMAX([addr |-> a, y |-> ToChar(y)]))
            /\ astray' = TRUE
  /\ UNCHANGED <<storedAddress, back>>
ViewLog ==
  /\ ~flipme /\ Using("viewer")
  /\ View \/ ViewBack
  /\ UNCHANGED <<browserVars, flipme, logcounter, trail, markVars, resultVars>>

(* "Clear log" also writes the lowest address behind backaddress[], where  *)
(* an entry of the log may be.                                             *)
Cleared == [i \in Entry |-> 0]
ClearLog ==
  /\ Using("viewer")
  /\ logcounter' = 0 /\ trail' = <<>>
  /\ storedAddress' \in {Cleared} \cup {[Cleared EXCEPT ![i] = Low] : i \in Entry}
  /\ UNCHANGED <<browserVars, flipme, decode, back, markVars, resultVars, astray>>

-----------------------------------------------------------------------------
(* NOTE sets the marks: first both, then the end, or an earlier beginning. *)
\* Fault for the checks: the end is set before the beginning.
MarkEnd == copyToggle
MarkEndLater == copyToggle /\ Cursor(At) > copyStartFlag
Mark ==
  /\ ~flipme /\ Using("marks")
  /\ \/ /\ ~copyToggle
        /\ copyStartFlag' = Cursor(At) /\ copyEndFlag' = Cursor(At) /\ copyToggle' = TRUE
     \/ /\ MarkEndLater
        /\ copyEndFlag' = Cursor(At) /\ copyToggle' = FALSE
        /\ UNCHANGED copyStartFlag
     \/ /\ copyToggle /\ Cursor(At) < copyStartFlag
        /\ copyStartFlag' = Cursor(At)
        /\ UNCHANGED <<copyEndFlag, copyToggle>>
  /\ UNCHANGED <<browserVars, flipme, decode, logVars, back, resultVars, astray>>
GoToMark ==
  /\ ~flipme /\ Using("marks")
  /\ \E a \in {copyStartFlag, copyEndFlag} : To(PageAt(a))
  /\ UNCHANGED <<browserVars, flipme, logVars, back, markVars, resultVars, astray>>

-----------------------------------------------------------------------------
(* SELECT and a direction jump to a result, which is not checked; then the *)
(* direction does what it does without SELECT.  The leap up ends one       *)
(* beyond the last result that is listed, where RIGHT ends on the last.    *)
NextNo(d) ==
  IF d = "right" THEN IF searchjumpNo < shownResults - 1 THEN searchjumpNo + 1 ELSE searchjumpNo
  ELSE IF d = "left" THEN AtLeast(searchjumpNo - 1, 0)
  ELSE IF d = "up" THEN IF searchjumpNo < shownResults - Leap THEN searchjumpNo + Leap
                        ELSE shownResults
  ELSE AtLeast(searchjumpNo - Leap, 0)

(* Where the direction then goes, and whether a digit took it too far.     *)
Then(d, pos) ==
  IF d = "up" THEN (OnUp(pos) \X {FALSE})
                     \cup {<<DigitUp(pos, x), BeyondReach(pos, x)>> : x \in Column}
  ELSE IF d = "down" THEN (OnDown(pos) \cup {DigitDown(pos, x) : x \in Column}) \X {FALSE}
  ELSE {<<pos, FALSE>>}
ResultJump(d) ==
  /\ ~flipme /\ Using("results")
  /\ searchjumpNo' = NextNo(d)
  /\ \E a \in Found :
       LET pos == IF a > Low THEN [addr |-> a, y |-> 0] ELSE At
       IN \E to \in Then(d, pos) :
            /\ To(to[1])
            /\ astray' = (astray \/ pos.addr > DecodeLast \/ to[2])
  /\ UNCHANGED <<browserVars, flipme, logVars, back, markVars, shownResults>>
Directions == {"right", "left", "up", "down"}

(* Elsewhere in the menu: another search, a result copied.                 *)
NewListing ==
  /\ Using("results")
  /\ shownResults' \in 0 .. searchResultMax
  /\ UNCHANGED <<browserVars, flipme, decode, logVars, back, markVars, searchjumpNo, astray>>
CopyResult ==
  /\ Using("results")
  /\ searchjumpNo' \in 0 .. MaxNo
  /\ UNCHANGED <<browserVars, flipme, decode, logVars, back, markVars, shownResults, astray>>

-----------------------------------------------------------------------------
(* The editor's part of the tab.                                           *)
decoderVars == <<decode, logVars, back, markVars, resultVars>>
Editor ==
  /\ flipme /\ Using("browse")
  /\ \/ BrowserInput
     \/ \E a \in Target \cup {copyStartFlag, copyEndFlag, Newest} : BrowseTo(a)
  /\ UNCHANGED <<decoderVars, flipme, astray>>
Option ==
  /\ Using("browse")
  /\ OptionLines
  /\ UNCHANGED <<decoderVars, flipme, astray>>
TurnPage ==
  /\ NextPage \/ PreviousPage
  /\ UNCHANGED <<decoderVars, flipme, tools, astray>>
Flip ==
  /\ flipme' = ~flipme
  /\ UNCHANGED <<browserVars, decoderVars, tools, astray>>

Next ==
  \/ Editor \/ Option \/ TurnPage \/ Flip
  \/ Move \/ EditDigit \/ Paste \/ Jump \/ Return \/ ViewLog \/ ClearLog
  \/ Mark \/ GoToMark \/ (\E d \in Directions : ResultJump(d)) \/ NewListing \/ CopyResult

Spec == Init /\ [][Next]_vars
-----------------------------------------------------------------------------
TypeOK ==
  /\ BrowserTypeOK
  /\ flipme \in BOOLEAN /\ copyToggle \in BOOLEAN /\ astray \in BOOLEAN
  /\ decode \in [Page -> Place]
  /\ logcounter \in 0 .. JumpLog + 1
  /\ storedAddress \in [Entry -> Nat]
  /\ back \in [BackPage -> Place]
  /\ copyStartFlag \in Nat /\ copyEndFlag \in Nat /\ trail \in Seq(Nat)
  /\ searchjumpNo \in 0 .. MaxNo /\ shownResults \in 0 .. searchResultMax
  /\ tools \in Together

(* A page of the decoder is words of the memory, all of it, and the cursor *)
(* is in one of its rows.                                                  *)
OnPage(pos) ==
  /\ pos.addr \in Low .. DecodeLast /\ pos.addr % Word = 0
  /\ pos.y \in 0 .. Rows - 1

(* Whatever the user follows, scrolls, pastes, marks or returns to: every  *)
(* page of the decoder stays one, so that nothing outside the memory is    *)
(* read or written through it - unless a result led beyond the last page,  *)
(* a digit of the address further than a char counts, or the fifth page    *)
(* to the log.                                                             *)
DecoderOnPage == ~astray => \A p \in Page : OnPage(decode[p])

(* Returning leads back through the places that were left, the newest      *)
(* first, through a log that was full, resumed in its middle or cleared.   *)
ReturnsInOrder ==
  /\ Len(trail) = logcounter
  /\ ~astray /\ logcounter > 0 => Cursor(ReturnPlace) = trail[logcounter]

(* The first mark is never behind the second, and both are words: what is  *)
(* copied between them has a length, in words.                             *)
IsWord(a) == a \in Low .. High - 1 /\ a % Word = 0
MarksOrdered ==
  /\ copyStartFlag <= copyEndFlag
  /\ ~astray => IsWord(copyStartFlag) /\ IsWord(copyEndFlag)

(* What makes it so: all that a page may be taken to is a word, or nothing *)
(* (which decodeMAX makes the first).                                      *)
LogOK ==
  /\ \A i \in Entry : storedAddress[i] = 0 \/ IsWord(storedAddress[i])
  /\ \A p \in BackPage : back[p] = [addr |-> 0, y |-> 0] \/ OnPage(back[p])
TrailOK ==
  /\ Len(trail) = logcounter
  /\ ~astray => \A i \in 1 .. logcounter : trail[i] = AtLeast(storedAddress[i - 1], Low)
Inv ==
  /\ TypeOK /\ BrowserInv /\ DecoderOnPage /\ MarksOrdered /\ TrailOK
  /\ ~astray => LogOK
  /\ \A p \in Page : decode[p].addr > Low - Word

(* A digit that goes up moves the cursor by what it counts, at most to the *)
(* last word.                                                              *)
DigitMovesCursor ==
  \A p \in Page, x \in Column :
    OnPage(decode[p]) /\ ~BeyondReach(decode[p], x) =>
      Cursor(DigitUp(decode[p], x)) = AtMost(Cursor(decode[p]) + Step(x), High - Word)

=============================================================================
