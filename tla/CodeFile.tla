------------------------------ MODULE CodeFile ------------------------------
(***************************************************************************)
(* A cheat between MKIJIRO's menu and its code file (src/objects/          *)
(* crt0_prx.c): its name and marks, edited with the on-screen keyboard     *)
(* (src/objects/pspdebugkb.c) and the list's buttons, and its lines,       *)
(* edited in tab 0's editor and the copy menu, are written by cheatSave    *)
(* and read again by cheatLoad.  A line is of one of four kinds, told      *)
(* apart in the file by the number of its address alone.                   *)
(*                                                                         *)
(* A text is a header of letters, and two numbers for each line, the       *)
(* second one of so many digits.  Which line the cursor is on is left      *)
(* open, and so is what the editor's value fields show.                    *)
(***************************************************************************)
EXTENDS Integers, SequencesExt

CONSTANTS
  Space,       \* values of a word: 2^32
  Mask,        \* what an address is cut to when it is read: 2^28
  Base, Top,   \* the game's memory is Base .. Top - 1
  JokerLow, JokerHigh, \* a joker's "address": 0xFF000000 .. 0xFFFFF3F9
  JokerPad,    \* the last one the editor goes to unless the value is 0
  ValueLimit,  \* the greatest value of a pointer or joker in the editor
  JokerAddress,\* the value a new joker is given
  Digits, Weight, \* the digits of an address, and what each counts
  Holds,       \* the values of a byte, of a half word and of a word
  Letter,      \* letters that are none of "#", "!" and ";"
  NameMax,     \* letters that are read of a name: 31
  KbMax,       \* letters the keyboard makes a name of: 33
  MaxLines,    \* bound: lines of the cheat
  Typed,       \* bound: addresses in a file written by hand
  Values,      \* bound: values in the file and in the editor
  NamesInFile  \* bound: headers in a file written by hand

Sizes == {"byte", "word", "dword"}
ASSUME CodeFileAssumption ==
  /\ Space \in Nat /\ Mask \in Nat /\ Base \in Nat /\ Top \in Nat
  /\ 0 < Base /\ Base < Mask /\ Mask <= 2 * Base
  /\ Base + 4 <= Top /\ Top <= 2 * Base
  /\ JokerLow \in Nat /\ JokerHigh \in Nat /\ JokerPad \in JokerLow .. JokerHigh
  /\ 3 * Mask <= JokerLow /\ JokerHigh < Space - 1 /\ Space <= JokerLow + Mask
  /\ ValueLimit \in 1 .. Space - 1 /\ JokerAddress \in 0 .. Space - 1
  /\ Digits \in Nat \ {0} /\ Weight \in [0 .. Digits - 1 -> 1 .. Mask]
  /\ Holds \in [Sizes -> 1 .. Space]
  /\ NameMax \in Nat /\ KbMax \in Nat /\ MaxLines \in Nat
  /\ Typed \subseteq 0 .. Space - 1 /\ Values \subseteq 0 .. Space - 1
ASSUME NameAssumption ==
  /\ {"#", "!", ";"} \cap Letter = {} /\ NameMax <= KbMax
  /\ NamesInFile \subseteq Seq(Letter \cup {"#", "!", ";"})
ASSUME AlignedAssumption ==
  /\ Base % 4 = 0 /\ Top % 4 = 0 /\ Space % 4 = 0
  /\ \A x \in 0 .. Digits - 2 : Weight[x] % 4 = 0

Column == 0 .. Digits - 1
DMA == Space - 1
Line == [kind : {"plain", "cwc", "joker", "dma"}, addr : 0 .. Space - 1,
         size : Sizes \cup {"uword"}, val : 0 .. Space - 1, freeze : BOOLEAN]
Row == [addr : Typed, size : Sizes \cup {"uword"}, val : Values, freeze : BOOLEAN]
Marks == SUBSET {"selected", "constant"}

VARIABLES
  lines,       \* the cheat's lines in block[]
  name, marks, \* its name and flags in cheat[]
  nextKept,    \* does the next cheat's entry still name its lines?
  edits        \* bound: does the user edit the lines or the header?

vars == <<lines, name, marks, nextKept, edits>>

-----------------------------------------------------------------------------
(* cheatLoad: a line is what its address says.                             *)
KindOf(a) ==
  IF a = DMA THEN "dma"
  ELSE IF JokerLow <= a /\ a <= JokerHigh THEN "joker"
  ELSE IF Mask < a /\ a < 3 * Mask THEN "cwc"
  ELSE "plain"
ReadAddress(a) ==
  LET m == a % Mask
  IN IF KindOf(a) \in {"dma", "joker"} THEN a
     ELSE IF KindOf(a) = "cwc" \/ m < Base THEN m + Base
     ELSE m
ReadLine(row) ==
  [kind |-> KindOf(row.addr), addr |-> ReadAddress(row.addr),
   size |-> row.size, val |-> row.val, freeze |-> row.freeze]

(* Its header: "#" begins the entry anew; a "!" of the name is a mark,     *)
(* wherever it is, and the next one the other mark; the letters beyond     *)
(* NameMax are dropped.  A ";" ends the entry with a comment, in which a   *)
(* "#" begins another cheat's.                                             *)
\* Fault for the checks: the second "!" leaves the first one's mark.
MarkedBoth(m) == IF "selected" \in m THEN m \cup {"constant"} ELSE m \cup {"selected"}
Marked(m) ==
  IF "selected" \in m THEN (m \cup {"constant"}) \ {"selected"} ELSE m \cup {"selected"}
ReadLetter(h, c) ==
  IF c = "#" /\ ~h.comment THEN [h EXCEPT !.name = <<>>, !.marks = {}, !.naming = TRUE]
  ELSE IF c = ";" THEN [h EXCEPT !.naming = FALSE, !.comment = TRUE]
  ELSE IF c = "!" /\ h.naming THEN [h EXCEPT !.marks = Marked(@)]
  ELSE IF h.naming /\ Len(h.name) < NameMax THEN [h EXCEPT !.name = Append(@, c)]
  ELSE h
NoHeader == [name |-> <<>>, marks |-> {}, naming |-> FALSE, comment |-> FALSE]
ReadHeader(text) ==
  LET read[i \in 0 .. Len(text)] ==
        IF i = 0 THEN NoHeader ELSE ReadLetter(read[i - 1], text[i])
  IN read[Len(text)]

(* cheatSave: the address by the line's kind, the value by its size.  Of a *)
(* line of no size only the address is written, and not the line's end.    *)
AddressText(l) ==
  IF l.kind \in {"dma", "joker"} THEN l.addr
  ELSE IF l.kind = "cwc" THEN (l.addr - Base + 2 * Mask) % Space
  ELSE (l.addr - Base) % Space
RowOf(l) ==
  [addr |-> AddressText(l), size |-> l.size, val |-> l.val % Holds[l.size],
   freeze |-> FALSE]
HeaderText ==
  (IF "constant" \in marks THEN <<"#", "!", "!">>
   ELSE IF "selected" \in marks THEN <<"#", "!">> ELSE <<"#">>) \o name

-----------------------------------------------------------------------------
(* What is in a file written by hand.                                      *)
Tables == UNION {[1 .. n -> {ReadLine(r) : r \in Row}] : n \in 0 .. MaxLines}
Headers == {ReadHeader(<<"#">> \o text) : text \in NamesInFile}

Init ==
  /\ edits \in {"lines", "name"}
  /\ lines \in IF edits = "lines" THEN Tables ELSE {<<>>}
  /\ \E h \in IF edits = "lines" THEN {NoHeader} ELSE Headers :
       name = h.name /\ marks = h.marks
  /\ nextKept = TRUE

(* The codes are saved and loaded again, at once or at the next start.     *)
(* With a line of no size the numbers run together and anything is read.   *)
Readable == \A i \in DOMAIN lines : lines[i].size # "uword"
Reload ==
  /\ name' = ReadHeader(HeaderText).name
  /\ marks' = ReadHeader(HeaderText).marks
  /\ IF Readable THEN lines' = [i \in DOMAIN lines |-> ReadLine(RowOf(lines[i]))]
     ELSE lines' \in Tables
  /\ UNCHANGED <<nextKept, edits>>

(* The user put another file in its place.                                 *)
LoadOther ==
  /\ \/ /\ edits = "lines"
        /\ lines' \in Tables
        /\ UNCHANGED <<name, marks>>
     \/ /\ edits = "name"
        /\ \E h \in Headers : name' = h.name /\ marks' = h.marks
        /\ UNCHANGED lines
  /\ nextKept' = TRUE
  /\ UNCHANGED edits

-----------------------------------------------------------------------------
(* The header: the keyboard and the list's two buttons for the marks.  The *)
(* end of a name of KbMax letters is written over the next cheat's first   *)
(* line, in the byte that counts least.                                    *)
EditName(n) ==
  /\ edits = "name"
  /\ name' = n
  /\ nextKept' \in IF Len(n) = KbMax THEN {nextKept, FALSE} ELSE {nextKept}
  /\ UNCHANGED <<lines, marks, edits>>
\* Fault for the checks: one letter more.
TypeLetterMore(c) == Len(name) <= KbMax /\ EditName(Append(name, c))
TypeLetter(c) == Len(name) < KbMax /\ EditName(Append(name, c))
Backspace == name # <<>> /\ EditName(Front(name))
ClearName == EditName(<<>>)
Toggle(mark) ==
  /\ edits = "name"
  /\ marks' = IF mark \in marks THEN {} ELSE {mark}
  /\ UNCHANGED <<lines, name, nextKept, edits>>

-----------------------------------------------------------------------------
(* A line in the editor.                                                   *)
Edit(i, l) ==
  /\ edits = "lines"
  /\ lines' = [lines EXCEPT ![i] = l]
  /\ UNCHANGED <<name, marks, nextKept, edits>>

(* SQUARE: the next size, where the address allows it.                     *)
\* Fault for the checks: a word is made of any half word.
ResizedAnyhow(l) ==
  IF l.size = "byte" /\ l.addr % 2 = 0 THEN "word"
  ELSE IF l.size = "word" THEN "dword"
  ELSE IF l.size = "dword" THEN "byte" ELSE l.size
Resized(l) ==
  IF l.size = "byte" /\ l.addr % 2 = 0 THEN "word"
  ELSE IF l.size = "word" /\ l.addr % 4 = 0 THEN "dword"
  ELSE IF l.size = "dword" THEN "byte" ELSE l.size
Resize(i) ==
  /\ lines[i].kind \in {"plain", "cwc"}
  /\ Edit(i, [lines[i] EXCEPT !.size = Resized(lines[i])])

(* UP and DOWN on a digit of the address: the last one counts what keeps   *)
(* the line aligned, and the result is kept in the memory or among the     *)
(* buttons of a joker.                                                     *)
Step(l, x) ==
  IF x # Digits - 1 THEN Weight[x]
  ELSE IF l.kind = "joker" THEN 1
  ELSE IF l.size = "dword" THEN 4
  ELSE IF l.size = "word" THEN 2 ELSE Weight[x]
LastJoker(l) == IF l.val = 0 THEN JokerHigh ELSE JokerPad
InMemory(a) == IF a < Base THEN Base ELSE IF a >= Top THEN Top - 4 ELSE a
\* Fault for the checks: that the sum may leave the 32 bits is forgotten.
AddressUpNoWrap(l, x) ==
  LET a == (l.addr + Step(l, x)) % Space
  IN IF l.kind = "joker" THEN IF a > LastJoker(l) THEN LastJoker(l) ELSE a
     ELSE InMemory(a)
AddressUp(l, x) ==
  LET a == (l.addr + Step(l, x)) % Space
  IN IF l.kind = "joker" THEN IF a > LastJoker(l) \/ a < Mask THEN LastJoker(l) ELSE a
     ELSE InMemory(a)
AddressDown(l, x) ==
  LET a == (l.addr - Step(l, x)) % Space
  IN IF l.kind = "joker" THEN IF a < JokerLow THEN JokerLow ELSE a
     ELSE InMemory(a)

(* On a digit of the value, in any of its forms: a frozen line's stays     *)
(* only for those in base 16.  A pointer's or joker's is cut, also after a *)
(* change of its address.                                                  *)
UpValue(l, v) ==
  IF l.kind \in {"dma", "joker"} /\ v > ValueLimit THEN ValueLimit - 1 ELSE v
DownValue(l, v) ==
  IF l.kind \in {"dma", "joker"} /\ v > ValueLimit THEN 0 ELSE v
EditAddress(i) ==
  LET l == lines[i]
      a(x) == IF l.kind = "dma" THEN l.addr ELSE AddressUp(l, x)
      b(x) == IF l.kind = "dma" THEN l.addr ELSE AddressDown(l, x)
  IN \E x \in Column :
       \/ Edit(i, [l EXCEPT !.addr = a(x), !.val = UpValue(l, @)])
       \/ Edit(i, [l EXCEPT !.addr = b(x), !.val = DownValue(l, @)])
EditValue(i) ==
  \E v \in Values \cup {lines[i].val} :
    \/ Edit(i, [lines[i] EXCEPT !.val = UpValue(lines[i], v)])
    \/ Edit(i, [lines[i] EXCEPT !.val = DownValue(lines[i], v)])

-----------------------------------------------------------------------------
(* A line in the copy menu.                                                *)
(* "Normal", and with a second button CWCheat's kind: a line of no size    *)
(* keeps its kind, any other loses its freezing mark.                      *)
MakeKind(i, kind) ==
  LET l == lines[i]
      a == IF l.addr >= JokerLow THEN Base ELSE l.addr
  IN Edit(i, IF l.size = "uword" THEN [l EXCEPT !.addr = a]
             ELSE [l EXCEPT !.addr = a, !.kind = kind, !.freeze = FALSE])
MakePointer(i) ==
  Edit(i, [lines[i] EXCEPT !.kind = "dma", !.addr = DMA, !.size = "dword", !.freeze = FALSE])
MakeJoker(i) ==
  \E v \in {0, JokerAddress} :
    Edit(i, [kind |-> "joker", addr |-> JokerLow, size |-> "dword", val |-> v, freeze |-> FALSE])

(* What was copied is a word of the memory, or where a line of any kind    *)
(* leads to.  A pointer or joker takes it as its value.                    *)
Copied == {a \in Base .. Base + Mask - 1 : a % 4 = 0}
PasteAddress(i) ==
  \E a \in Copied :
    Edit(i, IF lines[i].kind \in {"dma", "joker"} THEN [lines[i] EXCEPT !.val = a - Base]
            ELSE [lines[i] EXCEPT !.addr = a])
PasteValue(i) ==
  /\ lines[i].kind # "dma"
  /\ \E v \in Values : Edit(i, [lines[i] EXCEPT !.val = v])

EditLine ==
  \E i \in DOMAIN lines :
    \/ Resize(i) \/ EditAddress(i) \/ EditValue(i)
    \/ MakeKind(i, "plain") \/ MakeKind(i, "cwc") \/ MakePointer(i) \/ MakeJoker(i)
    \/ PasteAddress(i) \/ PasteValue(i)

Next ==
  \/ Reload \/ LoadOther
  \/ (\E c \in Letter \cup {"#", "!", ";"} : TypeLetter(c)) \/ Backspace \/ ClearName
  \/ (\E mark \in {"selected", "constant"} : Toggle(mark))
  \/ EditLine

Spec == Init /\ [][Next]_vars

-----------------------------------------------------------------------------
TypeOK ==
  /\ lines \in Seq(Line) /\ Len(lines) <= MaxLines
  /\ name \in Seq(Letter \cup {"#", "!", ";"}) /\ Len(name) <= KbMax
  /\ marks \in Marks /\ nextKept \in BOOLEAN
  /\ edits \in {"lines", "name"}

(* What was loaded, edited, pasted or made another kind of line, cheatLoad *)
(* reads again as it was when cheatSave wrote it: the same kind at the     *)
(* same address, the value as far as its size goes.  The exceptions are a  *)
(* line of no size, the freezing mark, and a plain line beyond twice the   *)
(* memory's address, which a CWCheat line turned plain reaches, and a line *)
(* that the address of a CWCheat line is pasted to.                        *)
Reloaded(l) ==
  [kind |-> l.kind, addr |-> l.addr, size |-> l.size,
   val |-> l.val % Holds[l.size], freeze |-> FALSE]
TableReloads ==
  \A i \in DOMAIN lines :
    lines[i].size # "uword" /\ (lines[i].kind = "plain" => lines[i].addr < 2 * Base)
      => ReadLine(RowOf(lines[i])) = Reloaded(lines[i])

(* A name of letters, not too long, and its mark are read as they were     *)
(* written; of two marks, which only a "!!!" makes, one is.                *)
HeaderReloads ==
  name \in Seq(Letter) /\ Len(name) <= NameMax =>
    /\ ReadHeader(HeaderText).name = name
    /\ ReadHeader(HeaderText).marks =
         IF "constant" \in marks THEN {"constant"} ELSE marks

(* No edit takes a half word or a word off its alignment.                  *)
Aligned(l) ==
  l.kind \in {"plain", "cwc"} =>
    /\ l.size = "word" => l.addr % 2 = 0
    /\ l.size = "dword" => l.addr % 4 = 0
AlignedKept ==
  [][EditLine => \A i \in DOMAIN lines : Aligned(lines[i]) => Aligned(lines'[i])]_vars

=============================================================================
