--------------------------- MODULE CodeFileProofs ---------------------------
(***************************************************************************)
(* Theorems about CodeFile, for words, ranges, names and files of any      *)
(* size: what a line is read as when it was written, that this is the line *)
(* itself after any loading and editing, that edits keep lines aligned,    *)
(* and that a name and its marks are read as they were written.  A header  *)
(* is read letter by letter: what holds after all letters is shown by      *)
(* induction over them (Induction).                                        *)
(***************************************************************************)
EXTENDS CodeFile, Induction, SequenceTheorems, TLAPS

-----------------------------------------------------------------------------
(* Arithmetic: a sum or difference that leaves the numbers once.           *)
LEMMA DivMod ==
  ASSUME NEW n \in Nat \ {0}, NEW a \in Int
  PROVE  a = n * (a \div n) + (a % n) /\ a % n \in 0 .. n - 1 /\ a \div n \in Int
  OBVIOUS

LEMMA ModIs ==
  ASSUME NEW n \in Nat \ {0}, NEW a \in Int, NEW k \in Int, NEW r \in 0 .. n - 1,
         a = n * k + r
  PROVE  a % n = r
<1> DEFINE q == a \div n
           m == a % n
<1>1. a = n * q + m /\ m \in 0 .. n - 1 /\ q \in Int
  BY DivMod
<1> HIDE DEF q, m
<1>2. n * (q - k) = r - m /\ n * (k - q) = m - r /\ q - k \in Int /\ k - q \in Int
  BY <1>1
<1>3. CASE q - k >= 1
  <2>1. n * (q - k) >= n
    BY <1>3, <1>2
  <2> QED BY <1>1, <1>2, <2>1
<1>4. CASE k - q >= 1
  <2>1. n * (k - q) >= n
    BY <1>4, <1>2
  <2> QED BY <1>1, <1>2, <2>1
<1>5. CASE q = k
  BY <1>1, <1>5 DEF m
<1> QED BY <1>1, <1>3, <1>4, <1>5

(* Within the numbers, and one or two times beyond them.                   *)
LEMMA ModSmall ==
  ASSUME NEW n \in Nat \ {0}, NEW a \in 0 .. n - 1
  PROVE  a % n = a /\ (a + n) % n = a /\ (a + 2 * n) % n = a /\ (a - n) % n = a
<1>1. a = n * 0 + a /\ a + n = n * 1 + a /\ a + 2 * n = n * 2 + a /\ a - n = n * (-1) + a
  OBVIOUS
<1> QED BY <1>1, ModIs

(* The constants, as numbers.                                              *)
LEMMA Sizes_ ==
  /\ Space \in Nat \ {0} /\ Mask \in Nat \ {0} /\ Base \in Nat \ {0} /\ Top \in Nat
  /\ Base < Mask /\ Mask <= 2 * Base /\ Base + 4 <= Top /\ Top <= 2 * Base /\ 4 <= Base
  /\ JokerLow \in Nat /\ JokerHigh \in Nat /\ JokerPad \in Nat
  /\ JokerLow <= JokerPad /\ JokerPad <= JokerHigh
  /\ 3 * Mask <= JokerLow /\ JokerHigh < Space - 1 /\ Space <= JokerLow + Mask
  /\ ValueLimit \in Nat /\ 1 <= ValueLimit /\ ValueLimit < Space
  /\ JokerAddress \in 0 .. Space - 1
  /\ Typed \subseteq 0 .. Space - 1 /\ Values \subseteq 0 .. Space - 1
  /\ Digits \in Nat
  /\ Base % 4 = 0 /\ Top % 4 = 0 /\ Space % 4 = 0
  BY CodeFileAssumption, AlignedAssumption

-----------------------------------------------------------------------------
(* A line whose address is of its kind.                                    *)
Fits(l) ==
  /\ l.kind = "dma" => l.addr = DMA
  /\ l.kind = "joker" => l.addr \in JokerLow .. JokerHigh
  /\ l.kind \in {"plain", "cwc"} => l.addr \in Base .. Base + Mask - 1
LineOK(l) == l \in Line /\ (l.size # "uword" => Fits(l))

(* What any address in a file is read as fits its kind.                    *)
LEMMA ReadFits ==
  ASSUME NEW a \in 0 .. Space - 1
  PROVE  /\ KindOf(a) \in {"plain", "cwc", "joker", "dma"}
         /\ ReadAddress(a) \in 0 .. Space - 1
         /\ KindOf(a) = "dma" => ReadAddress(a) = DMA
         /\ KindOf(a) = "joker" => ReadAddress(a) \in JokerLow .. JokerHigh
         /\ KindOf(a) \in {"plain", "cwc"} => ReadAddress(a) \in Base .. Base + Mask - 1
         /\ KindOf(a) = "plain" => ReadAddress(a) < 2 * Base
<1> DEFINE m == a % Mask
<1>1. m \in 0 .. Mask - 1
  BY Sizes_, DivMod
<1>2. ReadAddress(a) = IF KindOf(a) \in {"dma", "joker"} THEN a
                       ELSE IF KindOf(a) = "cwc" \/ m < Base THEN m + Base ELSE m
  BY DEF ReadAddress
<1> HIDE DEF m
<1>3. KindOf(a) = "dma" => a = DMA
  BY DEF KindOf
<1>4. KindOf(a) = "joker" => JokerLow <= a /\ a <= JokerHigh
  BY DEF KindOf
<1>5. KindOf(a) \in {"plain", "cwc", "joker", "dma"}
  BY DEF KindOf
<1> QED BY <1>1, <1>2, <1>3, <1>4, <1>5, Sizes_ DEF DMA

LEMMA ReadOK ==
  ASSUME NEW r, r.addr \in 0 .. Space - 1, r.val \in 0 .. Space - 1,
         r.size \in Sizes \cup {"uword"}, r.freeze \in BOOLEAN
  PROVE  LineOK(ReadLine(r)) /\ (ReadLine(r).kind = "plain" => ReadLine(r).addr < 2 * Base)
<1>1. ReadLine(r) \in Line
  BY ReadFits DEF ReadLine, Line
<1> QED BY <1>1, ReadFits DEF ReadLine, LineOK, Fits

-----------------------------------------------------------------------------
(* The address of a line that fits is read as it was written, one kind     *)
(* after the other.                                                        *)
LEMMA AddressReads ==
  ASSUME NEW l \in Line, Fits(l), l.kind = "plain" => l.addr < 2 * Base
  PROVE  /\ KindOf(AddressText(l)) = l.kind
         /\ ReadAddress(AddressText(l)) = l.addr
         /\ AddressText(l) \in 0 .. Space - 1
<1>1. /\ l.kind \in {"plain", "cwc", "joker", "dma"} /\ l.addr \in 0 .. Space - 1
      /\ l.addr \in Int
  BY Sizes_ DEF Line
<1>2. CASE l.kind = "dma"
  <2>1. AddressText(l) = DMA /\ l.addr = DMA
    BY <1>2 DEF Fits, AddressText
  <2> QED BY <1>1, <1>2, <2>1 DEF KindOf, ReadAddress
<1>3. CASE l.kind = "joker"
  <2>1. AddressText(l) = l.addr /\ l.addr \in JokerLow .. JokerHigh
    BY <1>3 DEF Fits, AddressText
  <2>2. KindOf(l.addr) = "joker"
    BY <2>1, Sizes_ DEF KindOf, DMA
  <2> QED BY <1>1, <1>3, <2>1, <2>2 DEF ReadAddress
<1>4. CASE l.kind = "cwc"
  <2> DEFINE d == l.addr - Base
  <2>1. l.addr \in Base .. Base + Mask - 1
    BY <1>4 DEF Fits
  <2>2. d \in 0 .. Mask - 1 /\ d + 2 * Mask \in 0 .. Space - 1
    BY <2>1, Sizes_
  <2>3. (d + 2 * Mask) % Space = d + 2 * Mask /\ (d + 2 * Mask) % Mask = d
    BY <2>2, Sizes_, ModSmall
  <2>4. AddressText(l) = d + 2 * Mask
    BY <1>4, <2>3 DEF AddressText
  <2> HIDE DEF d
  <2>5. KindOf(d + 2 * Mask) = "cwc"
    BY <2>2, Sizes_ DEF KindOf, DMA
  <2>6. ReadAddress(d + 2 * Mask) = d + Base
    BY <2>3, <2>5 DEF ReadAddress
  <2> QED BY <1>1, <1>4, <2>2, <2>4, <2>5, <2>6, Sizes_ DEF d
<1>5. CASE l.kind = "plain"
  <2> DEFINE d == l.addr - Base
  <2>1. l.addr \in Base .. Base + Mask - 1 /\ l.addr < 2 * Base
    BY <1>5 DEF Fits
  <2>2. d \in 0 .. Base - 1 /\ d \in 0 .. Mask - 1 /\ d \in 0 .. Space - 1
    BY <2>1, Sizes_
  <2>3. d % Space = d /\ d % Mask = d
    BY <2>2, Sizes_, ModSmall
  <2>4. AddressText(l) = d
    BY <1>5, <2>3 DEF AddressText
  <2> HIDE DEF d
  <2>5. KindOf(d) = "plain"
    BY <2>2, Sizes_ DEF KindOf, DMA
  <2>6. ReadAddress(d) = d + Base
    <3>1. ReadAddress(d) = IF d % Mask < Base THEN (d % Mask) + Base ELSE d % Mask
      BY <2>5 DEF ReadAddress
    <3> QED BY <2>2, <2>3, <3>1, Sizes_
  <2> QED BY <1>1, <1>5, <2>2, <2>4, <2>5, <2>6, Sizes_ DEF d
<1> QED BY <1>1, <1>2, <1>3, <1>4, <1>5

LEMMA LineReloads ==
  ASSUME NEW l \in Line, Fits(l), l.kind = "plain" => l.addr < 2 * Base
  PROVE  ReadLine(RowOf(l)) = Reloaded(l)
<1>3. RowOf(l).addr = AddressText(l) /\ RowOf(l).size = l.size
      /\ RowOf(l).val = l.val % Holds[l.size] /\ RowOf(l).freeze = FALSE
  BY DEF RowOf
<1> QED BY <1>3, AddressReads DEF ReadLine, Reloaded

(* Whatever a file says of a line's address, size and value: once it was   *)
(* read, saving and loading it again (956-990, 1138-1190) changes only its *)
(* freezing mark and the digits its size does not have.                    *)
THEOREM LoadedReloads ==
  ASSUME NEW r, r.addr \in 0 .. Space - 1, r.val \in 0 .. Space - 1,
         r.size \in Sizes, r.freeze \in BOOLEAN
  PROVE  ReadLine(RowOf(ReadLine(r))) = Reloaded(ReadLine(r))
<1>1. LineOK(ReadLine(r)) /\ (ReadLine(r).kind = "plain" => ReadLine(r).addr < 2 * Base)
  BY ReadOK
<1>2. ReadLine(r).size # "uword"
  BY DEF ReadLine, Sizes
<1> QED BY <1>1, <1>2, LineReloads DEF LineOK

-----------------------------------------------------------------------------
(* One edit of a line: what it makes is a line of its kind, and as aligned *)
(* as the line was.                                                        *)
Good(l, n) == LineOK(n) /\ (Aligned(l) => Aligned(n))

LEMMA WrapsDown ==
  ASSUME NEW n \in Nat \ {0}, NEW a \in -n .. n - 1
  PROVE  a % n \in {a, a + n} /\ a % n \in 0 .. n - 1
<1>1. CASE a >= 0
  <2>1. a \in 0 .. n - 1
    BY <1>1
  <2> QED BY <2>1, ModSmall
<1>2. CASE a < 0
  <2>1. a + n \in 0 .. n - 1 /\ a = n * (-1) + (a + n) /\ a \in Int
    BY <1>2
  <2>2. a % n = a + n
    BY <2>1, ModIs
  <2> QED BY <2>1, <2>2
<1> QED BY <1>1, <1>2

LEMMA WrapsOnce ==
  ASSUME NEW n \in Nat \ {0}, NEW a \in 0 .. n - 1, NEW s \in 0 .. n
  PROVE  /\ (a + s) % n \in {a + s, a + s - n} /\ (a + s) % n \in 0 .. n - 1
         /\ (a - s) % n \in {a - s, a - s + n} /\ (a - s) % n \in 0 .. n - 1
<1>1. a + s \in 0 .. 2 * n - 1 /\ a - s \in -n .. n - 1
  OBVIOUS
<1>2. (a + s) % n \in {a + s, a + s - n} /\ (a + s) % n \in 0 .. n - 1
  <2>1. CASE a + s < n
    <3>1. a + s \in 0 .. n - 1
      BY <2>1
    <3>2. (a + s) % n = a + s
      BY <3>1, ModSmall
    <3> QED BY <3>1, <3>2
  <2>2. CASE a + s >= n
    <3>1. a + s - n \in 0 .. n - 1 /\ a + s = n * 1 + (a + s - n) /\ a + s \in Int
      BY <2>2
    <3>2. (a + s) % n = a + s - n
      BY <3>1, ModIs
    <3> QED BY <3>1, <3>2
  <2> QED BY <2>1, <2>2
<1>3. (a - s) % n \in {a - s, a - s + n} /\ (a - s) % n \in 0 .. n - 1
  BY <1>1, WrapsDown
<1> QED BY <1>2, <1>3

(* A new address and value in a line of any kind.                          *)
LEMMA RemadeGood ==
  ASSUME NEW l \in Line, LineOK(l), NEW a \in 0 .. Space - 1, NEW v \in 0 .. Space - 1,
         l.kind = "dma" => a = l.addr,
         l.kind = "joker" /\ l.size # "uword" => a \in JokerLow .. JokerHigh,
         l.kind \in {"plain", "cwc"} /\ l.size # "uword" => a \in Base .. Base + Mask - 1,
         l.kind \in {"plain", "cwc"} /\ l.size = "word" /\ l.addr % 2 = 0 => a % 2 = 0,
         l.kind \in {"plain", "cwc"} /\ l.size = "dword" /\ l.addr % 4 = 0 => a % 4 = 0
  PROVE  Good(l, [l EXCEPT !.addr = a, !.val = v])
<1> DEFINE n == [l EXCEPT !.addr = a, !.val = v]
<1>1. n \in Line /\ n.kind = l.kind /\ n.size = l.size /\ n.addr = a
  BY DEF Line
<1> HIDE DEF n
<1>2. LineOK(n)
  BY <1>1 DEF LineOK, Fits
<1>3. Aligned(l) => Aligned(n)
  BY <1>1 DEF Aligned
<1> QED BY <1>2, <1>3 DEF Good, n

LEMMA Steps ==
  ASSUME NEW l \in Line, NEW x \in Column
  PROVE  /\ Step(l, x) \in 1 .. Mask
         /\ l.kind # "joker" /\ l.size = "dword" => Step(l, x) % 4 = 0
         /\ l.kind # "joker" /\ l.size = "word" => Step(l, x) % 2 = 0
<1>1. Weight[x] \in 1 .. Mask
  BY CodeFileAssumption DEF Column
<1>2. x # Digits - 1 => Weight[x] % 4 = 0
  BY Sizes_, AlignedAssumption DEF Column
<1>3. x # Digits - 1 => Weight[x] % 2 = 0
  BY <1>1, <1>2, Sizes_
<1> QED BY <1>1, <1>2, <1>3, Sizes_ DEF Step

LEMMA InMemoryFits ==
  ASSUME NEW a \in Int
  PROVE  /\ InMemory(a) \in Base .. Base + Mask - 1 /\ InMemory(a) \in 0 .. Space - 1
         /\ a % 4 = 0 => InMemory(a) % 4 = 0
         /\ a % 2 = 0 => InMemory(a) % 2 = 0
<1>1. (Top - 4) % 4 = 0 /\ (Top - 4) % 2 = 0 /\ Base % 4 = 0 /\ Base % 2 = 0
  BY Sizes_
<1> QED BY <1>1, Sizes_ DEF InMemory

LEMMA Multiples ==
  ASSUME NEW a \in Int, NEW b \in Int, NEW c \in Int,
         NEW e \in {a + b, a + b - c, a - b, a - b + c}
  PROVE  /\ a % 2 = 0 /\ b % 2 = 0 /\ c % 2 = 0 => e % 2 = 0
         /\ a % 4 = 0 /\ b % 4 = 0 /\ c % 4 = 0 => e % 4 = 0
<1>1. e \in Int
  OBVIOUS
<1>2. ASSUME a % 2 = 0, b % 2 = 0, c % 2 = 0 PROVE e % 2 = 0
  <2>1. a = 2 * (a \div 2) /\ b = 2 * (b \div 2) /\ c = 2 * (c \div 2)
    BY <1>2
  <2> QED BY <1>1, <2>1
<1>3. ASSUME a % 4 = 0, b % 4 = 0, c % 4 = 0 PROVE e % 4 = 0
  <2>1. a = 4 * (a \div 4) /\ b = 4 * (b \div 4) /\ c = 4 * (c \div 4)
    BY <1>3
  <2> QED BY <1>1, <2>1
<1> QED BY <1>2, <1>3

(* The address after UP and after DOWN.                                    *)
LEMMA AddressMoves ==
  ASSUME NEW l \in Line, LineOK(l), NEW x \in Column, NEW a \in {AddressUp(l, x), AddressDown(l, x)}
  PROVE  /\ a \in 0 .. Space - 1
         /\ l.kind = "joker" /\ l.size # "uword" => a \in JokerLow .. JokerHigh
         /\ l.kind # "joker" => a \in Base .. Base + Mask - 1
         /\ l.kind # "joker" /\ l.size = "word" /\ l.addr % 2 = 0 => a % 2 = 0
         /\ l.kind # "joker" /\ l.size = "dword" /\ l.addr % 4 = 0 => a % 4 = 0
<1> DEFINE s == Step(l, x)
           u == (l.addr + s) % Space
           d == (l.addr - s) % Space
<1>1. s \in 1 .. Mask /\ l.addr \in 0 .. Space - 1 /\ l.kind \in {"plain", "cwc", "joker", "dma"}
  BY Steps DEF Line
<1>2. /\ l.kind # "joker" /\ l.size = "dword" => s % 4 = 0
      /\ l.kind # "joker" /\ l.size = "word" => s % 2 = 0
  BY Steps
<1>3. AddressUp(l, x) = IF l.kind = "joker" THEN IF u > LastJoker(l) \/ u < Mask THEN LastJoker(l) ELSE u
                        ELSE InMemory(u)
  BY DEF AddressUp
<1>4. AddressDown(l, x) = IF l.kind = "joker" THEN IF d < JokerLow THEN JokerLow ELSE d ELSE InMemory(d)
  BY DEF AddressDown
<1> HIDE DEF s
<1>5. Space \in Nat \ {0} /\ s \in 0 .. Space
  BY <1>1, Sizes_
<1>6. /\ u \in {l.addr + s, l.addr + s - Space} /\ u \in 0 .. Space - 1
      /\ d \in {l.addr - s, l.addr - s + Space} /\ d \in 0 .. Space - 1
  BY <1>1, <1>5, WrapsOnce
<1> HIDE DEF u, d
<1>7. CASE l.kind = "joker"
  <2>1. LastJoker(l) \in JokerLow .. JokerHigh /\ LastJoker(l) \in 0 .. Space - 1
    BY Sizes_ DEF LastJoker
  <2>2. a \in 0 .. Space - 1
    BY <1>3, <1>4, <1>6, <1>7, <2>1, Sizes_
  <2>3. CASE l.size # "uword"
    <3>1. l.addr \in JokerLow .. JokerHigh
      BY <1>7, <2>3 DEF LineOK, Fits
    <3>2. AddressUp(l, x) \in JokerLow .. JokerHigh
      <4>1. u < Mask \/ u = l.addr + s
        BY <1>1, <1>6, <3>1, Sizes_
      <4>2. u >= Mask => u \in Int /\ JokerLow <= u
        BY <1>1, <1>6, <3>1, <4>1, Sizes_
      <4> QED BY <1>3, <1>6, <1>7, <2>1, <4>2, Sizes_
    <3>3. AddressDown(l, x) \in JokerLow .. JokerHigh
      <4>1. d = l.addr - s
        BY <1>1, <1>6, <3>1, Sizes_
      <4> QED BY <1>1, <1>4, <1>7, <3>1, <4>1, Sizes_
    <3> QED BY <1>7, <2>2, <3>2, <3>3
  <2> QED BY <1>7, <2>2, <2>3
<1>8. CASE l.kind # "joker"
  <2>1. PICK e \in {u, d} : a = InMemory(e)
    BY <1>3, <1>4, <1>8
  <2>2. e \in Int
    BY <1>6, <2>1
  <2>3. a \in Base .. Base + Mask - 1 /\ a \in 0 .. Space - 1
        /\ (e % 4 = 0 => a % 4 = 0) /\ (e % 2 = 0 => a % 2 = 0)
    BY <2>1, <2>2, InMemoryFits
  <2>4. ASSUME l.size = "word", l.addr % 2 = 0 PROVE e % 2 = 0
    <3>1. s % 2 = 0 /\ Space % 2 = 0 /\ s \in Int /\ Space \in Int /\ l.addr \in Int
      BY <1>1, <1>2, <1>8, <2>4, Sizes_
    <3>2. e \in {l.addr + s, l.addr + s - Space, l.addr - s, l.addr - s + Space}
      BY <1>6, <2>1
    <3> QED BY <2>4, <3>1, <3>2, Multiples
  <2>5. ASSUME l.size = "dword", l.addr % 4 = 0 PROVE e % 4 = 0
    <3>1. s % 4 = 0 /\ Space % 4 = 0 /\ s \in Int /\ Space \in Int /\ l.addr \in Int
      BY <1>1, <1>2, <1>8, <2>5, Sizes_
    <3>2. e \in {l.addr + s, l.addr + s - Space, l.addr - s, l.addr - s + Space}
      BY <1>6, <2>1
    <3> QED BY <2>5, <3>1, <3>2, Multiples
  <2> QED BY <1>8, <2>3, <2>4, <2>5
<1> QED BY <1>7, <1>8

LEMMA ValueMoves ==
  ASSUME NEW l \in Line, NEW v \in 0 .. Space - 1
  PROVE  UpValue(l, v) \in 0 .. Space - 1 /\ DownValue(l, v) \in 0 .. Space - 1
  BY Sizes_ DEF UpValue, DownValue

-----------------------------------------------------------------------------
(* Edit after edit.                                                        *)
LEMMA ResizeGood ==
  ASSUME NEW l, LineOK(l), l.kind \in {"plain", "cwc"}
  PROVE  Good(l, [l EXCEPT !.size = Resized(l)])
<1> DEFINE n == [l EXCEPT !.size = Resized(l)]
<1>1. l \in Line
  BY DEF LineOK
<1>2. Resized(l) \in Sizes \cup {"uword"} /\ (Resized(l) = "uword" <=> l.size = "uword")
  BY <1>1 DEF Resized, Line, Sizes
<1>3. n \in Line /\ n.kind = l.kind /\ n.addr = l.addr /\ n.size = Resized(l)
  BY <1>1, <1>2 DEF Line
<1> HIDE DEF n
<1>4. LineOK(n)
  BY <1>2, <1>3 DEF LineOK, Fits
<1>5. Aligned(l) => Aligned(n)
  BY <1>3 DEF Aligned, Resized
<1> QED BY <1>4, <1>5 DEF Good, n

LEMMA AddressGood ==
  ASSUME NEW l, LineOK(l), NEW x \in Column
  PROVE  /\ Good(l, [l EXCEPT !.addr = IF l.kind = "dma" THEN l.addr ELSE AddressUp(l, x),
                              !.val = UpValue(l, @)])
         /\ Good(l, [l EXCEPT !.addr = IF l.kind = "dma" THEN l.addr ELSE AddressDown(l, x),
                              !.val = DownValue(l, @)])
<1>1. l \in Line /\ l.addr \in 0 .. Space - 1 /\ l.val \in 0 .. Space - 1
  BY DEF LineOK, Line
<1>2. UpValue(l, l.val) \in 0 .. Space - 1 /\ DownValue(l, l.val) \in 0 .. Space - 1
  BY <1>1, ValueMoves
<1>3. ASSUME NEW a \in {AddressUp(l, x), AddressDown(l, x)}, NEW v \in 0 .. Space - 1
      PROVE  Good(l, [l EXCEPT !.addr = IF l.kind = "dma" THEN l.addr ELSE a, !.val = v])
  <2> DEFINE b == IF l.kind = "dma" THEN l.addr ELSE a
  <2>1. /\ b \in 0 .. Space - 1
        /\ l.kind = "dma" => b = l.addr
        /\ l.kind = "joker" /\ l.size # "uword" => b \in JokerLow .. JokerHigh
        /\ l.kind \in {"plain", "cwc"} => b \in Base .. Base + Mask - 1
        /\ l.kind \in {"plain", "cwc"} /\ l.size = "word" /\ l.addr % 2 = 0 => b % 2 = 0
        /\ l.kind \in {"plain", "cwc"} /\ l.size = "dword" /\ l.addr % 4 = 0 => b % 4 = 0
    BY <1>1, <1>3, AddressMoves
  <2> HIDE DEF b
  <2>2. Good(l, [l EXCEPT !.addr = b, !.val = v])
    BY <1>1, <2>1, RemadeGood
  <2> QED BY <2>2 DEF b
<1> QED BY <1>2, <1>3

(* A new value alone.                                                      *)
LEMMA ValueGood ==
  ASSUME NEW l, LineOK(l), NEW v \in 0 .. Space - 1
  PROVE  Good(l, [l EXCEPT !.val = v])
<1> DEFINE n == [l EXCEPT !.val = v]
<1>1. n \in Line /\ n.kind = l.kind /\ n.addr = l.addr /\ n.size = l.size
  BY DEF LineOK, Line
<1> HIDE DEF n
<1>2. LineOK(n) /\ (Aligned(l) => Aligned(n))
  BY <1>1 DEF LineOK, Fits, Aligned
<1> QED BY <1>2 DEF Good, n

(* The copy menu.                                                          *)
LEMMA KindGood ==
  ASSUME NEW l, LineOK(l), NEW kind \in {"plain", "cwc"},
         NEW a, a = IF l.addr >= JokerLow THEN Base ELSE l.addr
  PROVE  /\ l.size = "uword" => Good(l, [l EXCEPT !.addr = a])
         /\ l.size # "uword" => Good(l, [l EXCEPT !.addr = a, !.kind = kind, !.freeze = FALSE])
<1>1. l \in Line /\ l.addr \in 0 .. Space - 1 /\ a \in 0 .. Space - 1
  BY Sizes_ DEF LineOK, Line
<1>2. ASSUME l.size = "uword" PROVE Good(l, [l EXCEPT !.addr = a])
  <2> DEFINE n == [l EXCEPT !.addr = a]
  <2>1. n \in Line /\ n.size = "uword"
    BY <1>1, <1>2 DEF Line
  <2> HIDE DEF n
  <2> QED BY <2>1 DEF Good, LineOK, Aligned, n
<1>3. ASSUME l.size # "uword"
      PROVE  Good(l, [l EXCEPT !.addr = a, !.kind = kind, !.freeze = FALSE])
  <2> DEFINE n == [l EXCEPT !.addr = a, !.kind = kind, !.freeze = FALSE]
  <2>1. n \in Line /\ n.kind = kind /\ n.addr = a /\ n.size = l.size
    BY <1>1 DEF Line
  <2> HIDE DEF n
  <2>2. a = Base \/ (a = l.addr /\ l.kind \in {"plain", "cwc"} /\ l.addr \in Base .. Base + Mask - 1)
    BY <1>1, <1>3, Sizes_ DEF LineOK, Fits, Line, DMA
  <2>3. a \in Base .. Base + Mask - 1
    BY <2>2, Sizes_
  <2>4. LineOK(n)
    BY <2>1, <2>3 DEF LineOK, Fits
  <2>5. Base % 4 = 0 /\ Base % 2 = 0
    BY Sizes_
  <2>6. Aligned(l) => Aligned(n)
    BY <2>1, <2>2, <2>5 DEF Aligned
  <2> QED BY <2>4, <2>6 DEF Good, n
<1> QED BY <1>2, <1>3

LEMMA PointerGood ==
  ASSUME NEW l, LineOK(l)
  PROVE  Good(l, [l EXCEPT !.kind = "dma", !.addr = DMA, !.size = "dword", !.freeze = FALSE])
<1> DEFINE n == [l EXCEPT !.kind = "dma", !.addr = DMA, !.size = "dword", !.freeze = FALSE]
<1>0. DMA \in 0 .. Space - 1 /\ "dword" \in Sizes
  BY Sizes_ DEF DMA, Sizes
<1>1. n \in Line /\ n.kind = "dma" /\ n.addr = DMA
  BY <1>0 DEF LineOK, Line
<1> HIDE DEF n
<1> QED BY <1>1 DEF Good, LineOK, Fits, Aligned, n

LEMMA JokerGood ==
  ASSUME NEW l, LineOK(l), NEW v \in {0, JokerAddress}
  PROVE  Good(l, [kind |-> "joker", addr |-> JokerLow, size |-> "dword", val |-> v, freeze |-> FALSE])
<1> DEFINE n == [kind |-> "joker", addr |-> JokerLow, size |-> "dword", val |-> v, freeze |-> FALSE]
<1>1. n \in Line /\ n.kind = "joker" /\ n.addr \in JokerLow .. JokerHigh
  BY Sizes_ DEF Line, Sizes
<1> HIDE DEF n
<1> QED BY <1>1 DEF Good, LineOK, Fits, Aligned, n

LEMMA PasteGood ==
  ASSUME NEW l, LineOK(l), NEW a \in Copied
  PROVE  /\ l.kind \in {"dma", "joker"} => Good(l, [l EXCEPT !.val = a - Base])
         /\ l.kind \notin {"dma", "joker"} => Good(l, [l EXCEPT !.addr = a])
<1>1. a \in Base .. Base + Mask - 1 /\ a % 4 = 0 /\ a - Base \in 0 .. Space - 1
      /\ a \in 0 .. Space - 1 /\ a % 2 = 0
  BY Sizes_ DEF Copied
<1>2. l.kind \in {"dma", "joker"} => Good(l, [l EXCEPT !.val = a - Base])
  BY <1>1, ValueGood
<1>3. ASSUME l.kind \notin {"dma", "joker"} PROVE Good(l, [l EXCEPT !.addr = a])
  <2> DEFINE n == [l EXCEPT !.addr = a]
  <2>1. n \in Line /\ n.kind = l.kind /\ n.addr = a /\ n.size = l.size
    BY <1>1 DEF LineOK, Line
  <2> HIDE DEF n
  <2> QED BY <1>1, <1>3, <2>1 DEF Good, LineOK, Fits, Aligned, n
<1> QED BY <1>2, <1>3

-----------------------------------------------------------------------------
(* Every line is one of its kind.                                          *)
IInv == lines \in [DOMAIN lines -> Line] /\ \A i \in DOMAIN lines : LineOK(lines[i])

LEMMA EditsGood ==
  ASSUME IInv, EditLine
  PROVE  \E i \in DOMAIN lines : \E l : lines' = [lines EXCEPT ![i] = l] /\ Good(lines[i], l)
<1> USE DEF Edit
<1>0. PICK i \in DOMAIN lines :
        \/ Resize(i) \/ EditAddress(i) \/ EditValue(i)
        \/ MakeKind(i, "plain") \/ MakeKind(i, "cwc") \/ MakePointer(i) \/ MakeJoker(i)
        \/ PasteAddress(i) \/ PasteValue(i)
  BY DEF EditLine
<1> DEFINE l0 == lines[i]
<1>a. LineOK(l0) /\ l0 \in Line /\ l0.val \in 0 .. Space - 1
  BY DEF IInv, LineOK, Line
<1>b. \A v \in Values : v \in 0 .. Space - 1
  BY Sizes_
<1> SUFFICES \E l : lines' = [lines EXCEPT ![i] = l] /\ Good(l0, l)
  OBVIOUS
<1>1. CASE Resize(i)
  BY <1>1, <1>a, ResizeGood DEF Resize
<1>2. CASE EditAddress(i)
  <2>1. PICK x \in Column :
          \/ lines' = [lines EXCEPT ![i] =
                 [l0 EXCEPT !.addr = IF l0.kind = "dma" THEN l0.addr ELSE AddressUp(l0, x),
                            !.val = UpValue(l0, @)]]
          \/ lines' = [lines EXCEPT ![i] =
                 [l0 EXCEPT !.addr = IF l0.kind = "dma" THEN l0.addr ELSE AddressDown(l0, x),
                            !.val = DownValue(l0, @)]]
    BY <1>2 DEF EditAddress
  <2> HIDE DEF l0
  <2> QED BY <1>a, <2>1, AddressGood
<1>3. CASE EditValue(i)
  <2>1. PICK v \in Values \cup {l0.val} :
          lines' = [lines EXCEPT ![i] = [l0 EXCEPT !.val = UpValue(l0, v)]]
          \/ lines' = [lines EXCEPT ![i] = [l0 EXCEPT !.val = DownValue(l0, v)]]
    BY <1>3 DEF EditValue
  <2> HIDE DEF l0
  <2>2. UpValue(l0, v) \in 0 .. Space - 1 /\ DownValue(l0, v) \in 0 .. Space - 1
    BY <1>a, <1>b, <2>1, ValueMoves
  <2> QED BY <1>a, <2>1, <2>2, ValueGood
<1>4. CASE MakeKind(i, "plain") \/ MakeKind(i, "cwc")
  <2>1. PICK kind \in {"plain", "cwc"} :
          \E a : /\ a = IF l0.addr >= JokerLow THEN Base ELSE l0.addr
                 /\ lines' = [lines EXCEPT ![i] =
                       IF l0.size = "uword" THEN [l0 EXCEPT !.addr = a]
                       ELSE [l0 EXCEPT !.addr = a, !.kind = kind, !.freeze = FALSE]]
    BY <1>4 DEF MakeKind
  <2> HIDE DEF l0
  <2> QED BY <1>a, <2>1, KindGood
<1>5. CASE MakePointer(i)
  BY <1>5, <1>a, PointerGood DEF MakePointer
<1>6. CASE MakeJoker(i)
  BY <1>6, <1>a, JokerGood DEF MakeJoker
<1>7. CASE PasteAddress(i)
  <2>1. PICK a \in Copied :
          lines' = [lines EXCEPT ![i] = IF l0.kind \in {"dma", "joker"}
                      THEN [l0 EXCEPT !.val = a - Base] ELSE [l0 EXCEPT !.addr = a]]
    BY <1>7 DEF PasteAddress
  <2> HIDE DEF l0
  <2> QED BY <1>a, <2>1, PasteGood
<1>8. CASE PasteValue(i)
  BY <1>8, <1>a, <1>b, ValueGood DEF PasteValue
<1> QED BY <1>0, <1>1, <1>2, <1>3, <1>4, <1>5, <1>6, <1>7, <1>8

(* Only an edit, a reload or another file changes the lines.               *)
LEMMA OnlyLines ==
  ASSUME Next
  PROVE  Reload \/ LoadOther \/ EditLine \/ lines' = lines
BY DEF Next, TypeLetter, Backspace, ClearName, EditName, Toggle

LEMMA RowReadOK ==
  ASSUME NEW r \in Row PROVE LineOK(ReadLine(r))
<1>1. r.addr \in 0 .. Space - 1 /\ r.val \in 0 .. Space - 1
      /\ r.size \in Sizes \cup {"uword"} /\ r.freeze \in BOOLEAN
  BY Sizes_ DEF Row
<1> QED BY <1>1, ReadOK

LEMMA TablesOK ==
  ASSUME NEW t \in Tables
  PROVE  t \in [DOMAIN t -> Line] /\ \A i \in DOMAIN t : LineOK(t[i])
<1>1. PICK n \in 0 .. MaxLines : t \in [1 .. n -> {ReadLine(r) : r \in Row}]
  BY DEF Tables
<1>2. \A i \in DOMAIN t : LineOK(t[i])
  BY <1>1, RowReadOK
<1> QED BY <1>1, <1>2 DEF LineOK

(* A line that is saved, whatever its address, is read as one of its kind. *)
LEMMA SavedOK ==
  ASSUME NEW l, LineOK(l), l.size # "uword"
  PROVE  LineOK(ReadLine(RowOf(l)))
<1>1. l \in Line /\ l.addr \in 0 .. Space - 1 /\ l.val \in 0 .. Space - 1 /\ l.size \in Sizes
  BY DEF LineOK, Line
<1>2. ASSUME NEW b \in Int, NEW n \in Nat \ {0} PROVE b % n \in 0 .. n - 1
  BY DivMod
<1>3. AddressText(l) \in 0 .. Space - 1
  <2>1. l.addr - Base + 2 * Mask \in Int /\ l.addr - Base \in Int /\ Space \in Nat \ {0}
    BY <1>1, Sizes_
  <2>2. (l.addr - Base + 2 * Mask) % Space \in 0 .. Space - 1 /\ (l.addr - Base) % Space \in 0 .. Space - 1
    BY <1>2, <2>1, Zenon
  <2> QED BY <1>1, <2>2, Zenon DEF AddressText
<1>4. l.val % Holds[l.size] \in 0 .. Space - 1
  <2>1. Holds[l.size] \in 1 .. Space
    BY <1>1, CodeFileAssumption
  <2> DEFINE h == Holds[l.size]
  <2>2. h \in Nat \ {0} /\ h <= Space
    BY <2>1, Sizes_
  <2> HIDE DEF h
  <2>3. l.val % h \in 0 .. h - 1
    <3>1. l.val \in Int
      BY <1>1
    <3> QED BY <1>2, <2>2, <3>1, Zenon
  <2>4. l.val % h \in 0 .. Space - 1
    BY <2>2, <2>3, Sizes_
  <2> QED BY <2>4 DEF h
<1>5. RowOf(l).addr = AddressText(l) /\ RowOf(l).size = l.size
      /\ RowOf(l).val = l.val % Holds[l.size] /\ RowOf(l).freeze = FALSE
  BY DEF RowOf
<1> QED BY <1>1, <1>3, <1>4, <1>5, ReadOK

LEMMA InitIInv ==
  ASSUME Init PROVE IInv
<1>1. CASE edits = "lines"
  BY <1>1, TablesOK DEF Init, IInv
<1>2. CASE edits # "lines"
  BY <1>2 DEF Init, IInv
<1> QED BY <1>1, <1>2

LEMMA NextIInv ==
  ASSUME IInv, [Next]_vars PROVE IInv'
<1>1. CASE EditLine
  <2>1. PICK i \in DOMAIN lines : \E l : lines' = [lines EXCEPT ![i] = l] /\ Good(lines[i], l)
    BY <1>1, EditsGood
  <2> QED BY <2>1 DEF IInv, Good, LineOK
<1>2. CASE Reload
  <2>1. CASE Readable
    <3>1. lines' = [j \in DOMAIN lines |-> ReadLine(RowOf(lines[j]))]
      BY <1>2, <2>1 DEF Reload
    <3>2. \A j \in DOMAIN lines : LineOK(ReadLine(RowOf(lines[j])))
      BY <2>1, SavedOK DEF IInv, Readable
    <3> QED BY <3>1, <3>2 DEF IInv, LineOK
  <2>2. CASE ~Readable
    <3>1. lines' \in Tables
      BY <1>2, <2>2 DEF Reload
    <3> QED BY <3>1, TablesOK DEF IInv
  <2> QED BY <2>1, <2>2
<1>3. CASE LoadOther
  <2>1. lines' \in Tables \/ lines' = lines
    BY <1>3 DEF LoadOther
  <2> QED BY <2>1, TablesOK DEF IInv
<1>4. CASE lines' = lines
  BY <1>4 DEF IInv
<1> QED BY <1>1, <1>2, <1>3, <1>4, OnlyLines DEF vars

LEMMA IInvHolds == Spec => []IInv
<1> QED BY InitIInv, NextIInv, PTL DEF Spec

(* What cheatSave writes of any line, after any edits and reloads, is read *)
(* back by cheatLoad as that line, for files and memories of any size.     *)
THEOREM TableAlwaysReloads == Spec => []TableReloads
<1>1. IInv => TableReloads
  BY LineReloads DEF IInv, TableReloads, LineOK
<1> QED BY <1>1, IInvHolds, PTL

(* No edit takes a half word or a word off its alignment.                  *)
THEOREM AlignmentKept == Spec => AlignedKept
<1>1. ASSUME IInv, [Next]_vars
      PROVE  [EditLine => \A i \in DOMAIN lines : Aligned(lines[i]) => Aligned(lines'[i])]_vars
  <2>1. CASE EditLine
    <3>1. PICK i \in DOMAIN lines : \E l : lines' = [lines EXCEPT ![i] = l] /\ Good(lines[i], l)
      BY <1>1, <2>1, EditsGood
    <3> QED BY <3>1 DEF Good
  <2> QED BY <2>1
<1> QED BY <1>1, IInvHolds, PTL DEF Spec, AlignedKept
-----------------------------------------------------------------------------
(* The header, letter by letter.                                           *)
Char == Letter \cup {"#", "!", ";"}
HeaderState ==
  [name : {n \in Seq(Char) : Len(n) <= NameMax}, marks : Marks,
   naming : BOOLEAN, comment : BOOLEAN]

LEMMA NoHeaderType == NoHeader \in HeaderState
<1>1. <<>> \in Seq(Char) /\ Len(<<>>) = 0 /\ NameMax \in Nat
  BY CodeFileAssumption
<1>2. {} \in Marks
  BY DEF Marks
<1>3. FALSE \in BOOLEAN
  OBVIOUS
<1> QED  BY <1>1, <1>2, <1>3 DEF NoHeader, HeaderState

LEMMA LetterType ==
  ASSUME NEW h \in HeaderState, NEW c \in Char
  PROVE  ReadLetter(h, c) \in HeaderState
<1>1. /\ h.name \in Seq(Char) /\ Len(h.name) <= NameMax /\ Len(h.name) \in Nat
      /\ h.marks \in Marks /\ h.naming \in BOOLEAN /\ h.comment \in BOOLEAN
      /\ h = [name |-> h.name, marks |-> h.marks, naming |-> h.naming, comment |-> h.comment]
  BY DEF HeaderState
<1>2. NameMax \in Nat /\ TRUE \in BOOLEAN /\ FALSE \in BOOLEAN
  BY CodeFileAssumption
<1>3. Marked(h.marks) \in Marks /\ {} \in Marks
  BY <1>1 DEF Marked, Marks
<1>4. <<>> \in Seq(Char) /\ Len(<<>>) = 0 /\ Len(<<>>) <= NameMax
  BY <1>2
<1>5. CASE c = "#" /\ ~h.comment
  BY <1>5, <1>1, <1>2, <1>3, <1>4 DEF ReadLetter, HeaderState
<1>6. CASE c = ";"
  BY <1>6, <1>1, <1>2 DEF ReadLetter, HeaderState
<1>7. CASE c = "!" /\ h.naming
  BY <1>7, <1>1, <1>3 DEF ReadLetter, HeaderState
<1>8. CASE ~(c = "#" /\ ~h.comment) /\ c # ";" /\ ~(c = "!" /\ h.naming)
  <2>1. CASE h.naming /\ Len(h.name) < NameMax
    <3>1. Append(h.name, c) \in Seq(Char) /\ Len(Append(h.name, c)) = Len(h.name) + 1
      BY <1>1
    <3>2. Len(Append(h.name, c)) <= NameMax
      BY <1>1, <1>2, <2>1, <3>1
    <3>3. ReadLetter(h, c) = [h EXCEPT !.name = Append(h.name, c)]
      BY <1>8, <2>1 DEF ReadLetter
    <3> QED  BY <3>1, <3>2, <3>3, <1>1 DEF HeaderState
  <2>2. CASE ~(h.naming /\ Len(h.name) < NameMax)
    BY <1>8, <2>2 DEF ReadLetter
  <2> QED  BY <2>1, <2>2
<1> QED  BY <1>5, <1>6, <1>7, <1>8

(* Reading a text is one round for each of its letters.                    *)
LEMMA HeaderRounds ==
  ASSUME NEW text \in Seq(Char)
  PROVE  \E r \in [0 .. Len(text) -> HeaderState] :
           /\ r[0] = NoHeader
           /\ \A i \in 1 .. Len(text) : r[i] = ReadLetter(r[i - 1], text[i])
           /\ ReadHeader(text) = r[Len(text)]
<1> DEFINE L == Len(text)
           s0 == NoHeader
           F == [i \in 1 .. L |-> [h \in HeaderState |-> ReadLetter(h, text[i])]]
           Body(g) == [i \in 0 .. L |-> IF i = 0 THEN s0 ELSE ReadLetter(g[i - 1], text[i])]
           r == CHOOSE g : g = Body(g)
<1>1. ReadHeader(text) = r[L]
  BY DEF ReadHeader
<1>2. L \in Nat /\ s0 \in HeaderState
  BY NoHeaderType
<1>3. ClosedUnder(L, HeaderState, F)
  <2>1. \A i \in 1 .. L : text[i] \in Char
    OBVIOUS
  <2> QED  BY <2>1, LetterType DEF ClosedUnder
<1>4. \A i \in 1 .. L : \A h \in HeaderState : F[i][h] = ReadLetter(h, text[i])
  OBVIOUS
<1> HIDE DEF F, L, s0
<1>5. PICK g : IsRounds(g, L, HeaderState, s0, F)
  BY <1>2, <1>3, RoundsExist
<1>6. ASSUME NEW i \in 1 .. L PROVE i - 1 \in 0 .. L /\ i # 0
  BY <1>2
<1>7. \A i \in 1 .. L : g[i] = ReadLetter(g[i - 1], text[i])
  BY <1>4, <1>5, <1>6 DEF IsRounds
<1>8. g = Body(g)
  BY <1>2, <1>5, <1>7 DEF IsRounds
<1>9. r = Body(r)
  <2> HIDE DEF Body
  <2> QED  BY <1>8
<1> HIDE DEF r
<1>10. r[0] = s0 /\ \A i \in 1 .. L : r[i] = ReadLetter(r[i - 1], text[i])
  BY <1>2, <1>9
<1>11. \A i \in 0 .. L : r[i] = g[i]
  <2> DEFINE T == {i \in 0 .. L : r[i] = g[i]}
  <2>1. 0 \in T
    BY <1>2, <1>5, <1>10 DEF IsRounds
  <2>2. \A i \in 1 .. L : i - 1 \in T => i \in T
    BY <1>7, <1>10
  <2> HIDE DEF T
  <2>3. 0 .. L \subseteq T
    BY <1>2, <2>1, <2>2, SetInduction
  <2> QED  BY <2>3 DEF T
<1>12. r \in [0 .. L -> HeaderState]
  BY <1>5, <1>9, <1>11 DEF IsRounds
<1> QED  BY <1>1, <1>10, <1>12 DEF L, s0

LEMMA HeaderType ==
  ASSUME NEW text \in Seq(Char)
  PROVE  ReadHeader(text) \in HeaderState
<1>1. Len(text) \in 0 .. Len(text)
  OBVIOUS
<1> QED  BY <1>1, HeaderRounds

(* After "#" and so many "!", and with a plain letter more.                *)
Reading(n, m) == [name |-> n, marks |-> m, naming |-> TRUE, comment |-> FALSE]
LEMMA MarkReads ==
  /\ ReadLetter(NoHeader, "#") = Reading(<<>>, {})
  /\ ReadLetter(Reading(<<>>, {}), "!") = Reading(<<>>, {"selected"})
  /\ ReadLetter(Reading(<<>>, {"selected"}), "!") = Reading(<<>>, {"constant"})
<1>1. ReadLetter(NoHeader, "#") = Reading(<<>>, {})
  BY DEF ReadLetter, NoHeader, Reading
<1>2. ASSUME NEW m PROVE ReadLetter(Reading(<<>>, m), "!") = Reading(<<>>, Marked(m))
  BY Zenon DEF ReadLetter, Reading
<1>3. Marked({}) = {"selected"} /\ Marked({"selected"}) = {"constant"}
  BY DEF Marked
<1> QED  BY <1>1, <1>2, <1>3, Zenon

LEMMA LetterReads ==
  ASSUME NEW n, NEW m, NEW c \in Letter, Len(n) < NameMax
  PROVE  ReadLetter(Reading(n, m), c) = Reading(Append(n, c), m)
<1>1. c \notin {"#", "!", ";"}
  BY NameAssumption
<1> QED  BY <1>1 DEF ReadLetter, Reading

(* The beginning of a header, and a header.                                *)
MarksText == IF "constant" \in marks THEN <<"#", "!", "!">>
             ELSE IF "selected" \in marks THEN <<"#", "!">> ELSE <<"#">>

LEMMA MarksType == MarksText \in Seq(Char) /\ Len(MarksText) \in 1 .. 3
<1>1. MarksText = <<"#", "!", "!">> \/ MarksText = <<"#", "!">> \/ MarksText = <<"#">>
  BY DEF MarksText
<1>2. "#" \in Char /\ "!" \in Char
  BY DEF Char
<1>3. <<"#", "!", "!">> \in Seq(Char) /\ <<"#", "!">> \in Seq(Char) /\ <<"#">> \in Seq(Char)
  BY <1>2
<1>4. Len(<<"#", "!", "!">>) = 3 /\ Len(<<"#", "!">>) = 2 /\ Len(<<"#">>) = 1
  OBVIOUS
<1>5. MarksText \in Seq(Char)
  BY <1>1, <1>3, Zenon
<1>6. Len(MarksText) = 3 \/ Len(MarksText) = 2 \/ Len(MarksText) = 1
  BY <1>1, <1>4, Zenon
<1> QED  BY <1>5, <1>6

LEMMA HeaderTextType ==
  ASSUME name \in Seq(Char)
  PROVE  HeaderText = MarksText \o name /\ HeaderText \in Seq(Char)
<1>1. HeaderText = MarksText \o name
  BY DEF HeaderText, MarksText
<1> QED  BY <1>1, MarksType

(* What a header of marks and plain letters is read as.                    *)
MarksRead == IF "constant" \in marks THEN {"constant"} ELSE marks
LEMMA NameReads ==
  ASSUME name \in Seq(Letter), Len(name) <= NameMax, marks \in Marks
  PROVE  ReadHeader(HeaderText).name = name /\ ReadHeader(HeaderText).marks = MarksRead
<1> DEFINE first == MarksText
           p == Len(first)
           L == Len(name)
           text == HeaderText
<1>1. first \in Seq(Char) /\ name \in Seq(Char) /\ p \in 1 .. 3 /\ L \in Nat
  <2>1. Letter \subseteq Char
    BY DEF Char
  <2>2. name \in Seq(Char)
    <3> HIDE DEF Char
    <3> QED  BY <2>1, SeqMonotonic
  <2> QED  BY <2>2, MarksType
<1>2. text = first \o name
  BY <1>1, HeaderTextType
<1>3. /\ text \in Seq(Char) /\ Len(text) = p + L
      /\ \A i \in 1 .. p : text[i] = first[i]
      /\ \A k \in 1 .. L : text[p + k] = name[k]
  <2> HIDE DEF first, text
  <2> QED  BY <1>1, <1>2
<1> HIDE DEF text
<1>4. PICK r \in [0 .. Len(text) -> HeaderState] :
        /\ r[0] = NoHeader
        /\ \A i \in 1 .. Len(text) : r[i] = ReadLetter(r[i - 1], text[i])
        /\ ReadHeader(text) = r[Len(text)]
  BY <1>3, HeaderRounds
<1>5. r[p] = Reading(<<>>, MarksRead)
  <2>1. r[1] = Reading(<<>>, {})
    <3>1. text[1] = "#" /\ 1 \in 1 .. Len(text) /\ 1 - 1 = 0
      BY <1>1, <1>3
    <3> QED  BY <3>1, <1>4, MarkReads
  <2>2. CASE "constant" \in marks
    <3>1. first = <<"#", "!", "!">>
      BY <2>2 DEF MarksText
    <3>2. p = 3 /\ first[2] = "!" /\ first[3] = "!"
      BY <3>1
    <3>3. text[2] = "!" /\ text[3] = "!" /\ 2 \in 1 .. Len(text) /\ 3 \in 1 .. Len(text)
      <4> HIDE DEF first, p
      <4> QED  BY <3>2, <1>1, <1>3
    <3>4. r[2] = ReadLetter(r[1], "!") /\ r[3] = ReadLetter(r[2], "!")
      <4>1. 2 - 1 = 1 /\ 3 - 1 = 2
        OBVIOUS
      <4> QED  BY <1>4, <3>3, <4>1
    <3>5. r[3] = Reading(<<>>, {"constant"})
      BY <2>1, <3>4, MarkReads
    <3> QED  BY <2>2, <3>2, <3>5 DEF MarksRead
  <2>3. CASE "constant" \notin marks /\ "selected" \in marks
    <3>1. first = <<"#", "!">>
      BY <2>3 DEF MarksText
    <3>2. p = 2 /\ first[2] = "!"
      BY <3>1
    <3>3. text[2] = "!" /\ 2 \in 1 .. Len(text)
      <4> HIDE DEF first, p
      <4> QED  BY <3>2, <1>1, <1>3
    <3>4. r[2] = ReadLetter(r[1], "!")
      <4>1. 2 - 1 = 1
        OBVIOUS
      <4> QED  BY <1>4, <3>3, <4>1
    <3>5. marks = {"selected"}
      BY <2>3 DEF Marks
    <3> QED  BY <2>1, <2>3, <3>2, <3>4, <3>5, MarkReads DEF MarksRead
  <2>4. CASE "constant" \notin marks /\ "selected" \notin marks
    <3>1. first = <<"#">>
      BY <2>4 DEF MarksText
    <3>2. p = 1
      BY <3>1
    <3>3. marks = {}
      BY <2>4 DEF Marks
    <3> QED  BY <2>1, <2>4, <3>2, <3>3 DEF MarksRead
  <2> QED  BY <2>2, <2>3, <2>4
<1> HIDE DEF p, first
<1> DEFINE T == {k \in 0 .. L : r[p + k] = Reading(SubSeq(name, 1, k), MarksRead)}
<1>6. 0 \in T
  <2>1. SubSeq(name, 1, 0) = <<>> /\ p + 0 = p /\ 0 \in 0 .. L
    BY <1>1
  <2> QED  BY <1>5, <2>1
<1>7. ASSUME NEW k \in 1 .. L, k - 1 \in T PROVE k \in T
  <2> DEFINE before == SubSeq(name, 1, k - 1)
  <2>1. r[p + (k - 1)] = Reading(before, MarksRead)
    BY <1>7
  <2>2. p + k \in 1 .. Len(text) /\ (p + k) - 1 = p + (k - 1) /\ text[p + k] = name[k]
    BY <1>1, <1>3
  <2>3. r[p + k] = ReadLetter(Reading(before, MarksRead), name[k])
    BY <1>4, <2>1, <2>2
  <2>4. name[k] \in Letter
    OBVIOUS
  <2>5. Len(before) = k - 1 /\ Len(before) < NameMax
    BY <1>1, CodeFileAssumption
  <2>6. Append(before, name[k]) = SubSeq(name, 1, k)
    BY <1>1
  <2> HIDE DEF before
  <2>7. r[p + k] = Reading(Append(before, name[k]), MarksRead)
    BY <2>3, <2>4, <2>5, LetterReads
  <2>8. k \in 0 .. L
    OBVIOUS
  <2> QED  BY <2>6, <2>7, <2>8
<1>8. L \in T
  <2> HIDE DEF T
  <2>1. 0 .. L \subseteq T
    BY <1>1, <1>6, <1>7, SetInduction
  <2> QED  BY <1>1, <2>1
<1>9. SubSeq(name, 1, L) = name
  OBVIOUS
<1>10. r[Len(text)] = Reading(name, MarksRead)
  BY <1>3, <1>8, <1>9
<1> QED  BY <1>4, <1>10 DEF text, Reading

-----------------------------------------------------------------------------
(* The types: the lines are a table of the bounded size, the name and the  *)
(* marks are what a header holds or the keyboard makes.                    *)
LEMMA TableType ==
  ASSUME NEW t \in Tables
  PROVE  t \in Seq(Line) /\ Len(t) <= MaxLines
<1>1. PICK n \in 0 .. MaxLines : t \in [1 .. n -> {ReadLine(r) : r \in Row}]
  BY DEF Tables
<1>2. n \in Nat /\ DOMAIN t = 1 .. n
  BY <1>1, CodeFileAssumption
<1>3. t \in [1 .. n -> Line]
  BY <1>1, <1>2, TablesOK
<1>4. t \in Seq(Line) /\ Len(t) = n
  <2> HIDE DEF Line
  <2> QED  BY <1>2, <1>3
<1> QED  BY <1>1, <1>4, CodeFileAssumption

LEMMA HeadersType ==
  ASSUME NEW h \in Headers PROVE h \in HeaderState
<1>1. PICK text \in NamesInFile : h = ReadHeader(<<"#">> \o text)
  BY DEF Headers
<1>2. text \in Seq(Char) /\ "#" \in Char
  BY NameAssumption DEF Char
<1>3. <<"#">> \o text \in Seq(Char)
  <2> HIDE DEF Char
  <2> QED  BY <1>2
<1> QED  BY <1>1, <1>3, HeaderType

HeaderOK == name \in Seq(Char) /\ Len(name) <= KbMax /\ marks \in Marks

LEMMA StateIsOK ==
  ASSUME NEW h \in HeaderState
  PROVE  h.name \in Seq(Char) /\ Len(h.name) <= KbMax /\ h.marks \in Marks
<1>1. h.name \in Seq(Char) /\ Len(h.name) <= NameMax /\ h.marks \in Marks /\ Len(h.name) \in Nat
  BY DEF HeaderState
<1>2. NameMax \in Nat /\ KbMax \in Nat
  BY CodeFileAssumption
<1>3. NameMax <= KbMax
  BY NameAssumption
<1>4. Len(h.name) <= KbMax
  BY <1>1, <1>2, <1>3
<1> QED  BY <1>1, <1>4

LEMMA InitType ==
  ASSUME Init PROVE TypeOK
<1>1. lines \in Seq(Line) /\ Len(lines) <= MaxLines
  <2>1. CASE edits = "lines"
    BY <2>1, TableType DEF Init
  <2>2. CASE edits # "lines"
    BY <2>2, CodeFileAssumption DEF Init
  <2> QED  BY <2>1, <2>2
<1>2. PICK h \in HeaderState : name = h.name /\ marks = h.marks
  BY NoHeaderType, HeadersType DEF Init
<1>3. HeaderOK
  BY <1>2, StateIsOK DEF HeaderOK
<1>4. nextKept \in BOOLEAN /\ edits \in {"lines", "name"}
  BY DEF Init
<1> QED  BY <1>1, <1>3, <1>4, Zenon DEF TypeOK, HeaderOK, Char

(* A step on the header leaves the lines, one on the lines the header.     *)
LEMMA NameType ==
  ASSUME TypeOK, NEW n \in Seq(Char), Len(n) <= KbMax, EditName(n)
  PROVE  TypeOK'
<1>1. nextKept' \in BOOLEAN
  <2>1. nextKept' \in {nextKept, FALSE}
    BY Zenon DEF EditName
  <2> QED  BY <2>1, Zenon DEF TypeOK
<1> QED  BY <1>1, Zenon DEF TypeOK, EditName, Char

LEMMA HeaderStepType ==
  ASSUME TypeOK, NEW h \in HeaderState, name' = h.name, marks' = h.marks
  PROVE  HeaderOK'
<1>1. h.name \in Seq(Char) /\ Len(h.name) <= KbMax /\ h.marks \in Marks
  BY StateIsOK
<1> QED  BY <1>1, Zenon DEF HeaderOK

LEMMA NextType ==
  ASSUME IInv, TypeOK, [Next]_vars PROVE TypeOK'
<1>0. /\ lines \in Seq(Line) /\ Len(lines) <= MaxLines /\ Len(lines) \in Nat
      /\ name \in Seq(Char) /\ Len(name) <= KbMax /\ Len(name) \in Nat
      /\ marks \in Marks /\ nextKept \in BOOLEAN /\ edits \in {"lines", "name"}
  <2>1. /\ lines \in Seq(Line) /\ Len(lines) <= MaxLines
        /\ name \in Seq(Char) /\ Len(name) <= KbMax
        /\ marks \in Marks /\ nextKept \in BOOLEAN /\ edits \in {"lines", "name"}
    BY Zenon DEF TypeOK, Char
  <2> QED  BY <2>1, LenProperties
<1>1. CASE EditLine
  <2>1. PICK i \in DOMAIN lines : \E l : lines' = [lines EXCEPT ![i] = l] /\ Good(lines[i], l)
    BY <1>1, EditsGood
  <2>2. PICK l : lines' = [lines EXCEPT ![i] = l] /\ Good(lines[i], l)
    BY <2>1
  <2>3. i \in 1 .. Len(lines) /\ l \in Line
    <3>1. LineOK(lines[i])
      BY <2>1 DEF IInv
    <3> QED  BY <1>0, <2>2, <3>1, LenProperties DEF Good, LineOK
  <2>4. lines' \in Seq(Line) /\ Len(lines') = Len(lines)
    BY <1>0, <2>2, <2>3, ExceptSeq
  <2>5. UNCHANGED <<name, marks, nextKept, edits>>
    BY <1>1 DEF EditLine, Edit, Resize, EditAddress, EditValue, MakeKind, MakePointer,
       MakeJoker, PasteAddress, PasteValue
  <2>6. Len(lines') <= MaxLines
    BY <1>0, <2>4
  <2> QED  BY <1>0, <2>4, <2>5, <2>6, Zenon DEF TypeOK, Char
<1>2. CASE Reload
  <2>1. lines' \in Seq(Line) /\ Len(lines') <= MaxLines
    <3>1. CASE Readable
      <4>1. lines' = [j \in DOMAIN lines |-> ReadLine(RowOf(lines[j]))] /\ DOMAIN lines = 1 .. Len(lines)
        BY <1>0, <1>2, <3>1, LenProperties DEF Reload
      <4>2. \A j \in DOMAIN lines : ReadLine(RowOf(lines[j])) \in Line
        BY <3>1, SavedOK DEF IInv, Readable, LineOK
      <4>3. lines' \in [1 .. Len(lines) -> Line]
        BY <4>1, <4>2
      <4>4. lines' \in Seq(Line) /\ Len(lines') = Len(lines)
        <5> HIDE DEF Line
        <5> QED  BY <1>0, <4>3
      <4> QED  BY <1>0, <4>4
    <3>2. CASE ~Readable
      BY <1>2, <3>2, TableType DEF Reload
    <3> QED  BY <3>1, <3>2
  <2>2. name' = ReadHeader(HeaderText).name /\ marks' = ReadHeader(HeaderText).marks
    BY <1>2, Zenon DEF Reload
  <2>3. ReadHeader(HeaderText) \in HeaderState
    BY <1>0, HeaderTextType, HeaderType
  <2>4. HeaderOK'
    BY <2>2, <2>3, HeaderStepType
  <2>5. UNCHANGED <<nextKept, edits>>
    BY <1>2 DEF Reload
  <2> QED  BY <1>0, <2>1, <2>4, <2>5, Zenon DEF TypeOK, HeaderOK, Char
<1>3. CASE LoadOther
  <2>1. lines' \in Seq(Line) /\ Len(lines') <= MaxLines
    <3>1. lines' \in Tables \/ lines' = lines
      BY <1>3 DEF LoadOther
    <3> QED  BY <1>0, <3>1, TableType
  <2>2. HeaderOK'
    <3>1. CASE UNCHANGED <<name, marks>>
      BY <1>0, <3>1, Zenon DEF HeaderOK
    <3>2. CASE \E h \in Headers : name' = h.name /\ marks' = h.marks
      BY <3>2, HeadersType, HeaderStepType
    <3> QED  BY <1>3, <3>1, <3>2 DEF LoadOther
  <2>3. nextKept' = TRUE /\ edits' = edits
    BY <1>3 DEF LoadOther
  <2>4. nextKept' \in BOOLEAN
    BY <2>3
  <2> QED  BY <1>0, <2>1, <2>2, <2>3, <2>4, Zenon DEF TypeOK, HeaderOK, Char
<1>4. CASE \E c \in Char : TypeLetter(c)
  <2>1. PICK c \in Char : Len(name) < KbMax /\ EditName(Append(name, c))
    BY <1>4 DEF TypeLetter
  <2>2. Append(name, c) \in Seq(Char) /\ Len(Append(name, c)) = Len(name) + 1
    BY <1>0
  <2>3. Len(Append(name, c)) <= KbMax
    BY <1>0, <2>1, <2>2, CodeFileAssumption
  <2> QED  BY <2>1, <2>2, <2>3, NameType
<1>5. CASE Backspace
  <2>1. name # <<>> /\ EditName(Front(name))
    BY <1>5 DEF Backspace
  <2>2. Front(name) \in Seq(Char) /\ Len(Front(name)) <= Len(name)
    <3> HIDE DEF Char
    <3>1. Len(name) >= 1
      BY <1>0, <2>1, EmptySeq
    <3>2. \A i \in 1 .. Len(name) - 1 : name[i] \in Char
      BY <1>0, ElementOfSeq
    <3> QED  BY <1>0, <3>1, <3>2, SubSeqProperties DEF Front
  <2>3. Len(Front(name)) \in Nat
    BY <2>2, LenProperties
  <2>4. Len(Front(name)) <= KbMax
    BY <1>0, <2>2, <2>3, CodeFileAssumption
  <2> QED  BY <2>1, <2>2, <2>4, NameType
<1>6. CASE ClearName
  <2>1. <<>> \in Seq(Char) /\ Len(<<>>) <= KbMax
    BY EmptySeq, CodeFileAssumption
  <2> QED  BY <1>6, <2>1, NameType DEF ClearName
<1>7. CASE \E mark \in {"selected", "constant"} : Toggle(mark)
  <2>1. PICK mark \in {"selected", "constant"} : Toggle(mark)
    BY <1>7
  <2>2. marks' = {} \/ marks' = {mark}
    BY <2>1, Zenon DEF Toggle
  <2>3. marks' \in Marks
    BY <2>1, <2>2 DEF Marks
  <2>4. UNCHANGED <<lines, name, nextKept, edits>>
    BY <2>1 DEF Toggle
  <2> QED  BY <1>0, <2>3, <2>4, Zenon DEF TypeOK, Char
<1>8. CASE UNCHANGED vars
  BY <1>8, Zenon DEF TypeOK, vars
<1> QED  BY <1>1, <1>2, <1>3, <1>4, <1>5, <1>6, <1>7, <1>8, Zenon DEF Next, Char

(* Every line is one the structure of a line can hold and the tables keep  *)
(* their size; a name is never longer than the keyboard makes it.          *)
THEOREM TypeCorrect == Spec => []TypeOK
<1> QED  BY InitIInv, NextIInv, InitType, NextType, PTL DEF Spec

(* The name and the marks of a cheat are read again as they were written,  *)
(* however long the name and whatever was typed, loaded or marked before.  *)
THEOREM HeaderAlwaysReloads == Spec => []HeaderReloads
<1>1. TypeOK => HeaderReloads
  BY NameReads, Zenon DEF TypeOK, HeaderReloads, MarksRead
<1> QED  BY <1>1, TypeCorrect, PTL
=============================================================================
