--------------------------- MODULE QrWidgetProofs ---------------------------
(***************************************************************************)
(* Theorems about QrWidget, for every set of texts, levels, codes and      *)
(* requests: the bytes that come back are the picture of the code, the     *)
(* widget shows the code of its text, and no answer is lost.               *)
(*                                                                         *)
(* The invariant IInv has two parts.  Sound is about the tasks: by the     *)
(* phase of its thread, how much of the picture a task has painted         *)
(* (PhaseInv), what it may be answered with (AnswerInv), and that the      *)
(* tasks that have returned unanswered are those whose callback is to be   *)
(* called, each once.  WidgetInv is about the widget: every task of its    *)
(* own but the last is cancelled, and the last is of its text and level.   *)
(*                                                                         *)
(* That the bytes are the picture goes by induction over the rows painted: *)
(* EndToEnd says that so many rows lie in the buffer end to end, OneMore   *)
(* that painting one keeps it so, and PaintedIsDrawn that once all are     *)
(* there each byte is the one that Drawn has at its place, found by        *)
(* division.  The induction of DataInduction says what FlattenSeq          *)
(* computes, which is how a row repeats its pixels and its lines.          *)
(***************************************************************************)
EXTENDS QrWidget, DataInduction

-----------------------------------------------------------------------------
(* Numbers and sequences                                                   *)

\* Division undoes a multiplication with a remainder.
LEMMA DivMod ==
  ASSUME NEW k \in Nat, k > 0, NEW q \in Nat, NEW r \in 0..(k - 1)
  PROVE  (q * k + r) \div k = q /\ (q * k + r) % k = r
  OBVIOUS

\* Quotient and remainder.
LEMMA Division ==
  ASSUME NEW k \in Nat, k > 0, NEW x \in Nat
  PROVE  x = (x \div k) * k + (x % k) /\ x \div k \in Nat /\ x % k \in 0..(k - 1)
  OBVIOUS

\* The places of row q, of k places, are among those of i rows.
LEMMA InRow ==
  ASSUME NEW i \in Nat, NEW k \in Nat, NEW q \in 0..(i - 1), NEW r \in 1..k
  PROVE  q * k + r \in 1..(i * k)
<1>1. q \in Nat /\ q + 1 <= i /\ r \in Nat
  OBVIOUS
<1>2. (q + 1) * k <= i * k
  BY <1>1
<1>3. (q + 1) * k = q * k + k /\ q * k \in Nat /\ i * k \in Nat
  BY <1>1
<1>. QED BY <1>1, <1>2, <1>3

\* s holds the first i of the sequences, each of length k, end to end.
EndToEnd(T, seqs, k, i, s) ==
  /\ s \in Seq(T)
  /\ Len(s) = i * k
  /\ \A q \in 0..(i - 1), r \in 1..k : s[q * k + r] = seqs[q + 1][r]

\* One more sequence at the end.
LEMMA OneMore ==
  ASSUME NEW T, NEW seqs, NEW k \in Nat, NEW i \in Nat, NEW a, NEW b \in Seq(T),
         EndToEnd(T, seqs, k, i, a), b = seqs[i + 1], Len(b) = k
  PROVE  EndToEnd(T, seqs, k, i + 1, a \o b)
<1>1. a \in Seq(T) /\ Len(a) = i * k
  BY DEF EndToEnd
<1>2. a \o b \in Seq(T)
  BY <1>1
<1>3. Len(a \o b) = (i + 1) * k
  <2>1. Len(a \o b) = i * k + k
    BY <1>1
  <2>2. (i + 1) * k = i * k + k
    OBVIOUS
  <2>. QED BY <2>1, <2>2
<1>4. ASSUME NEW q \in 0..((i + 1) - 1), NEW r \in 1..k
      PROVE  (a \o b)[q * k + r] = seqs[q + 1][r]
  <2>1. CASE q = i
    BY <1>1, <2>1
  <2>2. CASE q # i
    <3>1. q \in 0..(i - 1)
      BY <2>2
    <3>2. q * k + r \in 1..Len(a)
      BY <1>1, <3>1, InRow
    <3>3. a[q * k + r] = seqs[q + 1][r]
      BY <3>1 DEF EndToEnd
    <3>. QED BY <1>1, <3>2, <3>3
  <2>. QED BY <2>1, <2>2
<1>5. \A q \in 0..((i + 1) - 1), r \in 1..k : (a \o b)[q * k + r] = seqs[q + 1][r]
  BY <1>4
<1>. QED BY <1>2, <1>3, <1>5, Zenon DEF EndToEnd

\* Sequences of one length, flattened, are laid end to end.
LEMMA Flattened ==
  ASSUME NEW T, NEW n \in Nat, n > 0, NEW k \in Nat, NEW seqs \in Seq(Seq(T)),
         Len(seqs) = n, \A i \in 1..n : Len(seqs[i]) = k
  PROVE  EndToEnd(T, seqs, k, n, FlattenSeq(seqs))
<1>1. PICK f : FlattenedTo(seqs, f, n) /\ FlattenSeq(seqs) = f[n]
  BY Flattening
<1>2. \A i \in 1..n : seqs[i] \in Seq(T)
  OBVIOUS
<1>3. /\ f[1] = seqs[1]
      /\ \A i \in 1..(n - 1) : f[i + 1] = f[i] \o seqs[i + 1]
  <2>1. \A i \in 1..n : f[i] = IF i = 1 THEN seqs[i] ELSE f[i - 1] \o seqs[i]
    BY <1>1 DEF FlattenedTo
  <2>2. f[1] = seqs[1]
    BY <2>1
  <2>3. ASSUME NEW i \in 1..(n - 1) PROVE f[i + 1] = f[i] \o seqs[i + 1]
    <3>1. i + 1 \in 1..n /\ i + 1 # 1 /\ (i + 1) - 1 = i
      OBVIOUS
    <3>. QED BY <2>1, <3>1
  <2>. QED BY <2>2, <2>3
<1> DEFINE H == {i \in Nat : i + 1 \in 1..n => EndToEnd(T, seqs, k, i + 1, f[i + 1])}
<1>4. 0 \in H
  <2>1. f[1] \in Seq(T) /\ Len(f[1]) = 1 * k
    BY <1>2, <1>3
  <2>2. \A q \in 0..(1 - 1), r \in 1..k : f[1][q * k + r] = seqs[q + 1][r]
    BY <1>3
  <2>3. EndToEnd(T, seqs, k, 1, f[1])
    BY <2>1, <2>2 DEF EndToEnd
  <2>. QED BY <2>3
<1>5. ASSUME NEW m \in 0..(n - 2), m \in H PROVE m + 1 \in H
  <2>1. /\ m + 1 \in 1..(n - 1) /\ m + 1 \in Nat /\ m + 1 + 1 \in 1..n
        /\ EndToEnd(T, seqs, k, m + 1, f[m + 1])
    BY <1>5
  <2>2. /\ f[m + 1 + 1] = f[m + 1] \o seqs[m + 1 + 1] /\ seqs[m + 1 + 1] \in Seq(T)
        /\ Len(seqs[m + 1 + 1]) = k
    BY <1>2, <1>3, <2>1
  <2>3. EndToEnd(T, seqs, k, m + 1 + 1, f[m + 1 + 1])
    BY <2>1, <2>2, OneMore
  <2>. QED BY <2>1, <2>3
<1>6. EndToEnd(T, seqs, k, n, f[n])
  <2> DEFINE bound == n - 1
  <2>1. bound \in Nat /\ bound - 1 = n - 2 /\ bound + 1 = n /\ bound + 1 \in 1..n
    OBVIOUS
  <2>2. \A m \in 0..(bound - 1) : m \in H => m + 1 \in H
    BY <1>5, <2>1
  <2>3. \A m \in 0..bound : m \in H
    <3> HIDE DEF H, bound
    <3>. QED BY <1>4, <2>1, <2>2, UpTo
  <2>4. bound \in H
    <3> HIDE DEF H, bound
    <3>. QED BY <2>1, <2>3
  <2>. QED BY <2>1, <2>4
<1>. QED BY <1>1, <1>6

\* Each place among those of N rows is one of some row.
LEMMA Decomposed ==
  ASSUME NEW N \in Nat, NEW k \in Nat, k > 0, NEW j \in 1..(N * k)
  PROVE  \E q \in 0..(N - 1), r \in 1..k : j = q * k + r
<1> DEFINE q == (j - 1) \div k
           r == ((j - 1) % k) + 1
<1>1. j - 1 \in Nat /\ j - 1 < N * k
  BY DEF q
<1>2. j - 1 = q * k + (r - 1) /\ q \in Nat /\ r \in 1..k
  <2>1. \A x \in Nat : x = (x \div k) * k + (x % k) /\ x \div k \in Nat /\ x % k \in 0..(k - 1)
    BY Division
  <2>. QED BY <1>1, <2>1
<1> HIDE DEF q, r
<1>3. q < N
  <2> SUFFICES ASSUME q >= N PROVE FALSE
    BY <1>2
  <2>1. q * k >= N * k
    BY <1>2
  <2>2. q * k \in Nat /\ N * k \in Nat
    BY <1>2
  <2>. QED BY <1>1, <1>2, <2>1, <2>2
<1>4. j = q * k + r
  BY <1>2
<1>5. q \in 0..(N - 1) /\ r \in 1..k
  BY <1>2, <1>3
<1>. QED BY <1>4, <1>5, Zenon

-----------------------------------------------------------------------------
(* The bytes                                                               *)

Bytes == 0..255
Width(request) == Len(Pixel(White, request.format))
RowBytes(request) == BlockSize(request) * (QrSize(request) * (BlockSize(request) * Width(request)))

\* A pixel has as many bytes as any other of its format.
LEMMA PixelBytes ==
  ASSUME NEW request \in Request, NEW color \in Color
  PROVE  /\ Pixel(color, request.format) \in Seq(Bytes)
         /\ Len(Pixel(color, request.format)) = Width(request)
         /\ Width(request) \in Nat /\ Width(request) > 0
<1>1. request.format \in Formats
  BY DEF Request
<1>2. color.alpha \in Bytes /\ color.red \in Bytes /\ color.green \in Bytes /\ color.blue \in Bytes
  BY DEF Color, Bytes
<1>3. CASE request.format = "a-8"
  BY <1>2, <1>3 DEF Pixel, Width
<1>4. CASE request.format = "g-8"
  BY <1>2, <1>4 DEF Pixel, Width
<1>5. CASE request.format = "rgb-888"
  BY <1>2, <1>5 DEF Pixel, Width
<1>6. CASE request.format = "rgba-8888"
  BY <1>2, <1>6 DEF Pixel, Width
<1>. QED BY <1>1, <1>3, <1>4, <1>5, <1>6 DEF Formats

\* The greater of two numbers (FiniteSetsExt).
LEMMA MaxOfTwo ==
  ASSUME NEW x \in Int, NEW y \in Int
  PROVE  Max({x, y}) = IF x >= y THEN x ELSE y
<1> DEFINE m == IF x >= y THEN x ELSE y
<1>1. m \in {x, y} /\ \A z \in {x, y} : m >= z
  OBVIOUS
<1>2. \A c \in {x, y} : (\A z \in {x, y} : c >= z) => c = m
  OBVIOUS
<1> HIDE DEF m
<1>3. Max({x, y}) = CHOOSE c \in {x, y} : \A z \in {x, y} : c >= z
  BY DEF Max
<1>4. Max({x, y}) = m
  BY <1>1, <1>2, <1>3
<1>. QED BY <1>4 DEF m

\* A code that there is has at least one row.
LEMMA CodeIsSquare ==
  ASSUME NEW request \in Request, Code(request) # <<>>
  PROVE  QrSize(request) \in Nat /\ QrSize(request) > 0
<1>1. Code(request) \in Seq(Seq(BOOLEAN))
  BY QrCodeAssumption DEF Code, Request
<1>. QED BY <1>1 DEF QrSize

\* gnome_qr_generate_qr_code_sync: blocks are at least a pixel wide, and no wider
\* than the requested size takes.
LEMMA Blocks ==
  ASSUME NEW request \in Request, Code(request) # <<>>
  PROVE  /\ BlockSize(request) \in Nat /\ BlockSize(request) > 0
         /\ PixelSize(request) >= request.requested_size
         /\ PixelSize(request) - QrSize(request) < Max({1, request.requested_size})
<1> DEFINE n == QrSize(request)
           size == request.requested_size
           d == (size + n - 1) \div n
<1>1. n \in Nat /\ n > 0 /\ size \in Nat
  BY CodeIsSquare DEF Request
<1>2. d \in Nat /\ d * n <= size + n - 1 /\ size + n - 1 < (d + 1) * n
  <2> HIDE DEF n, size
  <2>1. size + n - 1 \in Nat
    BY <1>1
  <2>2. size + n - 1 = d * n + ((size + n - 1) % n) /\ d \in Nat
    BY <1>1, <2>1, Division
  <2>3. (size + n - 1) % n \in 0..(n - 1)
    BY <1>1, <2>1, Division
  <2> HIDE DEF d
  <2>4. d * n \in Nat /\ (d + 1) * n = d * n + n
    BY <1>1, <2>2
  <2>. QED BY <1>1, <2>2, <2>3, <2>4
<1>3. BlockSize(request) = IF 1 >= d THEN 1 ELSE d
  <2>1. BlockSize(request) = Max({1, d})
    BY DEF BlockSize
  <2> HIDE DEF d
  <2>. QED BY <1>2, <2>1, MaxOfTwo
<1>4. Max({1, size}) = IF 1 >= size THEN 1 ELSE size
  <2> HIDE DEF size
  <2>. QED BY <1>1, MaxOfTwo
<1>5. PixelSize(request) = n * BlockSize(request)
  BY DEF PixelSize
<1> HIDE DEF n, size, d
<1>6. CASE d <= 1
  <2>1. (d + 1) * n <= 2 * n
    BY <1>1, <1>2, <1>6
  <2>2. BlockSize(request) = 1 /\ PixelSize(request) = n
    BY <1>1, <1>2, <1>3, <1>5, <1>6
  <2>3. n >= size
    BY <1>1, <1>2, <2>1
  <2>. QED BY <1>1, <1>4, <2>2, <2>3 DEF n, size
<1>7. CASE d > 1
  <2>1. BlockSize(request) = d /\ PixelSize(request) = d * n
    BY <1>1, <1>2, <1>3, <1>5, <1>7
  <2>2. d * n \in Nat /\ (d + 1) * n = d * n + n
    BY <1>1, <1>2
  <2>3. d * n >= size /\ d * n - n < size
    BY <1>1, <1>2, <2>2
  <2>. QED BY <1>1, <1>2, <1>4, <1>7, <2>1, <2>3 DEF n, size
<1>. QED BY <1>2, <1>6, <1>7

\* The colors of a request, or those that stand for none.
LEMMA ColorsAreColors ==
  ASSUME NEW request \in Request
  PROVE  Foreground(request) \in Color /\ Background(request) \in Color
  BY DEF Request, Foreground, Background, Color, White, Black, Transparent

\* Repeat gives the same bytes over and over.
LEMMA Repeated ==
  ASSUME NEW T, NEW bytes \in Seq(T), NEW times \in Nat, times > 0
  PROVE  /\ Repeat(bytes, times) \in Seq(T)
         /\ Len(Repeat(bytes, times)) = times * Len(bytes)
         /\ \A q \in 0..(times - 1), r \in 1..Len(bytes) :
              Repeat(bytes, times)[q * Len(bytes) + r] = bytes[r]
<1> DEFINE seqs == [i \in 1..times |-> bytes]
<1>1. seqs \in Seq(Seq(T)) /\ Len(seqs) = times /\ \A i \in 1..times : seqs[i] = bytes
  OBVIOUS
<1>2. Repeat(bytes, times) = FlattenSeq(seqs)
  BY DEF Repeat
<1>3. Len(bytes) \in Nat
  OBVIOUS
<1> HIDE DEF seqs
<1>4. EndToEnd(T, seqs, Len(bytes), times, FlattenSeq(seqs))
  <2>1. \A i \in 1..times : Len(seqs[i]) = Len(bytes)
    BY <1>1
  <2>. QED BY <1>1, <1>3, <2>1, Flattened
<1>5. FlattenSeq(seqs) \in Seq(T) /\ Len(FlattenSeq(seqs)) = times * Len(bytes)
  BY <1>4, Zenon DEF EndToEnd
<1>6. ASSUME NEW q \in 0..(times - 1), NEW r \in 1..Len(bytes)
      PROVE  FlattenSeq(seqs)[q * Len(bytes) + r] = bytes[r]
  <2>1. FlattenSeq(seqs)[q * Len(bytes) + r] = seqs[q + 1][r]
    BY <1>4, Zenon DEF EndToEnd
  <2>2. q + 1 \in 1..times
    OBVIOUS
  <2>. QED BY <1>1, <2>1, <2>2
<1>. QED BY <1>2, <1>5, <1>6, Zenon

\* The color of a module.
ColorAt(request, row, column) ==
  IF Code(request)[row][column] THEN Foreground(request) ELSE Background(request)

\* A row that is painted: each line of it, in each block, in each pixel.
LEMMA RowIsPainted ==
  ASSUME NEW request \in Request, Code(request) # <<>>, NEW row \in 1..QrSize(request)
  PROVE  /\ PaintedRow(request, row) \in Seq(Bytes)
         /\ Len(PaintedRow(request, row)) = RowBytes(request)
         /\ \A y \in 0..(BlockSize(request) - 1), c \in 0..(QrSize(request) - 1),
               x \in 0..(BlockSize(request) - 1), e \in 1..Width(request) :
              PaintedRow(request, row)
                [y * (QrSize(request) * (BlockSize(request) * Width(request)))
                   + (c * (BlockSize(request) * Width(request)) + (x * Width(request) + e))] =
              Pixel(ColorAt(request, row, c + 1), request.format)[e]
<1> DEFINE n == QrSize(request)
           b == BlockSize(request)
           w == Width(request)
           pixel(c) == Pixel(ColorAt(request, row, c), request.format)
           block(c) == Repeat(pixel(c), b)
           blocks == [c \in 1..n |-> block(c)]
           line == FlattenSeq(blocks)
<1>1. n \in Nat /\ n > 0 /\ b \in Nat /\ b > 0
  BY CodeIsSquare, Blocks
<1>2. \A c : /\ pixel(c) \in Seq(Bytes) /\ Len(pixel(c)) = w /\ w \in Nat /\ w > 0
  <2> TAKE c
  <2>1. ColorAt(request, row, c) \in Color
    BY ColorsAreColors DEF ColorAt
  <2>. QED BY <2>1, PixelBytes
<1>3. PaintedRow(request, row) = Repeat(line, b)
  BY DEF PaintedRow, ColorAt
<1> HIDE DEF n, b, w, pixel
<1>4. \A c : block(c) \in Seq(Bytes) /\ Len(block(c)) = b * w
  BY <1>1, <1>2, Repeated
<1>5. ASSUME NEW c, NEW x \in 0..(b - 1), NEW e \in 1..w
      PROVE  block(c)[x * w + e] = pixel(c)[e]
  <2> DEFINE bytes == pixel(c)
  <2>1. bytes \in Seq(Bytes) /\ Len(bytes) = w
    BY <1>2
  <2> HIDE DEF bytes
  <2>2. \A q \in 0..(b - 1), r \in 1..Len(bytes) :
          Repeat(bytes, b)[q * Len(bytes) + r] = bytes[r]
    BY <1>1, <2>1, Repeated
  <2>3. Repeat(bytes, b)[x * w + e] = bytes[e]
    BY <2>1, <2>2
  <2>. QED BY <2>3 DEF bytes
<1> HIDE DEF block
<1>6. EndToEnd(Bytes, blocks, b * w, n, line)
  <2>1. blocks \in Seq(Seq(Bytes)) /\ Len(blocks) = n
    BY <1>1, <1>4
  <2>2. \A i \in 1..n : Len(blocks[i]) = b * w
    BY <1>4
  <2>3. b * w \in Nat
    BY <1>1, <1>2
  <2> HIDE DEF blocks
  <2>. QED BY <1>1, <2>1, <2>2, <2>3, Flattened
<1>7. \A c \in 0..(n - 1) : blocks[c + 1] = block(c + 1)
  BY <1>1
<1> HIDE DEF blocks, line
<1>8. line \in Seq(Bytes) /\ Len(line) = n * (b * w)
  BY <1>6, Zenon DEF EndToEnd
<1>9. ASSUME NEW c \in 0..(n - 1), NEW x \in 0..(b - 1), NEW e \in 1..w
      PROVE  /\ c * (b * w) + (x * w + e) \in 1..Len(line)
             /\ line[c * (b * w) + (x * w + e)] = pixel(c + 1)[e]
  <2>1. x * w + e \in 1..(b * w)
    BY <1>1, <1>2, InRow
  <2>2. line[c * (b * w) + (x * w + e)] = blocks[c + 1][x * w + e]
    BY <1>6, <2>1, Zenon DEF EndToEnd
  <2>3. c * (b * w) + (x * w + e) \in 1..(n * (b * w))
    <3>1. b * w \in Nat
      BY <1>1, <1>2
    <3>. QED BY <1>1, <2>1, <3>1, InRow
  <2>. QED BY <1>5, <1>7, <1>8, <2>2, <2>3
<1>10. /\ Repeat(line, b) \in Seq(Bytes)
       /\ Len(Repeat(line, b)) = b * (n * (b * w))
  BY <1>1, <1>8, Repeated
<1>11. ASSUME NEW y \in 0..(b - 1), NEW c \in 0..(n - 1), NEW x \in 0..(b - 1), NEW e \in 1..w
       PROVE  Repeat(line, b)[y * (n * (b * w)) + (c * (b * w) + (x * w + e))] =
              pixel(c + 1)[e]
  <2>1. \A r \in 1..Len(line) : Repeat(line, b)[y * Len(line) + r] = line[r]
    BY <1>1, <1>8, Repeated
  <2>. QED BY <1>8, <1>9, <2>1
<1>12. PaintedRow(request, row) \in Seq(Bytes) /\ Len(PaintedRow(request, row)) = RowBytes(request)
  BY <1>3, <1>10 DEF RowBytes, n, b, w
<1>13. \A y \in 0..(b - 1), c \in 0..(n - 1), x \in 0..(b - 1), e \in 1..w :
         PaintedRow(request, row)[y * (n * (b * w)) + (c * (b * w) + (x * w + e))] =
         pixel(c + 1)[e]
  BY <1>3, <1>11
<1>. QED BY <1>12, <1>13, Zenon DEF n, b, w, pixel

\* Byte j is byte e of pixel x of line y of the module in that row and column.
IsAt(j, n, b, w, row, y, c, x, e) ==
  /\ ((j - 1) \div w) \div (n * b) = row * b + y
  /\ ((j - 1) \div w) % (n * b) = c * b + x
  /\ ((j - 1) % w) + 1 = e
  /\ (row * b + y) \div b = row
  /\ (c * b + x) \div b = c

\* Where a byte lies, found by division.
LEMMA Place ==
  ASSUME NEW n \in Nat, n > 0, NEW b \in Nat, b > 0, NEW w \in Nat, w > 0,
         NEW row \in 0..(n - 1), NEW y \in 0..(b - 1), NEW c \in 0..(n - 1),
         NEW x \in 0..(b - 1), NEW e \in 1..w, NEW j,
         j = row * (b * (n * (b * w)))
               + (y * (n * (b * w)) + (c * (b * w) + (x * w + e)))
  PROVE  IsAt(j, n, b, w, row, y, c, x, e)
<1> DEFINE line == row * b + y
           pixel == c * b + x
<1>1. line \in Nat /\ pixel \in 0..(n * b - 1)
  <2>1. line \in Nat
    OBVIOUS
  <2>2. c * b + (x + 1) \in 1..(n * b)
    BY InRow
  <2>3. c * b \in Nat /\ n * b \in Nat
    OBVIOUS
  <2>. QED BY <2>1, <2>2, <2>3
<1>2. j - 1 = (line * (n * b) + pixel) * w + (e - 1)
  OBVIOUS
<1> HIDE DEF line, pixel
<1>3. n * b \in Nat /\ n * b > 0
  OBVIOUS
<1>4. line * (n * b) + pixel \in Nat
  BY <1>1, <1>3
<1>5. (j - 1) \div w = line * (n * b) + pixel /\ (j - 1) % w = e - 1
  BY <1>2, <1>4, DivMod
<1>6. (line * (n * b) + pixel) \div (n * b) = line /\ (line * (n * b) + pixel) % (n * b) = pixel
  BY <1>1, <1>3, DivMod
<1>7. line \div b = row /\ pixel \div b = c
  BY DivMod DEF line, pixel
<1>. QED BY <1>2, <1>5, <1>6, <1>7 DEF IsAt, line, pixel

\* The rows of a code, painted one after the other, are the picture.
Rows(request) == [row \in 1..QrSize(request) |-> PaintedRow(request, row)]

LEMMA PaintedIsDrawn ==
  ASSUME NEW request \in Request, Code(request) # <<>>, NEW bytes,
         EndToEnd(Bytes, Rows(request), RowBytes(request), QrSize(request), bytes)
  PROVE  bytes = Drawn(request)
<1> DEFINE n == QrSize(request)
           b == BlockSize(request)
           w == Width(request)
           k == RowBytes(request)
<1>1. n \in Nat /\ n > 0 /\ b \in Nat /\ b > 0
  BY CodeIsSquare, Blocks
<1>2. w \in Nat /\ w > 0
  BY PixelBytes, ColorsAreColors
<1>3. k = b * (n * (b * w)) /\ PixelSize(request) = n * b
  BY DEF RowBytes, PixelSize
<1>4. bytes \in Seq(Bytes) /\ Len(bytes) = n * k
  BY Zenon DEF EndToEnd
<1>5. DOMAIN Drawn(request) = 1..(n * k)
  <2>1. DOMAIN Drawn(request) = 1..((n * b) * (n * b) * w)
    BY <1>3 DEF Drawn, Width
  <2>2. (n * b) * (n * b) * w = n * (b * (n * (b * w)))
    BY <1>1, <1>2
  <2>. QED BY <1>3, <2>1, <2>2
<1>6. ASSUME NEW j \in 1..(n * k) PROVE bytes[j] = Drawn(request)[j]
  <2>1. PICK row \in 0..(n - 1), i \in 1..k : j = row * k + i
    <3>1. k \in Nat /\ k > 0
      <4>1. b * w \in Nat /\ b * w > 0
        BY <1>1, <1>2
      <4>2. n * (b * w) \in Nat /\ n * (b * w) > 0
        BY <1>1, <4>1
      <4>3. b * (n * (b * w)) \in Nat /\ b * (n * (b * w)) > 0
        BY <1>1, <4>2
      <4>. QED BY <1>3, <4>3
    <3> HIDE DEF k, n
    <3>. QED BY <1>1, <3>1, Decomposed
  <2>2. PICK y \in 0..(b - 1), l \in 1..(n * (b * w)) : i = y * (n * (b * w)) + l
    <3>1. n * (b * w) \in Nat /\ n * (b * w) > 0
      <4>1. b * w \in Nat /\ b * w > 0
        BY <1>1, <1>2
      <4>. QED BY <1>1, <4>1
    <3> HIDE DEF k, n, b, w
    <3>. QED BY <1>1, <1>3, <2>1, <3>1, Decomposed
  <2>3. PICK c \in 0..(n - 1), m \in 1..(b * w) : l = c * (b * w) + m
    <3>1. b * w \in Nat /\ b * w > 0
      BY <1>1, <1>2
    <3> HIDE DEF k, n, b, w
    <3>. QED BY <1>1, <2>2, <3>1, Decomposed
  <2>4. PICK x \in 0..(b - 1), e \in 1..w : m = x * w + e
    <3> HIDE DEF k, n, b, w
    <3>. QED BY <1>1, <1>2, <2>3, Decomposed
  <2>5. j = row * (b * (n * (b * w)))
              + (y * (n * (b * w)) + (c * (b * w) + (x * w + e)))
    BY <1>3, <2>1, <2>2, <2>3, <2>4
  <2>6. IsAt(j, n, b, w, row, y, c, x, e)
    <3> HIDE DEF k, n, b, w
    <3>. QED BY <1>1, <1>2, <2>5, Place
  <2>7. Drawn(request)[j] = Pixel(ColorAt(request, row + 1, c + 1), request.format)[e]
    <3> DEFINE line == ((j - 1) \div w) \div (n * b)
               pixel == ((j - 1) \div w) % (n * b)
    <3>1. j \in 1..((n * b) * (n * b) * w)
      <4>1. (n * b) * (n * b) * w = n * (b * (n * (b * w)))
        BY <1>1, <1>2
      <4>. QED BY <1>3, <4>1
    <3>2. Drawn(request)[j] =
            Pixel(IF Code(request)[line \div b + 1][pixel \div b + 1]
                  THEN Foreground(request) ELSE Background(request),
                  request.format)[((j - 1) % w) + 1]
      BY <1>3, <3>1 DEF Drawn, Width
    <3>3. line \div b = row /\ pixel \div b = c /\ ((j - 1) % w) + 1 = e
      BY <2>6 DEF IsAt
    <3>. QED BY <3>2, <3>3 DEF ColorAt
  <2>8. bytes[j] = Rows(request)[row + 1][i]
    BY <2>1, Zenon DEF EndToEnd
  <2>9. Rows(request)[row + 1] = PaintedRow(request, row + 1) /\ row + 1 \in 1..n
    BY <1>1 DEF Rows
  <2>10. PaintedRow(request, row + 1)[y * (n * (b * w)) + (c * (b * w) + (x * w + e))] =
         Pixel(ColorAt(request, row + 1, c + 1), request.format)[e]
    BY <2>9, RowIsPainted
  <2>. QED BY <2>2, <2>3, <2>4, <2>7, <2>8, <2>9, <2>10
<1>7. DOMAIN bytes = 1..(n * k)
  BY <1>4
<1>8. Drawn(request) = [j \in DOMAIN Drawn(request) |-> Drawn(request)[j]]
  BY DEF Drawn
<1>9. bytes = [j \in DOMAIN bytes |-> bytes[j]]
  BY <1>4
<1>. QED BY <1>5, <1>6, <1>7, <1>8, <1>9, Zenon

Phases == {"queued", "encoding", "painting", "done"}
Task == [owner : {"widget", "application"}, request : AllRequests, phase : Phases,
         row : Nat, pixels : Seq(Bytes), result : Results, cancelled : BOOLEAN,
         returned : BOOLEAN, answer : Results]

\* What the thread of a task has made by the phase that it is in.
PhaseInv(it) ==
  /\ it.phase # "done" => it.result = "none"
  /\ it.phase # "painting" => it.row = 0
  /\ it.phase = "painting" =>
       /\ Code(it.request) # <<>> /\ it.row <= QrSize(it.request)
       /\ EndToEnd(Bytes, Rows(it.request), RowBytes(it.request), it.row, it.pixels)
  /\ it.phase \in {"queued", "encoding"} => it.pixels = <<>>
  /\ it.phase = "done" => it.result # "none"
  /\ it.result = "pixels" => Code(it.request) # <<>> /\ it.pixels = Drawn(it.request)
  /\ it.result = "failed" => Code(it.request) = <<>>
  /\ it.result = "cancelled" => it.cancelled

\* A task has returned when it was cancelled or its thread is done, and was
\* answered with what it was then.
AnswerInv(it) ==
  /\ it.returned <=> it.cancelled \/ it.phase = "done"
  /\ it.answer \in {"pixels", "failed"} => it.result = it.answer
  /\ it.answer = "cancelled" => it.cancelled
  /\ it.answer # "none" => it.returned

\* The callback of a task that has returned is to be called, or was, once.
Sound(ts, cs) ==
  /\ ts \in Seq(Task)
  /\ cs \in Seq(1..Len(ts))
  /\ \A i, j \in 1..Len(cs) : cs[i] = cs[j] => i = j
  /\ \A t \in 1..Len(ts) : PhaseInv(ts[t]) /\ AnswerInv(ts[t])
  /\ \A t \in 1..Len(ts) : ts[t].returned /\ ts[t].answer = "none" =>
                             \E i \in 1..Len(cs) : cs[i] = t
  /\ \A i \in 1..Len(cs) : ts[cs[i]].returned /\ ts[cs[i]].answer = "none"

\* What the widget shows is of its text, or is what it showed before.
WidgetInv ==
  /\ text \in Texts \cup {Empty} /\ ecc_level \in Levels /\ disposed \in BOOLEAN
  /\ Len(tasks) <= MaxTasks
  /\ texture \in Range(Picture) \cup {None}
  /\ cancellable # None =>
       /\ cancellable \in 1..Len(tasks) /\ ~disposed /\ text # Empty
       /\ tasks[cancellable].owner = "widget" /\ ~tasks[cancellable].cancelled
       /\ tasks[cancellable].request = WidgetRequest(text, ecc_level)
       /\ tasks[cancellable].answer = "pixels" => texture = Texture(text, ecc_level)
  /\ disposed \/ text = Empty => texture = None
  /\ \A t \in 1..Len(tasks) :
       tasks[t].owner = "widget" /\ t # cancellable => tasks[t].cancelled

IInv == Sound(tasks, completions) /\ WidgetInv



\* The requests of the widget are requests.
LEMMA RequestsAreRequests == AllRequests \subseteq Request
<1>1. \A string \in Texts, level \in Levels : WidgetRequest(string, level) \in Request
  BY DEF WidgetRequest, Request, Formats
<1>. QED BY <1>1, QrWidgetAssumption DEF AllRequests

\* A painted row has a number of bytes.
LEMMA RowIsTyped ==
  ASSUME NEW request \in Request, Code(request) # <<>>
  PROVE  RowBytes(request) \in Nat
<1>1. /\ QrSize(request) \in Nat /\ BlockSize(request) \in Nat
      /\ Width(request) \in Nat
  BY CodeIsSquare, Blocks, PixelBytes, ColorsAreColors
<1> DEFINE n == QrSize(request)
           b == BlockSize(request)
           w == Width(request)
<1> HIDE DEF n, b, w
<1>2. n \in Nat /\ b \in Nat /\ w \in Nat
  BY <1>1 DEF n, b, w
<1>3. b * (n * (b * w)) \in Nat
  BY <1>2
<1>. QED BY <1>3 DEF RowBytes, n, b, w

\* One task is replaced, and its callback is due when it returns by that.
LEMMA Changed ==
  ASSUME NEW ts, NEW cs, Sound(ts, cs), NEW t \in 1..Len(ts), NEW it \in Task,
         PhaseInv(it), AnswerInv(it), it.answer = ts[t].answer,
         ts[t].returned => it.returned, NEW ds,
         ds = IF it.returned /\ ~ts[t].returned THEN Append(cs, t) ELSE cs
  PROVE  Sound([ts EXCEPT ![t] = it], ds)
<1> DEFINE us == [ts EXCEPT ![t] = it]
<1>1. ts \in Seq(Task) /\ cs \in Seq(1..Len(ts))
  BY DEF Sound
<1>2. /\ us \in Seq(Task) /\ Len(us) = Len(ts) /\ us[t] = it
      /\ \A u \in 1..Len(ts) : u # t => us[u] = ts[u]
  BY <1>1
<1>3. ts[t] \in Task /\ PhaseInv(ts[t]) /\ AnswerInv(ts[t])
  BY <1>1 DEF Sound
<1>4. ts[t].returned \in BOOLEAN /\ it.returned \in BOOLEAN
  BY <1>3 DEF Task
<1> HIDE DEF us
<1>5. \A u \in 1..Len(us) : PhaseInv(us[u]) /\ AnswerInv(us[u])
  BY <1>2 DEF Sound
<1>6. CASE it.returned /\ ~ts[t].returned
  <2>1. ts[t].answer = "none"
    BY <1>3, <1>6 DEF AnswerInv
  <2>2. ds = Append(cs, t) /\ ds \in Seq(1..Len(us)) /\ Len(ds) = Len(cs) + 1
    BY <1>1, <1>2, <1>6
  <2>3. /\ \A i \in 1..Len(cs) : ds[i] = cs[i] /\ cs[i] \in 1..Len(ts)
        /\ ds[Len(cs) + 1] = t
    BY <1>1, <2>2
  <2>4. \A i \in 1..Len(cs) : cs[i] # t
    BY <1>6 DEF Sound
  <2>5. Len(cs) \in Nat
    BY <1>1
  <2>6. \A i, j \in 1..Len(ds) : ds[i] = ds[j] => i = j
    <3>1. \A i, j \in 1..Len(cs) : cs[i] = cs[j] => i = j
      BY DEF Sound
    <3>2. \A i \in 1..Len(ds) : i \in 1..Len(cs) \/ i = Len(cs) + 1
      BY <2>2, <2>5
    <3>. QED BY <2>3, <2>4, <3>1, <3>2
  <2>7. \A u \in 1..Len(us) : us[u].returned /\ us[u].answer = "none" =>
                                \E i \in 1..Len(ds) : ds[i] = u
    <3> TAKE u \in 1..Len(us)
    <3> HAVE us[u].returned /\ us[u].answer = "none"
    <3>1. CASE u = t
      BY <2>2, <2>3, <2>5, <3>1
    <3>2. CASE u # t
      <4>1. PICK i \in 1..Len(cs) : cs[i] = u
        BY <1>2, <3>2 DEF Sound
      <4>2. i \in 1..Len(ds) /\ ds[i] = u
        BY <2>2, <2>3, <2>5, <4>1
      <4>. QED BY <4>2
    <3>. QED BY <3>1, <3>2
  <2>8. \A i \in 1..Len(ds) : us[ds[i]].returned /\ us[ds[i]].answer = "none"
    <3> TAKE i \in 1..Len(ds)
    <3>1. CASE i = Len(cs) + 1
      BY <1>2, <1>6, <2>1, <2>3, <3>1
    <3>2. CASE i # Len(cs) + 1
      <4>1. i \in 1..Len(cs)
        BY <2>2, <2>5, <3>2
      <4>2. ts[cs[i]].returned /\ ts[cs[i]].answer = "none"
        BY <4>1 DEF Sound
      <4>. QED BY <1>2, <2>3, <2>4, <4>1, <4>2
    <3>. QED BY <3>1, <3>2
  <2>. QED BY <1>2, <1>5, <2>2, <2>6, <2>7, <2>8, Zenon DEF Sound, us
<1>7. CASE ~(it.returned /\ ~ts[t].returned)
  <2>1. ds = cs /\ ds \in Seq(1..Len(us)) /\ it.returned = ts[t].returned
    BY <1>1, <1>2, <1>4, <1>7
  <2>2. \A u \in 1..Len(us) : us[u].returned = ts[u].returned /\ us[u].answer = ts[u].answer
    BY <1>2, <2>1
  <2>3. \A i \in 1..Len(cs) : cs[i] \in 1..Len(us)
    BY <1>1, <1>2
  <2>4. \A u \in 1..Len(us) : us[u].returned /\ us[u].answer = "none" =>
                                \E i \in 1..Len(ds) : ds[i] = u
    BY <1>2, <2>1, <2>2 DEF Sound
  <2>5. \A i \in 1..Len(ds) : us[ds[i]].returned /\ us[ds[i]].answer = "none"
    BY <2>1, <2>2, <2>3 DEF Sound
  <2>6. \A i, j \in 1..Len(ds) : ds[i] = ds[j] => i = j
    BY <2>1 DEF Sound
  <2>. QED BY <1>2, <1>5, <2>1, <2>4, <2>5, <2>6, Zenon DEF Sound, us
<1>. QED BY <1>6, <1>7

\* One more task.
LEMMA Added ==
  ASSUME NEW ts, NEW cs, Sound(ts, cs), NEW owner \in {"widget", "application"},
         NEW request \in AllRequests
  PROVE  Sound(Append(ts, NewTask(owner, request)), cs)
<1> DEFINE it == NewTask(owner, request)
           us == Append(ts, it)
<1>1. ts \in Seq(Task) /\ cs \in Seq(1..Len(ts))
  BY DEF Sound
<1>2. it \in Task /\ PhaseInv(it) /\ AnswerInv(it) /\ ~it.returned
  <2>1. it.pixels \in Seq(Bytes)
    BY DEF NewTask
  <2>2. it \in Task
    BY <2>1 DEF NewTask, Task, Phases, Results
  <2>. QED BY <2>2 DEF NewTask, PhaseInv, AnswerInv
<1> HIDE DEF it
<1>3. /\ us \in Seq(Task) /\ Len(us) = Len(ts) + 1 /\ us[Len(ts) + 1] = it
      /\ \A u \in 1..Len(ts) : us[u] = ts[u]
      /\ Len(ts) \in Nat
  BY <1>1, <1>2
<1> HIDE DEF us
<1>4. cs \in Seq(1..Len(us)) /\ \A i \in 1..Len(cs) : cs[i] \in 1..Len(ts)
  BY <1>1, <1>3
<1>5. \A u \in 1..Len(us) : u = Len(ts) + 1 \/ u \in 1..Len(ts)
  BY <1>3
<1>6. \A u \in 1..Len(us) : PhaseInv(us[u]) /\ AnswerInv(us[u])
  BY <1>2, <1>3, <1>5 DEF Sound
<1>7. \A u \in 1..Len(us) : us[u].returned /\ us[u].answer = "none" =>
                              \E i \in 1..Len(cs) : cs[i] = u
  BY <1>2, <1>3, <1>5 DEF Sound
<1>8. \A i \in 1..Len(cs) : us[cs[i]].returned /\ us[cs[i]].answer = "none"
  BY <1>3, <1>4 DEF Sound
<1>9. \A i, j \in 1..Len(cs) : cs[i] = cs[j] => i = j
  BY DEF Sound
<1>. QED BY <1>3, <1>4, <1>6, <1>7, <1>8, <1>9, Zenon DEF Sound, us, it

\* The first callback that is due is called.
LEMMA CalledBack ==
  ASSUME NEW ts, NEW cs, Sound(ts, cs), cs # <<>>, NEW t, t = Head(cs),
         NEW a \in Results \ {"none"}, a \in {"pixels", "failed"} => ts[t].result = a,
         a = "cancelled" => ts[t].cancelled
  PROVE  t \in 1..Len(ts) /\ Sound([ts EXCEPT ![t].answer = a], Tail(cs))
<1> DEFINE us == [ts EXCEPT ![t].answer = a]
           ds == Tail(cs)
<1>1. ts \in Seq(Task) /\ cs \in Seq(1..Len(ts)) /\ Len(cs) \in Nat /\ Len(cs) > 0
  BY DEF Sound
<1>2. t \in 1..Len(ts) /\ t = cs[1]
  BY <1>1
<1>3. ts[t] \in Task /\ PhaseInv(ts[t]) /\ AnswerInv(ts[t]) /\ ts[t].returned
  BY <1>1, <1>2 DEF Sound
<1>4. /\ us \in Seq(Task) /\ Len(us) = Len(ts) /\ us[t] = [ts[t] EXCEPT !.answer = a]
      /\ \A u \in 1..Len(ts) : u # t => us[u] = ts[u]
  <2> DEFINE it == [ts[t] EXCEPT !.answer = a]
  <2>1. it \in Task
    BY <1>3 DEF Task
  <2>2. us = [ts EXCEPT ![t] = it]
    OBVIOUS
  <2> HIDE DEF it, us
  <2>3. us \in Seq(Task) /\ Len(us) = Len(ts) /\ us[t] = it
    BY <1>1, <1>2, <2>1, <2>2
  <2>4. \A u \in 1..Len(ts) : u # t => us[u] = ts[u]
    BY <1>1, <1>2, <2>2
  <2>. QED BY <2>3, <2>4 DEF it
<1>5. ds \in Seq(1..Len(us)) /\ Len(ds) = Len(cs) - 1
  BY <1>1, <1>4
<1>6. \A i \in 1..Len(ds) : ds[i] = cs[i + 1] /\ i + 1 \in 1..Len(cs)
  BY <1>1, <1>5
<1> HIDE DEF us, ds
<1>7. us[t] \in Task /\ PhaseInv(us[t]) /\ AnswerInv(us[t]) /\ us[t].answer = a
  <2>1. us[t] \in Task
    BY <1>2, <1>4
  <2>2. /\ us[t].answer = a /\ us[t].phase = ts[t].phase /\ us[t].row = ts[t].row
        /\ us[t].pixels = ts[t].pixels /\ us[t].request = ts[t].request
        /\ us[t].result = ts[t].result /\ us[t].cancelled = ts[t].cancelled
        /\ us[t].returned = ts[t].returned
    BY <1>3, <1>4 DEF Task
  <2>3. PhaseInv(us[t])
    BY <1>3, <2>2, Zenon DEF PhaseInv
  <2>4. AnswerInv(us[t])
    BY <1>3, <2>2 DEF AnswerInv
  <2>. QED BY <2>1, <2>2, <2>3, <2>4
<1>8. \A u \in 1..Len(us) : PhaseInv(us[u]) /\ AnswerInv(us[u])
  BY <1>4, <1>7 DEF Sound
<1>9. \A i \in 1..Len(ds) : ds[i] # t /\ ds[i] \in 1..Len(ts)
  <2> TAKE i \in 1..Len(ds)
  <2>1. \A m, n \in 1..Len(cs) : cs[m] = cs[n] => m = n
    BY DEF Sound
  <2>2. 1 \in 1..Len(cs) /\ i + 1 # 1
    BY <1>1
  <2>3. cs[i + 1] # cs[1]
    BY <1>6, <2>1, <2>2
  <2>. QED BY <1>1, <1>2, <1>6, <2>3
<1>10. \A u \in 1..Len(us) : us[u].returned /\ us[u].answer = "none" =>
                               \E i \in 1..Len(ds) : ds[i] = u
  <2> TAKE u \in 1..Len(us)
  <2> HAVE us[u].returned /\ us[u].answer = "none"
  <2>1. u # t /\ us[u] = ts[u]
    BY <1>4, <1>7
  <2>2. PICK i \in 1..Len(cs) : cs[i] = u
    BY <1>4, <2>1 DEF Sound
  <2>3. i # 1
    BY <1>2, <2>1, <2>2
  <2>4. (i - 1) \in 1..Len(ds) /\ (i - 1) + 1 = i
    BY <1>1, <1>5, <2>2, <2>3
  <2>5. ds[i - 1] = u
    BY <1>6, <2>2, <2>4
  <2>. QED BY <2>4, <2>5
<1>11. \A i \in 1..Len(ds) : us[ds[i]].returned /\ us[ds[i]].answer = "none"
  <2> TAKE i \in 1..Len(ds)
  <2>1. ts[cs[i + 1]].returned /\ ts[cs[i + 1]].answer = "none"
    BY <1>6 DEF Sound
  <2>2. us[ds[i]] = ts[cs[i + 1]]
    BY <1>4, <1>6, <1>9
  <2>. QED BY <2>1, <2>2
<1>12. \A i, j \in 1..Len(ds) : ds[i] = ds[j] => i = j
  <2> TAKE i, j \in 1..Len(ds)
  <2> HAVE ds[i] = ds[j]
  <2>1. \A m, n \in 1..Len(cs) : cs[m] = cs[n] => m = n
    BY DEF Sound
  <2>2. i + 1 = j + 1
    BY <1>6, <2>1
  <2>. QED BY <2>2
<1>. QED BY <1>2, <1>4, <1>5, <1>8, <1>10, <1>11, <1>12, Zenon DEF Sound, us, ds

\* What a step of a thread leaves alone.
Kept(ts, us) ==
  /\ Len(us) = Len(ts)
  /\ \A u \in 1..Len(ts) :
       /\ us[u].owner = ts[u].owner /\ us[u].request = ts[u].request
       /\ us[u].cancelled = ts[u].cancelled /\ us[u].answer = ts[u].answer

\* A task is replaced by one with the same owner, request and answer.
LEMMA Replaced ==
  ASSUME NEW ts \in Seq(Task), NEW t \in 1..Len(ts), NEW it \in Task,
         it.owner = ts[t].owner, it.request = ts[t].request,
         it.cancelled = ts[t].cancelled, it.answer = ts[t].answer
  PROVE  Kept(ts, [ts EXCEPT ![t] = it])
<1> DEFINE us == [ts EXCEPT ![t] = it]
<1>1. Len(us) = Len(ts) /\ us[t] = it /\ \A u \in 1..Len(ts) : u # t => us[u] = ts[u]
  OBVIOUS
<1> HIDE DEF us
<1>. QED BY <1>1 DEF Kept, us

\* What Sound says of a task.
LEMMA TaskIsOne ==
  ASSUME Sound(tasks, completions), NEW t \in 1..Len(tasks)
  PROVE  tasks \in Seq(Task) /\ tasks[t] \in Task /\ PhaseInv(tasks[t]) /\ AnswerInv(tasks[t])
  BY DEF Sound

\* g_task_return_pointer and g_task_return_error.
LEMMA Returned ==
  ASSUME Sound(tasks, completions), NEW t \in 1..Len(tasks), tasks[t].phase # "done",
         NEW result \in {"pixels", "failed", "cancelled"}, Return(t, result),
         result = "pixels" =>
           Code(tasks[t].request) # <<>> /\ tasks[t].pixels = Drawn(tasks[t].request),
         result = "failed" => Code(tasks[t].request) = <<>>,
         result = "cancelled" => tasks[t].cancelled
  PROVE  Sound(tasks', completions') /\ Kept(tasks, tasks')
<1> DEFINE bytes == IF result = "pixels" THEN tasks[t].pixels ELSE <<>>
           it == [tasks[t] EXCEPT !.phase = "done", !.returned = TRUE, !.result = result,
                                  !.row = 0, !.pixels = bytes]
<1>1. tasks \in Seq(Task) /\ tasks[t] \in Task /\ PhaseInv(tasks[t]) /\ AnswerInv(tasks[t])
  BY TaskIsOne
<1>2. tasks' = [tasks EXCEPT ![t] = it]
  BY <1>1 DEF Return, Task
<1>3. /\ it.phase = "done" /\ it.returned = TRUE /\ it.result = result /\ it.row = 0
      /\ it.pixels = bytes /\ it.owner = tasks[t].owner /\ it.request = tasks[t].request
      /\ it.cancelled = tasks[t].cancelled /\ it.answer = tasks[t].answer
  BY <1>1 DEF Task
<1>4. it \in Task
  <2>1. bytes \in Seq(Bytes)
    BY <1>1 DEF Task
  <2> HIDE DEF bytes
  <2>. QED BY <1>1, <2>1 DEF Task, Phases, Results
<1> HIDE DEF it
<1>5. PhaseInv(it)
  BY <1>3 DEF PhaseInv
<1>6. AnswerInv(it)
  BY <1>1, <1>3 DEF AnswerInv, PhaseInv
<1>7. completions' = IF it.returned /\ ~tasks[t].returned THEN Append(completions, t)
                     ELSE completions
  <2>1. t # None
    BY QrWidgetAssumption
  <2>. QED BY <1>3, <2>1 DEF Return, CompletionsWith
<1>8. Sound([tasks EXCEPT ![t] = it], completions')
  BY <1>3, <1>4, <1>5, <1>6, <1>7, Changed
<1>9. Kept(tasks, [tasks EXCEPT ![t] = it])
  BY <1>1, <1>3, <1>4, Replaced
<1>. QED BY <1>2, <1>8, <1>9

\* A step of a thread that does not end its task.
LEMMA GoesOn ==
  ASSUME Sound(tasks, completions), NEW t \in 1..Len(tasks), NEW it,
         it.owner = tasks[t].owner, it.request = tasks[t].request, it \in Task,
         it.cancelled = tasks[t].cancelled, it.answer = tasks[t].answer,
         it.returned = tasks[t].returned,
         PhaseInv(it), it.phase # "done", tasks[t].phase # "done",
         tasks' = [tasks EXCEPT ![t] = it], completions' = completions
  PROVE  Sound(tasks', completions') /\ Kept(tasks, tasks')
<1>1. tasks \in Seq(Task) /\ tasks[t] \in Task /\ PhaseInv(tasks[t]) /\ AnswerInv(tasks[t])
  BY TaskIsOne
<1>2. AnswerInv(it)
  BY <1>1 DEF AnswerInv, PhaseInv
<1>3. completions' = IF it.returned /\ ~tasks[t].returned THEN Append(completions, t)
                     ELSE completions
  OBVIOUS
<1>4. Sound([tasks EXCEPT ![t] = it], completions')
  BY <1>2, <1>3, Changed
<1>5. Kept(tasks, [tasks EXCEPT ![t] = it])
  BY <1>1, Replaced
<1>. QED BY <1>4, <1>5

\* The request of a task is one.
LEMMA RequestOf ==
  ASSUME Sound(tasks, completions), NEW t \in 1..Len(tasks)
  PROVE  tasks[t].request \in Request /\ tasks[t].request \in AllRequests
  BY TaskIsOne, RequestsAreRequests DEF Task

\* The steps of a thread.
LEMMA ThreadKeepsSound ==
  ASSUME Sound(tasks, completions), NEW t \in 1..Len(tasks), Thread(t)
  PROVE  Sound(tasks', completions') /\ Kept(tasks, tasks')
<1>1. tasks \in Seq(Task) /\ tasks[t] \in Task /\ PhaseInv(tasks[t]) /\ AnswerInv(tasks[t])
  BY TaskIsOne
<1>2. CASE Start(t)
  <2>1. CASE tasks[t].cancelled
    BY <1>2, <2>1, Returned DEF Start
  <2>2. CASE ~tasks[t].cancelled
    <3> DEFINE it == [tasks[t] EXCEPT !.phase = "encoding"]
    <3>1. tasks' = [tasks EXCEPT ![t] = it] /\ completions' = completions
      BY <1>1, <1>2, <2>2 DEF Start, Task
    <3>2. /\ it.phase = "encoding" /\ it.returned = tasks[t].returned
          /\ it.result = tasks[t].result /\ it.row = tasks[t].row
          /\ it.pixels = tasks[t].pixels /\ it.owner = tasks[t].owner
          /\ it.request = tasks[t].request
          /\ it.cancelled = tasks[t].cancelled /\ it.answer = tasks[t].answer
      BY <1>1 DEF Task
    <3>3. it \in Task
      BY <1>1 DEF Task, Phases
    <3> HIDE DEF it
    <3>4. PhaseInv(it)
      BY <1>1, <1>2, <3>2 DEF PhaseInv, Start
    <3>. QED BY <1>2, <3>1, <3>2, <3>3, <3>4, GoesOn DEF Start
  <2>. QED BY <2>1, <2>2
<1>3. CASE EncodeText(t)
  <2>1. CASE Code(tasks[t].request) = <<>>
    BY <1>3, <2>1, Returned DEF EncodeText
  <2>2. CASE Code(tasks[t].request) # <<>> /\ tasks[t].cancelled
    BY <1>3, <2>2, Returned DEF EncodeText
  <2>3. CASE Code(tasks[t].request) # <<>> /\ ~tasks[t].cancelled
    <3> DEFINE it == [tasks[t] EXCEPT !.phase = "painting"]
               request == tasks[t].request
    <3>1. tasks' = [tasks EXCEPT ![t] = it] /\ completions' = completions
      BY <1>1, <1>3, <2>3 DEF EncodeText, Task
    <3>2. /\ it.phase = "painting" /\ it.returned = tasks[t].returned
          /\ it.result = tasks[t].result /\ it.row = tasks[t].row
          /\ it.pixels = tasks[t].pixels /\ it.owner = tasks[t].owner
          /\ it.request = request
          /\ it.cancelled = tasks[t].cancelled /\ it.answer = tasks[t].answer
      BY <1>1 DEF Task
    <3>3. it \in Task
      BY <1>1 DEF Task, Phases
    <3>4. it.row = 0 /\ it.pixels = <<>> /\ it.result = "none"
      BY <1>1, <1>3, <3>2 DEF PhaseInv, EncodeText
    <3>5. QrSize(request) \in Nat
      BY <2>3, RequestOf, CodeIsSquare
    <3>6. EndToEnd(Bytes, Rows(request), RowBytes(request), 0, <<>>)
      <4>1. RowBytes(request) \in Nat
        BY <2>3, RequestOf, RowIsTyped
      <4>2. 0 * RowBytes(request) = 0
        BY <4>1
      <4>. QED BY <4>2 DEF EndToEnd
    <3> HIDE DEF it
    <3>7. PhaseInv(it)
      BY <1>1, <2>3, <3>2, <3>4, <3>5, <3>6 DEF PhaseInv
    <3>. QED BY <1>3, <3>1, <3>2, <3>3, <3>7, GoesOn DEF EncodeText
  <2>. QED BY <2>1, <2>2, <2>3
<1>4. CASE PaintRow(t)
  <2>1. CASE tasks[t].cancelled
    BY <1>4, <2>1, Returned DEF PaintRow
  <2>2. CASE ~tasks[t].cancelled
    <3> DEFINE request == tasks[t].request
               row == tasks[t].row
               bytes == tasks[t].pixels \o PaintedRow(request, row + 1)
               it == [tasks[t] EXCEPT !.row = row + 1, !.pixels = bytes]
    <3>1. tasks' = [tasks EXCEPT ![t] = it] /\ completions' = completions
      BY <1>1, <1>4, <2>2 DEF PaintRow, Task
    <3>2. /\ it.phase = tasks[t].phase /\ it.returned = tasks[t].returned
          /\ it.result = tasks[t].result /\ it.row = row + 1
          /\ it.pixels = bytes /\ it.owner = tasks[t].owner
          /\ it.request = request
          /\ it.cancelled = tasks[t].cancelled /\ it.answer = tasks[t].answer
      BY <1>1 DEF Task
    <3>3. /\ tasks[t].phase = "painting" /\ row \in Nat /\ row < QrSize(request)
          /\ Code(request) # <<>>
          /\ EndToEnd(Bytes, Rows(request), RowBytes(request), row, tasks[t].pixels)
      BY <1>1, <1>4 DEF PaintRow, PhaseInv, Task
    <3>4. QrSize(request) \in Nat /\ request \in Request
      BY <3>3, RequestOf, CodeIsSquare
    <3>5. EndToEnd(Bytes, Rows(request), RowBytes(request), row + 1, bytes)
      <4> DEFINE painted == PaintedRow(request, row + 1)
      <4>1. row + 1 \in 1..QrSize(request)
        BY <3>3, <3>4
      <4>2. painted \in Seq(Bytes) /\ Len(painted) = RowBytes(request)
        BY <3>3, <3>4, <4>1, RowIsPainted
      <4>3. Rows(request)[row + 1] = painted
        BY <4>1 DEF Rows
      <4>4. RowBytes(request) \in Nat
        BY <4>2
      <4> HIDE DEF painted, row, request
      <4>. QED BY <3>3, <4>2, <4>3, <4>4, OneMore DEF painted
    <3>6. bytes \in Seq(Bytes)
      BY <3>5, Zenon DEF EndToEnd
    <3> HIDE DEF bytes
    <3>7. it \in Task
      <4>1. row + 1 \in Nat
        BY <3>3
      <4> DEFINE next == row + 1
      <4> HIDE DEF row
      <4>2. next \in Nat
        BY <4>1
      <4> HIDE DEF next
      <4>3. [tasks[t] EXCEPT !.row = next, !.pixels = bytes] \in Task
        BY <1>1, <3>6, <4>2 DEF Task
      <4>. QED BY <4>3 DEF next
    <3> HIDE DEF it
    <3>8. PhaseInv(it)
      BY <1>1, <3>2, <3>3, <3>4, <3>5 DEF PhaseInv
    <3>. QED BY <3>1, <3>2, <3>3, <3>7, <3>8, GoesOn
  <2>. QED BY <2>1, <2>2
<1>5. CASE Painted(t)
  <2>1. CASE tasks[t].cancelled
    BY <1>5, <2>1, Returned DEF Painted
  <2>2. CASE ~tasks[t].cancelled
    <3>1. /\ tasks[t].phase = "painting" /\ Code(tasks[t].request) # <<>>
          /\ EndToEnd(Bytes, Rows(tasks[t].request), RowBytes(tasks[t].request),
                      QrSize(tasks[t].request), tasks[t].pixels)
      BY <1>1, <1>5 DEF Painted, PhaseInv
    <3>2. tasks[t].pixels = Drawn(tasks[t].request)
      BY <3>1, RequestOf, PaintedIsDrawn
    <3>. QED BY <1>5, <2>2, <3>1, <3>2, Returned DEF Painted
  <2>. QED BY <2>1, <2>2
<1>. QED BY <1>2, <1>3, <1>4, <1>5 DEF Thread

\* Cancelling a task, or none.
CancelledFrom(ts, c, us) ==
  /\ us \in Seq(Task) /\ Len(us) = Len(ts)
  /\ \A u \in 1..Len(ts) :
       /\ us[u].owner = ts[u].owner /\ us[u].request = ts[u].request
       /\ us[u].answer = ts[u].answer
       /\ us[u].cancelled = (ts[u].cancelled \/ u = c)

\* g_cancellable_cancel makes the callback due, unless it was.
LEMMA Cancelled ==
  ASSUME Sound(tasks, completions), NEW c, c \in 1..Len(tasks) \/ c = None
  PROVE  /\ Sound(WithCancelled(c), CompletionsWith(c))
         /\ CancelledFrom(tasks, c, WithCancelled(c))
<1>1. tasks \in Seq(Task)
  BY DEF Sound
<1>2. CASE c = None
  <2>1. WithCancelled(c) = tasks /\ CompletionsWith(c) = completions
    BY <1>2 DEF WithCancelled, CompletionsWith
  <2>2. \A u \in 1..Len(tasks) : u # c /\ tasks[u].cancelled \in BOOLEAN
    <3> TAKE u \in 1..Len(tasks)
    <3>1. tasks[u] \in Task
      BY TaskIsOne
    <3>2. u \in Nat /\ None \notin Nat
      BY QrWidgetAssumption
    <3>. QED BY <1>2, <3>1, <3>2 DEF Task
  <2>. QED BY <1>1, <2>1, <2>2 DEF CancelledFrom
<1>3. CASE c # None
  <2> DEFINE it == [tasks[c] EXCEPT !.cancelled = TRUE, !.returned = TRUE]
             us == [tasks EXCEPT ![c] = it]
  <2>1. c \in 1..Len(tasks)
    BY <1>3
  <2>2. tasks[c] \in Task /\ PhaseInv(tasks[c]) /\ AnswerInv(tasks[c])
    BY <2>1, TaskIsOne
  <2>3. WithCancelled(c) = us
    BY <1>1, <1>3, <2>1, <2>2 DEF WithCancelled, Task
  <2>4. /\ it.phase = tasks[c].phase /\ it.returned = TRUE
        /\ it.result = tasks[c].result /\ it.row = tasks[c].row
        /\ it.pixels = tasks[c].pixels /\ it.owner = tasks[c].owner
        /\ it.request = tasks[c].request
        /\ it.cancelled = TRUE /\ it.answer = tasks[c].answer
    BY <2>2 DEF Task
  <2>5. it \in Task
    BY <2>2 DEF Task
  <2> HIDE DEF it
  <2>6. PhaseInv(it)
    BY <2>2, <2>4 DEF PhaseInv
  <2>7. AnswerInv(it)
    BY <2>2, <2>4 DEF AnswerInv
  <2>8. CompletionsWith(c) = IF it.returned /\ ~tasks[c].returned
                             THEN Append(completions, c) ELSE completions
    BY <1>3, <2>4 DEF CompletionsWith
  <2>9. Sound(us, CompletionsWith(c))
    BY <2>1, <2>4, <2>5, <2>6, <2>7, <2>8, Changed
  <2>10. /\ us \in Seq(Task) /\ Len(us) = Len(tasks) /\ us[c] = it
         /\ \A u \in 1..Len(tasks) : u # c => us[u] = tasks[u]
    BY <1>1, <2>1, <2>5
  <2>11. \A u \in 1..Len(tasks) : tasks[u].cancelled \in BOOLEAN
    <3> TAKE u \in 1..Len(tasks)
    <3>1. tasks[u] \in Task
      BY TaskIsOne
    <3>. QED BY <3>1 DEF Task
  <2> HIDE DEF us
  <2>12. CancelledFrom(tasks, c, us)
    BY <2>4, <2>10, <2>11 DEF CancelledFrom
  <2>. QED BY <2>3, <2>9, <2>12
<1>. QED BY <1>2, <1>3

-----------------------------------------------------------------------------
(* The widget                                                              *)

\* The cancellable is that of a task.
LEMMA InvCancellable ==
  ASSUME IInv PROVE cancellable \in 1..Len(tasks) \/ cancellable = None
  BY DEF IInv, WidgetInv

\* gnome_qr_widget_update, after either of the calls that lead to it.
LEMMA UpdateKeepsInv ==
  ASSUME IInv, Alive, text' \in Texts \cup {Empty}, ecc_level' \in Levels,
         disposed' = disposed, Update
  PROVE  IInv'
<1> DEFINE ts == WithCancelled(cancellable)
           cs == CompletionsWith(cancellable)
<1>1. Sound(tasks, completions) /\ WidgetInv /\ disposed = FALSE /\ Len(tasks) < MaxTasks
  BY DEF IInv, Alive, WidgetInv
<1>2. Sound(ts, cs) /\ CancelledFrom(tasks, cancellable, ts) /\ Len(tasks) \in Nat
  <2>1. Len(tasks) \in Nat
    BY <1>1 DEF Sound
  <2>. QED BY <1>1, <2>1, InvCancellable, Cancelled
<1>3. /\ ts \in Seq(Task) /\ Len(ts) = Len(tasks)
      /\ \A u \in 1..Len(tasks) : ts[u].owner = "widget" => ts[u].cancelled
  <2>1. \A u \in 1..Len(tasks) : ts[u].cancelled = (tasks[u].cancelled \/ u = cancellable)
    BY <1>2 DEF CancelledFrom
  <2>2. \A u \in 1..Len(tasks) : ts[u].owner = tasks[u].owner
    BY <1>2 DEF CancelledFrom
  <2>3. ts \in Seq(Task) /\ Len(ts) = Len(tasks)
    BY <1>2 DEF CancelledFrom
  <2>4. \A u \in 1..Len(tasks) :
          tasks[u].owner = "widget" /\ u # cancellable => tasks[u].cancelled
    BY <1>1 DEF WidgetInv
  <2> HIDE DEF ts
  <2>5. ASSUME NEW u \in 1..Len(tasks), ts[u].owner = "widget" PROVE ts[u].cancelled
    <3>1. tasks[u].owner = "widget"
      BY <2>2, <2>5
    <3>2. tasks[u].cancelled \/ u = cancellable
      BY <2>4, <3>1, Zenon
    <3>. QED BY <2>1, <3>2, Zenon
  <2>. QED BY <2>3, <2>5
<1> HIDE DEF ts, cs
<1>4. CASE text' = Empty
  <2>1. tasks' = ts /\ completions' = cs /\ cancellable' = None /\ texture' = None
    BY <1>4 DEF Update, ts, cs
  <2>2. WidgetInv'
    BY <1>1, <1>2, <1>3, <2>1, QrWidgetAssumption DEF WidgetInv
  <2>. QED BY <1>2, <2>1, <2>2 DEF IInv
<1>5. CASE text' # Empty
  <2> DEFINE request == WidgetRequest(text', ecc_level')
             it == NewTask("widget", request)
             us == Append(ts, it)
  <2>1. tasks' = us /\ completions' = cs /\ cancellable' = Len(tasks) + 1 /\ texture' = texture
    BY <1>5 DEF Update, ts, cs
  <2>2. request \in AllRequests
    BY <1>5 DEF AllRequests
  <2>3. Sound(us, cs)
    <3> HIDE DEF request
    <3>. QED BY <1>2, <2>2, Added
  <2>4. /\ it.owner = "widget" /\ it.request = request /\ it.cancelled = FALSE
        /\ it.answer = "none"
    BY DEF NewTask
  <2>5. /\ Len(us) = Len(tasks) + 1 /\ us[Len(tasks) + 1] = it
        /\ \A u \in 1..Len(tasks) : us[u] = ts[u]
    BY <1>2, <1>3
  <2>6. \A u \in 1..Len(us) : u = Len(tasks) + 1 \/ u \in 1..Len(tasks)
    BY <1>2, <2>5
  <2>7. Len(tasks) + 1 \in 1..Len(us) /\ Len(us) <= MaxTasks
    BY <1>1, <1>2, <2>5, QrWidgetAssumption
  <2> HIDE DEF it, us, request
  <2>8. /\ text' \in Texts \cup {Empty} /\ ecc_level' \in Levels /\ disposed' \in BOOLEAN
        /\ Len(tasks') <= MaxTasks
        /\ texture' \in Range(Picture) \cup {None}
        /\ (disposed \/ text = Empty => texture = None)'
    BY <1>1, <1>5, <2>1, <2>7 DEF WidgetInv
  <2>9. (\A t \in 1..Len(tasks) :
           tasks[t].owner = "widget" /\ t # cancellable => tasks[t].cancelled)'
    BY <1>3, <2>1, <2>5, <2>6
  <2>10. (cancellable # None =>
           /\ cancellable \in 1..Len(tasks) /\ ~disposed /\ text # Empty
           /\ tasks[cancellable].owner = "widget" /\ ~tasks[cancellable].cancelled
           /\ tasks[cancellable].request = WidgetRequest(text, ecc_level)
           /\ tasks[cancellable].answer = "pixels" => texture = Texture(text, ecc_level))'
    BY <1>1, <1>5, <2>1, <2>4, <2>5, <2>7 DEF request
  <2>11. WidgetInv'
    BY <2>8, <2>9, <2>10, Zenon DEF WidgetInv
  <2>. QED BY <2>1, <2>3, <2>11 DEF IInv
<1>. QED BY <1>4, <1>5

\* gnome_qr_widget_dispose
LEMMA DisposeKeepsInv ==
  ASSUME IInv, Dispose
  PROVE  IInv'
<1> DEFINE ts == WithCancelled(cancellable)
           cs == CompletionsWith(cancellable)
<1>1. Sound(tasks, completions) /\ WidgetInv
  BY DEF IInv
<1>2. Sound(ts, cs) /\ CancelledFrom(tasks, cancellable, ts)
  BY <1>1, InvCancellable, Cancelled
<1>3. /\ tasks' = ts /\ completions' = cs /\ cancellable' = None /\ texture' = None
      /\ disposed' = TRUE /\ text' = text /\ ecc_level' = ecc_level
  BY DEF Dispose, ts, cs
<1> HIDE DEF ts, cs
<1>4. Len(ts) = Len(tasks)
  BY <1>2 DEF CancelledFrom
<1>5. ASSUME NEW u \in 1..Len(ts), ts[u].owner = "widget" PROVE ts[u].cancelled
  <2>1. ts[u].owner = tasks[u].owner /\ ts[u].cancelled = (tasks[u].cancelled \/ u = cancellable)
    BY <1>2, <1>4 DEF CancelledFrom
  <2>2. tasks[u].owner = "widget" /\ u # cancellable => tasks[u].cancelled
    BY <1>1, <1>4 DEF WidgetInv
  <2>3. tasks[u].owner = "widget"
    BY <1>5, <2>1
  <2>. QED BY <2>1, <2>2, <2>3, Zenon
<1>6. WidgetInv'
  BY <1>1, <1>3, <1>4, <1>5 DEF WidgetInv
<1>. QED BY <1>2, <1>3, <1>6 DEF IInv

\* What a step of a thread, or of the application, leaves alone of the widget.
LEMMA WidgetIsKept ==
  ASSUME WidgetInv, UNCHANGED widgetVars, Kept(tasks, tasks')
  PROVE  WidgetInv'
<1>1. /\ text' = text /\ ecc_level' = ecc_level /\ texture' = texture
      /\ cancellable' = cancellable /\ disposed' = disposed
  BY DEF widgetVars
<1>2. Len(tasks') = Len(tasks)
  BY DEF Kept
<1>3. /\ text' \in Texts \cup {Empty} /\ ecc_level' \in Levels /\ disposed' \in BOOLEAN
      /\ Len(tasks') <= MaxTasks
      /\ texture' \in Range(Picture) \cup {None}
      /\ (disposed \/ text = Empty => texture = None)'
  BY <1>1, <1>2 DEF WidgetInv
<1>4. (\A t \in 1..Len(tasks) :
         tasks[t].owner = "widget" /\ t # cancellable => tasks[t].cancelled)'
  BY <1>1, <1>2 DEF WidgetInv, Kept
<1>5. (cancellable # None =>
         /\ cancellable \in 1..Len(tasks) /\ ~disposed /\ text # Empty
         /\ tasks[cancellable].owner = "widget" /\ ~tasks[cancellable].cancelled
         /\ tasks[cancellable].request = WidgetRequest(text, ecc_level)
         /\ tasks[cancellable].answer = "pixels" => texture = Texture(text, ecc_level))'
  <2> SUFFICES ASSUME cancellable # None
      PROVE  /\ cancellable \in 1..Len(tasks') /\ ~disposed /\ text # Empty
             /\ tasks'[cancellable].owner = "widget" /\ ~tasks'[cancellable].cancelled
             /\ tasks'[cancellable].request = WidgetRequest(text, ecc_level)
             /\ tasks'[cancellable].answer = "pixels" => texture = Texture(text, ecc_level)
    BY <1>1
  <2>1. /\ cancellable \in 1..Len(tasks) /\ ~disposed /\ text # Empty
        /\ tasks[cancellable].owner = "widget" /\ ~tasks[cancellable].cancelled
        /\ tasks[cancellable].request = WidgetRequest(text, ecc_level)
        /\ tasks[cancellable].answer = "pixels" => texture = Texture(text, ecc_level)
    BY DEF WidgetInv
  <2>2. /\ tasks'[cancellable].owner = tasks[cancellable].owner
        /\ tasks'[cancellable].request = tasks[cancellable].request
        /\ tasks'[cancellable].cancelled = tasks[cancellable].cancelled
        /\ tasks'[cancellable].answer = tasks[cancellable].answer
    BY <2>1 DEF Kept
  <2>. QED BY <1>2, <2>1, <2>2
<1>. QED BY <1>3, <1>4, <1>5, Zenon DEF WidgetInv

\* The threads leave the widget alone.
LEMMA ThreadKeepsInv ==
  ASSUME IInv, ThreadStep
  PROVE  IInv'
<1>1. Sound(tasks, completions) /\ WidgetInv
  BY DEF IInv
<1>2. PICK t \in DOMAIN tasks : Thread(t) /\ UNCHANGED widgetVars
  BY DEF ThreadStep
<1>3. t \in 1..Len(tasks)
  BY <1>1 DEF Sound
<1>4. Sound(tasks', completions') /\ Kept(tasks, tasks')
  BY <1>1, <1>2, <1>3, ThreadKeepsSound
<1>5. WidgetInv'
  BY <1>1, <1>2, <1>4, WidgetIsKept
<1>. QED BY <1>4, <1>5 DEF IInv

\* A request of the application is no concern of the widget.
LEMMA AsyncKeepsInv ==
  ASSUME IInv, NEW request \in Requests, GenerateQrCodeAsync(request)
  PROVE  IInv'
<1> DEFINE it == NewTask("application", request)
<1>1. Sound(tasks, completions) /\ WidgetInv /\ Len(tasks) < MaxTasks /\ Len(tasks) \in Nat
      /\ tasks \in Seq(Task)
  BY DEF IInv, GenerateQrCodeAsync, Sound
<1>2. tasks' = Append(tasks, it) /\ completions' = completions /\ UNCHANGED widgetVars
  BY DEF GenerateQrCodeAsync
<1>3. Sound(tasks', completions')
  BY <1>1, <1>2, Added DEF AllRequests
<1>4. it.owner = "application"
  BY DEF NewTask
<1> HIDE DEF it
<1>5. /\ Len(tasks') = Len(tasks) + 1 /\ tasks'[Len(tasks) + 1] = it
      /\ \A u \in 1..Len(tasks) : tasks'[u] = tasks[u]
  BY <1>1, <1>2
<1>6. \A u \in 1..Len(tasks') : u = Len(tasks) + 1 \/ u \in 1..Len(tasks)
  BY <1>1, <1>5
<1>7. /\ text' = text /\ ecc_level' = ecc_level /\ texture' = texture
      /\ cancellable' = cancellable /\ disposed' = disposed
  BY <1>2 DEF widgetVars
<1>8. Len(tasks') <= MaxTasks
  BY <1>1, <1>5, QrWidgetAssumption
<1>9. /\ text' \in Texts \cup {Empty} /\ ecc_level' \in Levels /\ disposed' \in BOOLEAN
      /\ texture' \in Range(Picture) \cup {None}
      /\ (disposed \/ text = Empty => texture = None)'
  BY <1>1, <1>7 DEF WidgetInv
<1>10. (\A t \in 1..Len(tasks) :
          tasks[t].owner = "widget" /\ t # cancellable => tasks[t].cancelled)'
  BY <1>1, <1>4, <1>5, <1>6, <1>7 DEF WidgetInv
<1>11. (cancellable # None =>
         /\ cancellable \in 1..Len(tasks) /\ ~disposed /\ text # Empty
         /\ tasks[cancellable].owner = "widget" /\ ~tasks[cancellable].cancelled
         /\ tasks[cancellable].request = WidgetRequest(text, ecc_level)
         /\ tasks[cancellable].answer = "pixels" => texture = Texture(text, ecc_level))'
  <2> SUFFICES ASSUME cancellable # None
      PROVE  /\ cancellable \in 1..Len(tasks') /\ ~disposed /\ text # Empty
             /\ tasks'[cancellable].owner = "widget" /\ ~tasks'[cancellable].cancelled
             /\ tasks'[cancellable].request = WidgetRequest(text, ecc_level)
             /\ tasks'[cancellable].answer = "pixels" => texture = Texture(text, ecc_level)
    BY <1>7
  <2>1. /\ cancellable \in 1..Len(tasks) /\ ~disposed /\ text # Empty
        /\ tasks[cancellable].owner = "widget" /\ ~tasks[cancellable].cancelled
        /\ tasks[cancellable].request = WidgetRequest(text, ecc_level)
        /\ tasks[cancellable].answer = "pixels" => texture = Texture(text, ecc_level)
    BY <1>1 DEF WidgetInv
  <2>2. tasks'[cancellable] = tasks[cancellable] /\ cancellable \in 1..Len(tasks')
    BY <1>1, <1>5, <2>1
  <2>. QED BY <2>1, <2>2
<1>12. WidgetInv'
  BY <1>8, <1>9, <1>10, <1>11, Zenon DEF WidgetInv
<1>. QED BY <1>3, <1>12 DEF IInv

\* The application cancels tasks of its own only.
LEMMA CancelKeepsInv ==
  ASSUME IInv, NEW t \in DOMAIN tasks, Cancel(t)
  PROVE  IInv'
<1>1. Sound(tasks, completions) /\ WidgetInv /\ t \in 1..Len(tasks)
  BY DEF IInv, Sound
<1>2. Sound(tasks', completions') /\ CancelledFrom(tasks, t, tasks')
  BY <1>1, Cancelled DEF Cancel
<1>3. /\ text' = text /\ ecc_level' = ecc_level /\ texture' = texture
      /\ cancellable' = cancellable /\ disposed' = disposed
  BY DEF widgetVars, Cancel
<1>4. Len(tasks') = Len(tasks)
  BY <1>2 DEF CancelledFrom
<1>5. /\ text' \in Texts \cup {Empty} /\ ecc_level' \in Levels /\ disposed' \in BOOLEAN
      /\ Len(tasks') <= MaxTasks
      /\ texture' \in Range(Picture) \cup {None}
      /\ (disposed \/ text = Empty => texture = None)'
  BY <1>1, <1>3, <1>4 DEF WidgetInv
<1>6. (\A u \in 1..Len(tasks) :
         tasks[u].owner = "widget" /\ u # cancellable => tasks[u].cancelled)'
  <2> SUFFICES ASSUME NEW u \in 1..Len(tasks), tasks'[u].owner = "widget", u # cancellable
               PROVE  tasks'[u].cancelled
    BY <1>3, <1>4
  <2>1. tasks'[u].owner = tasks[u].owner /\ tasks'[u].cancelled = (tasks[u].cancelled \/ u = t)
    BY <1>2 DEF CancelledFrom
  <2>2. tasks[u].cancelled
    BY <1>1, <2>1 DEF WidgetInv
  <2>. QED BY <2>1, <2>2, Zenon
<1>7. (cancellable # None =>
         /\ cancellable \in 1..Len(tasks) /\ ~disposed /\ text # Empty
         /\ tasks[cancellable].owner = "widget" /\ ~tasks[cancellable].cancelled
         /\ tasks[cancellable].request = WidgetRequest(text, ecc_level)
         /\ tasks[cancellable].answer = "pixels" => texture = Texture(text, ecc_level))'
  <2> SUFFICES ASSUME cancellable # None
      PROVE  /\ cancellable \in 1..Len(tasks') /\ ~disposed /\ text # Empty
             /\ tasks'[cancellable].owner = "widget" /\ ~tasks'[cancellable].cancelled
             /\ tasks'[cancellable].request = WidgetRequest(text, ecc_level)
             /\ tasks'[cancellable].answer = "pixels" => texture = Texture(text, ecc_level)
    BY <1>3
  <2>1. /\ cancellable \in 1..Len(tasks) /\ ~disposed /\ text # Empty
        /\ tasks[cancellable].owner = "widget" /\ ~tasks[cancellable].cancelled
        /\ tasks[cancellable].request = WidgetRequest(text, ecc_level)
        /\ tasks[cancellable].answer = "pixels" => texture = Texture(text, ecc_level)
    BY <1>1 DEF WidgetInv
  <2>2. cancellable # t
    BY <2>1 DEF Cancel
  <2>3. /\ tasks'[cancellable].owner = tasks[cancellable].owner
        /\ tasks'[cancellable].request = tasks[cancellable].request
        /\ tasks'[cancellable].cancelled = (tasks[cancellable].cancelled \/ cancellable = t)
        /\ tasks'[cancellable].answer = tasks[cancellable].answer
    BY <1>2, <2>1 DEF CancelledFrom
  <2>4. ~tasks'[cancellable].cancelled
    BY <2>1, <2>2, <2>3, Zenon
  <2>. QED BY <1>4, <2>1, <2>3, <2>4
<1>8. WidgetInv'
  BY <1>5, <1>6, <1>7, Zenon DEF WidgetInv
<1>. QED BY <1>2, <1>8 DEF IInv

\* The answer to a task whose callback is called.
LEMMA AnswerIsRight ==
  ASSUME IInv, NEW t, Answered(t)
  PROVE  /\ t \in 1..Len(tasks) /\ tasks[t] \in Task
         /\ Answer(t) \in Results \ {"none"}
         /\ Answer(t) \in {"pixels", "failed"} => tasks[t].result = Answer(t)
         /\ Answer(t) \in {"pixels", "failed"} => ~tasks[t].cancelled
         /\ Answer(t) = "pixels" =>
              Code(tasks[t].request) # <<>> /\ tasks[t].pixels = Drawn(tasks[t].request)
         /\ Answer(t) = "cancelled" => tasks[t].cancelled
         /\ tasks[t].answer = "none"
         /\ Sound(tasks', completions')
         /\ tasks' = [tasks EXCEPT ![t].answer = Answer(t)]
<1>1. /\ Sound(tasks, completions) /\ completions # <<>> /\ t = Head(completions)
      /\ completions' = Tail(completions)
      /\ tasks' = [tasks EXCEPT ![t].answer = Answer(t)]
  BY DEF IInv, Answered
<1>2. completions \in Seq(1..Len(tasks)) /\ tasks \in Seq(Task)
  BY <1>1 DEF Sound
<1>3. t \in 1..Len(tasks) /\ 1 \in 1..Len(completions) /\ t = completions[1]
  BY <1>1, <1>2
<1>4. tasks[t] \in Task /\ PhaseInv(tasks[t]) /\ AnswerInv(tasks[t])
  BY <1>1, <1>3, TaskIsOne
<1>5. tasks[t].returned /\ tasks[t].answer = "none"
  BY <1>1, <1>3 DEF Sound
<1>6. tasks[t].cancelled \/ tasks[t].phase = "done"
  BY <1>4, <1>5 DEF AnswerInv
<1>7. tasks[t].result \in Results
  BY <1>4 DEF Task
<1>8. tasks[t].phase = "done" => tasks[t].result # "none"
  BY <1>4 DEF PhaseInv
<1>9. Answer(t) = IF tasks[t].cancelled THEN "cancelled" ELSE tasks[t].result
  BY DEF Answer
<1>10. /\ Answer(t) \in Results \ {"none"}
       /\ Answer(t) \in {"pixels", "failed"} =>
            tasks[t].result = Answer(t) /\ ~tasks[t].cancelled
  BY <1>6, <1>7, <1>8, <1>9 DEF Results
<1>11. Answer(t) = "cancelled" => tasks[t].cancelled
  BY <1>4, <1>9 DEF PhaseInv
<1>12. Answer(t) = "pixels" =>
         Code(tasks[t].request) # <<>> /\ tasks[t].pixels = Drawn(tasks[t].request)
  BY <1>4, <1>10 DEF PhaseInv
<1> DEFINE a == Answer(t)
<1>13. Sound([tasks EXCEPT ![t].answer = a], Tail(completions))
  <2>1. /\ a \in Results \ {"none"} /\ (a \in {"pixels", "failed"} => tasks[t].result = a)
        /\ (a = "cancelled" => tasks[t].cancelled)
    BY <1>10, <1>11
  <2> HIDE DEF a
  <2>. QED BY <1>1, <2>1, CalledBack
<1>14. Sound(tasks', completions')
  BY <1>1, <1>13
<1>. QED BY <1>1, <1>3, <1>4, <1>5, <1>10, <1>11, <1>12, <1>14, Zenon

\* A callback changes the answer of its task, and nothing else of the tasks.
LEMMA AnsweredIsKept ==
  ASSUME IInv, NEW t, Answered(t)
  PROVE  /\ Len(tasks') = Len(tasks)
         /\ \A u \in 1..Len(tasks) :
              /\ tasks'[u].owner = tasks[u].owner /\ tasks'[u].request = tasks[u].request
              /\ tasks'[u].cancelled = tasks[u].cancelled
              /\ u # t => tasks'[u].answer = tasks[u].answer
         /\ tasks'[t].answer = Answer(t)
<1>1. /\ tasks' = [tasks EXCEPT ![t].answer = Answer(t)] /\ t \in 1..Len(tasks)
      /\ tasks \in Seq(Task) /\ tasks[t] \in Task
  BY AnswerIsRight DEF IInv, Sound
<1> DEFINE it == [tasks[t] EXCEPT !.answer = Answer(t)]
<1>2. tasks' = [tasks EXCEPT ![t] = it]
  BY <1>1
<1>3. /\ it.owner = tasks[t].owner /\ it.request = tasks[t].request
      /\ it.cancelled = tasks[t].cancelled /\ it.answer = Answer(t)
  BY <1>1 DEF Task
<1> HIDE DEF it
<1>4. /\ Len(tasks') = Len(tasks) /\ tasks'[t] = it
      /\ \A u \in 1..Len(tasks) : u # t => tasks'[u] = tasks[u]
  BY <1>1, <1>2
<1>. QED BY <1>3, <1>4

\* The texture of the widget's text and level is the picture of its request.
LEMMA TextureIsPicture ==
  ASSUME NEW string \in Texts, NEW level \in Levels,
         Code(WidgetRequest(string, level)) # <<>>
  PROVE  /\ Texture(string, level) =
              [size |-> PixelSize(WidgetRequest(string, level)),
               pixels |-> Drawn(WidgetRequest(string, level))]
         /\ Texture(string, level) \in Range(Picture)
         /\ Modules[string][level] # <<>>
<1> DEFINE request == WidgetRequest(string, level)
<1>1. request \in AllRequests
  BY DEF AllRequests
<1>2. Modules[string][level] # <<>>
  BY DEF Code, WidgetRequest
<1> HIDE DEF request
<1>3. Picture[request] = [size |-> PixelSize(request), pixels |-> Drawn(request)]
      /\ request \in DOMAIN Picture
  BY <1>1 DEF Picture, request
<1>4. Picture[request] \in Range(Picture)
  BY <1>3 DEF Range
<1>. QED BY <1>2, <1>3, <1>4 DEF Texture, request

\* Only of the text that it has now, at the level that it has, does the widget
\* show the code that comes.
LEMMA ShownIsOfTheText ==
  ASSUME IInv, NEW t, OnQrCodeGenerated(t), Answer(t) = "pixels"
  PROVE  /\ t = cancellable /\ ~disposed /\ text # Empty /\ text \in Texts
         /\ Fits(text, ecc_level)
         /\ texture' = Texture(text, ecc_level) /\ texture' \in Range(Picture)
<1>1. /\ Answered(t) /\ tasks[t].owner = "widget"
      /\ texture' = [size |-> PixelSize(tasks[t].request), pixels |-> tasks[t].pixels]
  BY DEF OnQrCodeGenerated
<1>2. /\ t \in 1..Len(tasks) /\ ~tasks[t].cancelled
      /\ Code(tasks[t].request) # <<>> /\ tasks[t].pixels = Drawn(tasks[t].request)
  BY <1>1, AnswerIsRight
<1>3. t = cancellable
  BY <1>1, <1>2 DEF IInv, WidgetInv
<1>4. t # None
  BY <1>2, QrWidgetAssumption
<1>5. /\ ~disposed /\ text # Empty /\ text \in Texts /\ ecc_level \in Levels
      /\ tasks[t].request = WidgetRequest(text, ecc_level)
  BY <1>3, <1>4 DEF IInv, WidgetInv
<1>6. /\ Texture(text, ecc_level) =
           [size |-> PixelSize(WidgetRequest(text, ecc_level)),
            pixels |-> Drawn(WidgetRequest(text, ecc_level))]
      /\ Texture(text, ecc_level) \in Range(Picture)
      /\ Modules[text][ecc_level] # <<>>
  BY <1>2, <1>5, TextureIsPicture
<1>. QED BY <1>1, <1>2, <1>3, <1>5, <1>6 DEF Fits

\* on_qr_code_generated
LEMMA GeneratedKeepsInv ==
  ASSUME IInv, NEW t \in DOMAIN tasks, OnQrCodeGenerated(t)
  PROVE  IInv'
<1>1. /\ Answered(t) /\ tasks[t].owner = "widget" /\ WidgetInv
      /\ text' = text /\ ecc_level' = ecc_level /\ cancellable' = cancellable
      /\ disposed' = disposed
      /\ Answer(t) # "pixels" => texture' = texture
  BY DEF OnQrCodeGenerated, IInv
<1>2. Sound(tasks', completions')
  BY <1>1, AnswerIsRight
<1>3. /\ Len(tasks') = Len(tasks)
      /\ \A u \in 1..Len(tasks) :
           /\ tasks'[u].owner = tasks[u].owner /\ tasks'[u].request = tasks[u].request
           /\ tasks'[u].cancelled = tasks[u].cancelled
           /\ u # t => tasks'[u].answer = tasks[u].answer
      /\ tasks'[t].answer = Answer(t)
  BY <1>1, AnsweredIsKept
<1>4. Answer(t) = "pixels" =>
        /\ t = cancellable /\ ~disposed /\ text # Empty
        /\ texture' = Texture(text, ecc_level) /\ texture' \in Range(Picture)
  BY ShownIsOfTheText
<1>5. /\ text' \in Texts \cup {Empty} /\ ecc_level' \in Levels /\ disposed' \in BOOLEAN
      /\ Len(tasks') <= MaxTasks
      /\ texture' \in Range(Picture) \cup {None}
      /\ (disposed \/ text = Empty => texture = None)'
  BY <1>1, <1>3, <1>4 DEF WidgetInv
<1>6. (\A u \in 1..Len(tasks) :
         tasks[u].owner = "widget" /\ u # cancellable => tasks[u].cancelled)'
  BY <1>1, <1>3 DEF WidgetInv
<1>7. (cancellable # None =>
         /\ cancellable \in 1..Len(tasks) /\ ~disposed /\ text # Empty
         /\ tasks[cancellable].owner = "widget" /\ ~tasks[cancellable].cancelled
         /\ tasks[cancellable].request = WidgetRequest(text, ecc_level)
         /\ tasks[cancellable].answer = "pixels" => texture = Texture(text, ecc_level))'
  <2> SUFFICES ASSUME cancellable # None
      PROVE  /\ cancellable \in 1..Len(tasks') /\ ~disposed /\ text # Empty
             /\ tasks'[cancellable].owner = "widget" /\ ~tasks'[cancellable].cancelled
             /\ tasks'[cancellable].request = WidgetRequest(text, ecc_level)
             /\ tasks'[cancellable].answer = "pixels" => texture' = Texture(text, ecc_level)
    BY <1>1 DEF Texture
  <2>1. /\ cancellable \in 1..Len(tasks) /\ ~disposed /\ text # Empty
        /\ tasks[cancellable].owner = "widget" /\ ~tasks[cancellable].cancelled
        /\ tasks[cancellable].request = WidgetRequest(text, ecc_level)
        /\ tasks[cancellable].answer = "pixels" => texture = Texture(text, ecc_level)
    BY <1>1 DEF WidgetInv
  <2>2. tasks'[cancellable].answer = "pixels" => texture' = Texture(text, ecc_level)
    <3>1. CASE cancellable = t
      BY <1>3, <1>4, <3>1
    <3>2. CASE cancellable # t
      BY <1>1, <1>3, <1>4, <2>1, <3>2
    <3>. QED BY <3>1, <3>2
  <2>3. cancellable \in 1..Len(tasks')
    BY <1>3, <2>1
  <2>. QED BY <1>3, <2>1, <2>2, <2>3
<1>8. WidgetInv'
  BY <1>5, <1>6, <1>7, Zenon DEF WidgetInv
<1>. QED BY <1>2, <1>8 DEF IInv

\* gnome_qr_generate_qr_code_finish, called by the application.
LEMMA FinishKeepsInv ==
  ASSUME IInv, NEW t \in DOMAIN tasks, GenerateQrCodeFinish(t)
  PROVE  IInv'
<1>1. /\ Answered(t) /\ tasks[t].owner = "application" /\ WidgetInv
      /\ text' = text /\ ecc_level' = ecc_level /\ cancellable' = cancellable
      /\ disposed' = disposed /\ texture' = texture
  BY DEF GenerateQrCodeFinish, IInv, widgetVars
<1>2. Sound(tasks', completions')
  BY <1>1, AnswerIsRight
<1>3. /\ Len(tasks') = Len(tasks)
      /\ \A u \in 1..Len(tasks) :
           /\ tasks'[u].owner = tasks[u].owner /\ tasks'[u].request = tasks[u].request
           /\ tasks'[u].cancelled = tasks[u].cancelled
           /\ u # t => tasks'[u].answer = tasks[u].answer
  BY <1>1, AnsweredIsKept
<1>4. /\ text' \in Texts \cup {Empty} /\ ecc_level' \in Levels /\ disposed' \in BOOLEAN
      /\ Len(tasks') <= MaxTasks
      /\ texture' \in Range(Picture) \cup {None}
      /\ (disposed \/ text = Empty => texture = None)'
  BY <1>1, <1>3 DEF WidgetInv
<1>5. (\A u \in 1..Len(tasks) :
         tasks[u].owner = "widget" /\ u # cancellable => tasks[u].cancelled)'
  BY <1>1, <1>3 DEF WidgetInv
<1>6. (cancellable # None =>
         /\ cancellable \in 1..Len(tasks) /\ ~disposed /\ text # Empty
         /\ tasks[cancellable].owner = "widget" /\ ~tasks[cancellable].cancelled
         /\ tasks[cancellable].request = WidgetRequest(text, ecc_level)
         /\ tasks[cancellable].answer = "pixels" => texture = Texture(text, ecc_level))'
  <2> SUFFICES ASSUME cancellable # None
      PROVE  /\ cancellable \in 1..Len(tasks') /\ ~disposed /\ text # Empty
             /\ tasks'[cancellable].owner = "widget" /\ ~tasks'[cancellable].cancelled
             /\ tasks'[cancellable].request = WidgetRequest(text, ecc_level)
             /\ tasks'[cancellable].answer = "pixels" => texture = Texture(text, ecc_level)
    BY <1>1 DEF Texture
  <2>1. /\ cancellable \in 1..Len(tasks) /\ ~disposed /\ text # Empty
        /\ tasks[cancellable].owner = "widget" /\ ~tasks[cancellable].cancelled
        /\ tasks[cancellable].request = WidgetRequest(text, ecc_level)
        /\ tasks[cancellable].answer = "pixels" => texture = Texture(text, ecc_level)
    BY <1>1 DEF WidgetInv
  <2>2. cancellable # t
    BY <1>1, <2>1
  <2>3. cancellable \in 1..Len(tasks')
    BY <1>3, <2>1
  <2>. QED BY <1>3, <2>1, <2>2, <2>3
<1>7. WidgetInv'
  BY <1>4, <1>5, <1>6, Zenon DEF WidgetInv
<1>. QED BY <1>2, <1>7 DEF IInv

\* The invariant holds at first.
LEMMA InitInv == Init => IInv
<1> SUFFICES ASSUME Init PROVE IInv
  OBVIOUS
<1>1. /\ tasks = <<>> /\ completions = <<>> /\ text = Empty /\ ecc_level = FirstLevel
      /\ texture = None /\ cancellable = None /\ disposed = FALSE
  BY DEF Init
<1>2. /\ tasks \in Seq(Task) /\ completions \in Seq(1..Len(tasks)) /\ Len(tasks) = 0
      /\ Len(completions) = 0
  BY <1>1
<1>3. Sound(tasks, completions)
  BY <1>2 DEF Sound
<1>4. WidgetInv
  <2>1. MaxTasks \in Nat /\ FirstLevel \in Levels
    BY QrWidgetAssumption
  <2>2. \A t \in 1..Len(tasks) :
          tasks[t].owner = "widget" /\ t # cancellable => tasks[t].cancelled
    BY <1>2
  <2>3. Len(tasks) <= MaxTasks
    BY <1>2, <2>1
  <2>. QED BY <1>1, <2>1, <2>2, <2>3, Zenon DEF WidgetInv
<1>. QED BY <1>3, <1>4 DEF IInv

\* Every step keeps it.
LEMMA NextKeepsInv == IInv /\ [Next]_vars => IInv'
<1> SUFFICES ASSUME IInv, [Next]_vars PROVE IInv'
  OBVIOUS
<1>1. ASSUME NEW new \in Texts \cup {Empty}, SetText(new) PROVE IInv'
  <2>1. text' \in Texts \cup {Empty} /\ ecc_level' \in Levels /\ disposed' = disposed
        /\ Alive /\ Update
    BY <1>1 DEF SetText, IInv, WidgetInv
  <2>. QED BY <2>1, UpdateKeepsInv
<1>2. ASSUME NEW new \in Levels, SetEccLevel(new) PROVE IInv'
  <2>1. text' \in Texts \cup {Empty} /\ ecc_level' \in Levels /\ disposed' = disposed
        /\ Alive /\ Update
    BY <1>2 DEF SetEccLevel, IInv, WidgetInv
  <2>. QED BY <2>1, UpdateKeepsInv
<1>3. CASE UNCHANGED vars
  <2>1. /\ text' = text /\ ecc_level' = ecc_level /\ cancellable' = cancellable
        /\ disposed' = disposed /\ texture' = texture /\ tasks' = tasks
        /\ completions' = completions
    BY <1>3 DEF vars, taskVars, widgetVars
  <2>2. Kept(tasks, tasks') /\ UNCHANGED widgetVars
    BY <2>1 DEF Kept, widgetVars
  <2>3. WidgetInv'
    BY <2>2, WidgetIsKept DEF IInv
  <2>4. Sound(tasks', completions')
    BY <2>1 DEF IInv
  <2>. QED BY <2>3, <2>4 DEF IInv
<1>4. CASE MainLoop
  BY <1>4, GeneratedKeepsInv, FinishKeepsInv DEF MainLoop
<1>. QED BY <1>1, <1>2, <1>3, <1>4, DisposeKeepsInv, AsyncKeepsInv, ThreadKeepsInv,
            CancelKeepsInv DEF Next

\* IInv holds in every state that a widget, an application and the threads reach.
THEOREM InvariantHolds == Spec => []IInv
<1>. QED BY InitInv, NextKeepsInv, PTL DEF Spec

-----------------------------------------------------------------------------
(* The theorems                                                            *)

\* The type invariant is part of it.
LEMMA TypeFollows == IInv => TypeOK
<1> SUFFICES ASSUME IInv PROVE TypeOK
  OBVIOUS
<1>1. /\ Sound(tasks, completions) /\ WidgetInv /\ tasks \in Seq(Task)
      /\ completions \in Seq(1..Len(tasks)) /\ DOMAIN tasks = 1..Len(tasks)
  BY DEF IInv, Sound
<1>2. ASSUME NEW t \in DOMAIN tasks
      PROVE  /\ tasks[t].owner \in {"widget", "application"}
             /\ tasks[t].request \in AllRequests
             /\ tasks[t].phase \in {"queued", "encoding", "painting", "done"}
             /\ tasks[t].row \in 0..QrSize(tasks[t].request)
             /\ tasks[t].result \in Results /\ tasks[t].answer \in Results
             /\ {tasks[t].cancelled, tasks[t].returned} \subseteq BOOLEAN
             /\ tasks[t].pixels \in Seq(0..255)
  <2>1. tasks[t] \in Task /\ PhaseInv(tasks[t])
    BY <1>1, TaskIsOne
  <2>2. tasks[t].row \in 0..QrSize(tasks[t].request)
    <3>1. tasks[t].row \in Nat /\ tasks[t].request \in Request
      BY <1>1, <2>1, RequestOf DEF Task
    <3>2. Code(tasks[t].request) \in Seq(Seq(BOOLEAN))
      BY <3>1, QrCodeAssumption DEF Code, Request
    <3>3. QrSize(tasks[t].request) \in Nat
      BY <3>2 DEF QrSize
    <3>. QED BY <2>1, <3>1, <3>3 DEF PhaseInv
  <2>. QED BY <2>1, <2>2 DEF Task, Phases, Bytes
<1>3. completions \in Seq(DOMAIN tasks) /\ IsInjective(completions)
  BY <1>1 DEF Sound, IsInjective
<1>4. cancellable \in DOMAIN tasks \cup {None}
  BY <1>1, InvCancellable
<1>. QED BY <1>1, <1>2, <1>3, <1>4, Zenon DEF TypeOK, WidgetInv

\* gnome-qr.c, gnome-qr-widget.c: the variables have the types that TypeOK gives.
THEOREM TypeCorrect == Spec => []TypeOK
<1>. QED BY InvariantHolds, TypeFollows, PTL

\* A task answered with pixels has the picture of its request.
LEMMA PixelsFollow == IInv => PixelsAreTheModules
<1> SUFFICES ASSUME IInv, NEW t \in DOMAIN tasks, tasks[t].answer = "pixels"
    PROVE  /\ tasks[t].pixels = Picture[tasks[t].request].pixels
           /\ PixelSize(tasks[t].request) >= tasks[t].request.requested_size
           /\ PixelSize(tasks[t].request) - QrSize(tasks[t].request) <
                Max({1, tasks[t].request.requested_size})
  BY DEF PixelsAreTheModules
<1> DEFINE request == tasks[t].request
<1>1. Sound(tasks, completions) /\ t \in 1..Len(tasks)
  BY DEF IInv, Sound
<1>2. tasks[t] \in Task /\ PhaseInv(tasks[t]) /\ AnswerInv(tasks[t])
  BY <1>1, TaskIsOne
<1>3. Code(request) # <<>> /\ tasks[t].pixels = Drawn(request)
  BY <1>2 DEF AnswerInv, PhaseInv
<1>4. request \in AllRequests /\ request \in Request
  BY <1>1, RequestOf
<1> HIDE DEF request
<1>5. Picture[request].pixels = Drawn(request)
  BY <1>3, <1>4 DEF Picture
<1>6. /\ PixelSize(request) >= request.requested_size
      /\ PixelSize(request) - QrSize(request) < Max({1, request.requested_size})
  BY <1>3, <1>4, Blocks
<1>. QED BY <1>3, <1>5, <1>6 DEF request

\* gnome_qr_generate_qr_code_sync: the pixels that a request is answered with are
\* the picture of its code, byte for byte, in a square at least as large as was
\* asked for and no larger than whole blocks need.  For every code, format, color
\* and size, as long as the number of its bytes fits the int of the code.
THEOREM PixelsAreRight == Spec => []PixelsAreTheModules
<1>. QED BY InvariantHolds, PixelsFollow, PTL

\* What the widget shows, by the answer to its last task.
LEMMA ShownFollows == IInv => ShowsItsText
<1> SUFFICES ASSUME IInv PROVE ShowsItsText
  OBVIOUS
<1>1. disposed \/ text = Empty => texture = None
  BY DEF IInv, WidgetInv
<1>2. ASSUME cancellable # None
      PROVE  CASE tasks[cancellable].answer = "pixels" -> texture = Texture(text, ecc_level)
               [] tasks[cancellable].answer = "failed" -> ~Fits(text, ecc_level)
               [] OTHER -> tasks[cancellable].answer = "none"
  <2>1. /\ cancellable \in 1..Len(tasks) /\ Sound(tasks, completions)
        /\ ~tasks[cancellable].cancelled
        /\ tasks[cancellable].request = WidgetRequest(text, ecc_level)
        /\ tasks[cancellable].answer = "pixels" => texture = Texture(text, ecc_level)
    BY <1>2 DEF IInv, WidgetInv
  <2>2. /\ tasks[cancellable] \in Task /\ PhaseInv(tasks[cancellable])
        /\ AnswerInv(tasks[cancellable])
    BY <2>1, TaskIsOne
  <2>3. tasks[cancellable].answer \in {"none", "pixels", "failed"}
    BY <2>1, <2>2 DEF AnswerInv, Task, Results
  <2>4. tasks[cancellable].answer = "failed" => ~Fits(text, ecc_level)
    <3>1. tasks[cancellable].answer = "failed" => Code(WidgetRequest(text, ecc_level)) = <<>>
      BY <2>1, <2>2 DEF AnswerInv, PhaseInv
    <3>. QED BY <3>1 DEF Code, WidgetRequest, Fits
  <2>. QED BY <2>1, <2>3, <2>4
<1>. QED BY <1>1, <1>2, Zenon DEF ShowsItsText

\* gnome_qr_widget_update and on_qr_code_generated: the widget shows the code of
\* its text at its level once that has come, and nothing without a text or once
\* disposed of, whatever was asked for before and is still on its way.
THEOREM TheTextIsShown == Spec => []ShowsItsText
<1>. QED BY InvariantHolds, ShownFollows, PTL

\* A task that has returned was answered or is due its callback.
LEMMA AnswersFollow == IInv => NoAnswerIsLost
<1> SUFFICES ASSUME IInv, NEW t \in DOMAIN tasks,
                    tasks[t].cancelled \/ tasks[t].phase = "done",
                    tasks[t].answer = "none"
    PROVE  t \in Range(completions)
  BY DEF NoAnswerIsLost
<1>1. Sound(tasks, completions) /\ t \in 1..Len(tasks)
  BY DEF IInv, Sound
<1>2. tasks[t].returned
  BY <1>1, TaskIsOne DEF AnswerInv
<1>3. PICK i \in 1..Len(completions) : completions[i] = t
  BY <1>1, <1>2 DEF Sound
<1>4. DOMAIN completions = 1..Len(completions)
  BY <1>1 DEF Sound
<1>. QED BY <1>3, <1>4 DEF Range

\* gnome_qr_generate_qr_code_async: the callback of each request that is cancelled,
\* fails or succeeds was called or is due.
THEOREM EveryAnswerComes == Spec => []NoAnswerIsLost
<1>. QED BY InvariantHolds, AnswersFollow, PTL

\* Only on_qr_code_generated sets a texture.
LEMMA NoOldTextStep ==
  ASSUME IInv, [Next]_vars, texture' \notin {texture, None}
  PROVE  Fits(text, ecc_level) /\ texture' = Texture(text, ecc_level)
<1>1. ASSUME Update PROVE FALSE
  BY <1>1 DEF Update
<1>2. ASSUME UNCHANGED widgetVars PROVE FALSE
  BY <1>2 DEF widgetVars
<1>3. \A new : ~SetText(new) /\ ~SetEccLevel(new)
  BY <1>1 DEF SetText, SetEccLevel
<1>4. ~Dispose
  BY DEF Dispose
<1>5. \A t : ~GenerateQrCodeFinish(t) /\ ~Cancel(t) /\ ~GenerateQrCodeAsync(t)
  BY <1>2 DEF GenerateQrCodeFinish, Cancel, GenerateQrCodeAsync
<1>6. ~ThreadStep
  BY <1>2 DEF ThreadStep
<1>7. ~(UNCHANGED vars)
  BY <1>2 DEF vars, widgetVars
<1>8. PICK t \in DOMAIN tasks : OnQrCodeGenerated(t)
  BY <1>3, <1>4, <1>5, <1>6, <1>7 DEF Next, MainLoop
<1>9. Answer(t) = "pixels"
  BY <1>8 DEF OnQrCodeGenerated
<1>. QED BY <1>8, <1>9, ShownIsOfTheText

\* on_qr_code_generated: no step puts up the code of a text that the widget no longer
\* has.
THEOREM NoOldTextIsShown == Spec => NeverShowsAnOldText
<1>1. IInv /\ [Next]_vars =>
        [texture' \notin {texture, None} =>
           Fits(text, ecc_level) /\ texture' = Texture(text, ecc_level)]_vars
  BY NoOldTextStep
<1>. QED BY <1>1, InvariantHolds, PTL DEF Spec, NeverShowsAnOldText
=============================================================================
