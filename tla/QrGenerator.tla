---------------------------- MODULE QrGenerator -----------------------------
(***************************************************************************)
(* class QRCodeGenerator: from the matrix of a QR code, which libqrencode  *)
(* makes, to a PNG file and a data URL.  The file is a sequence of bytes,  *)
(* of which the checksums of the chunks are not computed.                  *)
(***************************************************************************)
EXTENDS Text

CONSTANTS
  BlockSize,    \* 65535, the bytes of a stored block at most
  QuietZone     \* 4, the modules of the white border

ASSUME QrAssumption == BlockSize \in 1 .. 65535 /\ QuietZone \in Nat

(* The matrix has side * side modules, row by row; 1 is a black one.  No     *)
(* matrix at all (side 0) stands for an encoder that fails.                  *)
Scale(matrix, size) == Max({1, size \div matrix.side})
TotalSize(matrix, size) == (matrix.side + 2 * QuietZone) * Scale(matrix, size)

(* Each module a square of pixels, in a white border. *)
Bitmap(matrix, size) ==
  LET scale == Scale(matrix, size)
      total == TotalSize(matrix, size)
      at(p) == (p \div scale) - QuietZone
      color(x, y) ==
        IF at(x) \in 0 .. matrix.side - 1 /\ at(y) \in 0 .. matrix.side - 1
             /\ matrix.data[at(y) * matrix.side + at(x) + 1] = 1
        THEN 0 ELSE 255
  IN [i \in 1 .. total * total |-> color((i - 1) % total, (i - 1) \div total)]

(* A filter byte before each row. *)
Rows(bitmap, total) ==
  [i \in 1 .. total * (total + 1) |->
     LET x == (i - 1) % (total + 1)
         y == (i - 1) \div (total + 1)
     IN IF x = 0 THEN 0 ELSE bitmap[y * total + x]]

-----------------------------------------------------------------------------

LittleEndian(n) == <<n % 256, n \div 256>>
BigEndian(n) == <<n \div 16777216, (n \div 65536) % 256, (n \div 256) % 256, n % 256>>

Adler32(data) ==
  LET add(s, byte) == LET a == (s.a + byte) % 65521 IN [a |-> a, b |-> (s.b + a) % 65521]
      sums[i \in 0 .. Len(data)] ==
        IF i = 0 THEN [a |-> 1, b |-> 0] ELSE add(sums[i - 1], data[i])
      end == sums[Len(data)]
  IN <<end.b \div 256, end.b % 256, end.a \div 256, end.a % 256>>

(* The data, cut into blocks with their length and its complement. *)
StoredBlocks(data) ==
  LET block(n) ==
        LET pos  == (n - 1) * BlockSize
            size == Min({BlockSize, Len(data) - pos})
        IN <<IF pos + size >= Len(data) THEN 1 ELSE 0>>
             \o LittleEndian(size) \o LittleEndian(65535 - size)
             \o SubSeq(data, pos + 1, pos + size)
  IN FlattenSeq([n \in 1 .. (Len(data) + BlockSize - 1) \div BlockSize |-> block(n)])

SimpleDeflate(data) == <<120, 1>> \o StoredBlocks(data) \o Adler32(data)

Signature == <<137, 80, 78, 71, 13, 10, 26, 10>>
IHDR == <<73, 72, 68, 82>>
IDAT == <<73, 68, 65, 84>>
IEND == <<73, 69, 78, 68>>
Crc32 == <<174, 66, 96, 130>>     \* that of IEND, for every chunk

Chunk(type, data) == BigEndian(Len(data)) \o type \o data \o Crc32

CreateSimplePng(bitmap, total) ==
  Signature \o Chunk(IHDR, BigEndian(total) \o BigEndian(total) \o <<8, 0, 0, 0, 0>>)
    \o Chunk(IDAT, SimpleDeflate(Rows(bitmap, total))) \o Chunk(IEND, <<>>)

QrToPng(matrix, size) ==
  IF matrix.side <= 0 \/ size <= 0 THEN <<>>
  ELSE CreateSimplePng(Bitmap(matrix, size), TotalSize(matrix, size))

-----------------------------------------------------------------------------
(* base64_encode and generate_data_url. *)

Base64Chars ==
  <<"A", "B", "C", "D", "E", "F", "G", "H", "I", "J", "K", "L", "M", "N", "O", "P", "Q", "R", "S", "T",
    "U", "V", "W", "X", "Y", "Z", "a", "b", "c", "d", "e", "f", "g", "h", "i", "j", "k", "l", "m", "n",
    "o", "p", "q", "r", "s", "t", "u", "v", "w", "x", "y", "z", "0", "1", "2", "3", "4", "5", "6", "7",
    "8", "9", "+", "/">>
Base64Digit(v) == Base64Chars[(v % 64) + 1]

(* The lower 16 bits of val once i bytes are in it: no more is ever read of it. *)
Val(data, i) == (IF i < 2 THEN 0 ELSE 256 * data[i - 1]) + (IF i < 1 THEN 0 ELSE data[i])

(* valb then: how many bits are left over, less the six of a digit. *)
Valb(i) == ((8 * i) % 6) - 6

\* Mutant of RestDigit: the bits that are left over stay at the lower end.
RestDigitUnshifted(data) ==
  LET n == Len(data)
  IN IF Valb(n) > -6 THEN <<Base64Digit(Val(data, n) % (2 ^ (Valb(n) + 6)))>> ELSE <<>>

RestDigit(data) ==
  LET n == Len(data)
  IN IF Valb(n) > -6 THEN <<Base64Digit((Val(data, n) * 256) \div (2 ^ (Valb(n) + 8)))>> ELSE <<>>

Base64Encode(data) ==
  LET digits(i) ==
        LET first == Valb(i - 1) + 8
        IN [k \in 1 .. (first \div 6) + 1 |->
             Base64Digit(Val(data, i) \div (2 ^ (first - 6 * (k - 1))))]
      text == FlattenSeq([i \in DOMAIN data |-> digits(i)]) \o RestDigit(data)
  IN text \o [i \in 1 .. (4 - (Len(text) % 4)) % 4 |-> "="]

GenerateDataUrl(matrix, size) ==
  IF IsEmpty(QrToPng(matrix, size)) THEN <<>>
  ELSE <<"data", ":", "image/png", ";", "base64", ",">> \o Base64Encode(QrToPng(matrix, size))

=============================================================================
