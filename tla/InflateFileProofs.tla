------------------------- MODULE InflateFileProofs -------------------------
(***************************************************************************)
(* Proofs about InflateFile, for every layout of a record, every size of a  *)
(* batch and every file that its assumptions allow.  The argument counts    *)
(* bits: where the next field begins, and how many bits are loaded.        *)
(***************************************************************************)
EXTENDS InflateFile, SequenceTheorems, TLAPS

\* The bits of words and of records.  Proofs use what BitsFacts and RecsFacts say of
\* them, and are linear.
BitsOf(words) == BUFFER_CAPACITY * words
Recs(n) == n * RecordBits

Consecutive(b) == \A j \in 1..Len(packet) : packet[j] = b + j

\* The next bit to be read is the first one of the next field.
InPlace(b, size, f) == BitsOf(b) - size = Recs(emitted) + Offset[f - 1]

FileOK == records \in Nat /\ lost \in Nat /\ lost <= WholeFile(records)

\* While words are loaded, the packet goes on where the parked word ends, and holds
\* the words since the last batch and at most a batch more.
Loading ==
  pc = "fill" =>
    /\ field = 1
    /\ lines_read = readbuffer_cache + Len(packet)
    /\ lines_read <= FileWords
    /\ Consecutive(readbuffer_cache)
    /\ InPlace(readbuffer_cache, readbuffer_size_cache, field)
    /\ first_read => readbuffer_cache = 0 /\ readbuffer_size_cache = 0
    /\ lines_read % CHUNK_WORDS <= Len(packet)
    /\ Len(packet) <= CHUNK_WORDS + (lines_read % CHUNK_WORDS)

\* A batch began, i records ago, with the bits of a batch at least and of two batches
\* and a word at most; a record it begins is loaded.
Batching ==
  pc \in {"batch", "batch_record"} =>
    /\ mode = "READ_MODE" /\ ~first_read
    /\ lines_read = buffer + Len(packet)
    /\ lines_read <= FileWords
    /\ lines_read % CHUNK_WORDS = 0
    /\ Consecutive(buffer)
    /\ InPlace(buffer, buffer_size, field)
    /\ BitsOf(CHUNK_WORDS) <= BitsOf(lines_read) - Recs(emitted - i)
    /\ BitsOf(lines_read) - Recs(emitted - i) <= BitsOf(2 * CHUNK_WORDS + 1)
    /\ pc = "batch" => field = 1
    /\ pc = "batch_record" => Recs(emitted + 1) <= BitsOf(lines_read)

\* The tail loop has the rest of the file, and a record of a whole one.
InTail ==
  pc = "tail" =>
    /\ mode = "READ_MODE"
    /\ buffer + Len(packet) = FileWords
    /\ Consecutive(buffer)
    /\ InPlace(buffer, buffer_size, field)
    /\ lost = 0 => emitted < records

IInv ==
  /\ TypeOK
  /\ FileOK
  /\ PacketBounded
  /\ Loading
  /\ Batching
  /\ InTail
  /\ HalfReadHasMore
  /\ Complete
  /\ NoUnderrun

-----------------------------------------------------------------------------
(* Arithmetic.                                                             *)

LEMMA LayoutFacts ==
  /\ BUFFER_CAPACITY \in Nat \ {0}
  /\ RecordBits \in Nat
  /\ RecordBits > BUFFER_CAPACITY
  /\ NumFields \in Nat \ {0}
  /\ Offset[0] = 0
  /\ Offset[NumFields] = RecordBits
  /\ \A f \in 0..NumFields : Offset[f] \in Nat /\ Offset[f] <= RecordBits
  /\ \A f \in 1..NumFields : /\ Offset[f - 1] \in Nat
                             /\ Width(f) \in 1..BUFFER_CAPACITY
                             /\ Offset[f] = Offset[f - 1] + Width(f)
<1>1. NumFields \in 0..NumFields
  BY LayoutAssumption
<1>2. RecordBits \in Nat
  BY <1>1, LayoutAssumption DEF RecordBits
<1>3. ASSUME NEW f \in 1..NumFields
      PROVE  /\ Offset[f - 1] \in Nat
             /\ Width(f) \in 1..BUFFER_CAPACITY
             /\ Offset[f] = Offset[f - 1] + Width(f)
  <2>1. f \in 0..NumFields /\ f - 1 \in 0..NumFields
    BY LayoutAssumption
  <2>2. Offset[f] \in Nat /\ Offset[f - 1] \in Nat
    BY <2>1, LayoutAssumption
  <2> QED
    BY <2>2, LayoutAssumption DEF Width
<1> QED
  BY <1>2, <1>3, LayoutAssumption, RecordAssumption DEF RecordBits

LEMMA BitsFacts ==
  ASSUME NEW m \in Int, NEW n \in Int
  PROVE  /\ BitsOf(m) \in Int
         /\ BitsOf(m + 1) = BitsOf(m) + BUFFER_CAPACITY
         /\ BitsOf(m + n) = BitsOf(m) + BitsOf(n)
         /\ m <= n => BitsOf(m) <= BitsOf(n)
         /\ BitsOf(0) = 0
         /\ BitsOf(1) = BUFFER_CAPACITY
<1>1. BUFFER_CAPACITY \in Nat
  BY LayoutFacts
<1>2. m <= n => BUFFER_CAPACITY * m <= BUFFER_CAPACITY * n
  <2> SUFFICES ASSUME m <= n PROVE BUFFER_CAPACITY * m <= BUFFER_CAPACITY * n
    OBVIOUS
  <2>1. BUFFER_CAPACITY * (n - m) >= 0
    BY <1>1
  <2>2. BUFFER_CAPACITY * (n - m) = BUFFER_CAPACITY * n - BUFFER_CAPACITY * m
    BY <1>1
  <2> QED
    BY <1>1, <2>1, <2>2
<1> QED
  BY <1>1, <1>2 DEF BitsOf

LEMMA RecsFacts ==
  ASSUME NEW m \in Int, NEW n \in Int
  PROVE  /\ Recs(m) \in Int
         /\ Recs(m + 1) = Recs(m) + RecordBits
         /\ Recs(m + n) = Recs(m) + Recs(n)
         /\ Recs(m - n) = Recs(m) - Recs(n)
         /\ m <= n => Recs(m) <= Recs(n)
         /\ Recs(0) = 0
<1>1. RecordBits \in Nat
  BY LayoutFacts
<1>2. m <= n => m * RecordBits <= n * RecordBits
  <2> SUFFICES ASSUME m <= n PROVE m * RecordBits <= n * RecordBits
    OBVIOUS
  <2>1. (n - m) * RecordBits >= 0
    BY <1>1
  <2>2. (n - m) * RecordBits = n * RecordBits - m * RecordBits
    BY <1>1
  <2> QED
    BY <1>1, <2>1, <2>2
<1> QED
  BY <1>1, <1>2 DEF Recs

\* Records are counted by their bits, to within less than the bits of a record.
LEMMA CountByBits ==
  ASSUME NEW m \in Int, NEW n \in Int
  PROVE  /\ Recs(m) < Recs(n) + RecordBits => m <= n
         /\ Recs(m) < Recs(n) => m < n
<1>1. m >= n + 1 => Recs(m) >= Recs(n) + RecordBits
  <2>1. n + 1 \in Int
    OBVIOUS
  <2>2. n + 1 <= m => Recs(n + 1) <= Recs(m)
    BY <2>1, RecsFacts
  <2> QED
    BY <2>2, RecsFacts
<1>2. m >= n => Recs(m) >= Recs(n)
  BY RecsFacts
<1>3. Recs(m) \in Int /\ Recs(n) \in Int
  BY RecsFacts
<1>4. RecordBits \in Int
  BY LayoutFacts
<1>5. Recs(m) < Recs(n) + RecordBits => m <= n
  BY <1>1, <1>3, <1>4
<1>6. Recs(m) < Recs(n) => m < n
  BY <1>2, <1>3
<1> QED
  BY <1>5, <1>6

\* Flush pads less than a word.
LEMMA WholeFileBits ==
  ASSUME NEW n \in Nat
  PROVE  /\ WholeFile(n) \in Nat
         /\ Recs(n) <= BitsOf(WholeFile(n))
         /\ BitsOf(WholeFile(n)) < Recs(n) + BUFFER_CAPACITY
<1> DEFINE x == n * RecordBits + BUFFER_CAPACITY - 1
           q == x \div BUFFER_CAPACITY
           r == x % BUFFER_CAPACITY
<1>1. BUFFER_CAPACITY \in Nat \ {0} /\ RecordBits \in Nat
  BY LayoutFacts
<1>2. n * RecordBits \in Nat
  BY <1>1
<1>3. x \in Nat
  BY <1>1, <1>2
<1> HIDE DEF x
<1>4. q \in Nat /\ r \in 0 .. BUFFER_CAPACITY - 1 /\ x = BUFFER_CAPACITY * q + r
  BY <1>1, <1>3
<1>5. WholeFile(n) = q
  BY DEF WholeFile, x
<1> HIDE DEF q, r
<1>6. BUFFER_CAPACITY * q \in Int
  BY <1>1, <1>4
<1>7. n * RecordBits = BUFFER_CAPACITY * q + r - BUFFER_CAPACITY + 1
  BY <1>1, <1>2, <1>4, <1>6 DEF x
<1> QED
  BY <1>1, <1>2, <1>4, <1>5, <1>6, <1>7 DEF BitsOf, Recs

\* The next number has the next remainder, or none.
LEMMA NextRemainder ==
  ASSUME NEW n \in Nat, NEW p \in Nat \ {0}
  PROVE  /\ (n + 1) % p # 0 => (n + 1) % p = (n % p) + 1
         /\ (n + 1) % p = 0 => n % p = p - 1
<1> DEFINE q == n \div p
           r == n % p
           u == (n + 1) \div p
           t == (n + 1) % p
<1>1. q \in Int /\ r \in 0 .. p - 1 /\ n = p * q + r
  OBVIOUS
<1>2. u \in Int /\ t \in 0 .. p - 1 /\ n + 1 = p * u + t
  OBVIOUS
<1> HIDE DEF q, r, u, t
<1>3. p * (u - q) = r + 1 - t
  BY <1>1, <1>2
<1>4. CASE t # 0
  <2>1. r + 1 - t \in 1 - p + 1 .. p - 1
    BY <1>1, <1>2, <1>4
  <2>2. u - q = 0
    BY <1>1, <1>2, <1>3, <2>1
  <2> QED
    BY <1>1, <1>2, <1>3, <1>4, <2>2 DEF r, t
<1>5. CASE t = 0
  <2>1. r + 1 \in 1 .. p /\ p * (u - q) = r + 1
    BY <1>1, <1>3, <1>5
  <2>2. u - q = 1
    BY <1>1, <1>2, <2>1
  <2> QED
    BY <1>1, <1>2, <1>5, <2>1, <2>2 DEF r, t
<1> QED
  BY <1>4, <1>5

LEMMA ZeroRemainder ==
  ASSUME NEW p \in Nat \ {0}
  PROVE  0 % p = 0
OBVIOUS

LEMMA RemainderRange ==
  ASSUME NEW n \in Nat, NEW p \in Nat \ {0}
  PROVE  n % p \in 0 .. p - 1
OBVIOUS

-----------------------------------------------------------------------------
(* Reading.                                                                *)

\* What TypeOK says of the numbers a read works on.
LEMMA ReadTypes ==
  ASSUME TypeOK
  PROVE  /\ packet \in Seq(Nat) /\ Len(packet) \in Nat
         /\ buffer \in Nat /\ emitted \in Nat
         /\ buffer_size \in 0..BUFFER_CAPACITY /\ buffer_size \in Int
         /\ field \in 1..NumFields /\ field \in Int
BY LayoutFacts DEF TypeOK

\* A record that is loaded to its end has the words its fields need.
LEMMA EnoughToRead ==
  ASSUME TypeOK, mode = "READ_MODE", InPlace(buffer, buffer_size, field),
         Recs(emitted + 1) <= BitsOf(buffer + Len(packet))
  PROVE  CanRead
<1> DEFINE n == Len(packet)
           w == Width(field)
<1>1. n \in Nat /\ buffer \in Nat /\ emitted \in Nat /\ buffer_size \in 0..BUFFER_CAPACITY
  BY ReadTypes
<1>2. w \in 1..BUFFER_CAPACITY /\ Offset[field - 1] \in Nat
  BY ReadTypes, LayoutFacts
<1>3. Offset[field - 1] + w <= RecordBits
  <2>1. field \in 1..NumFields /\ field \in 0..NumFields
    BY ReadTypes, LayoutFacts
  <2>2. Offset[field] <= RecordBits /\ Offset[field] = Offset[field - 1] + Width(field)
    BY <2>1, LayoutFacts
  <2> QED
    BY <2>2
<1>4. BUFFER_CAPACITY \in Nat \ {0} /\ RecordBits \in Nat
  BY LayoutFacts
<1>5. Recs(emitted) \in Int /\ Recs(emitted + 1) = Recs(emitted) + RecordBits
  <2>1. emitted \in Int
    BY <1>1
  <2> QED
    BY <2>1, RecsFacts
<1>6. /\ BitsOf(buffer) \in Int /\ BitsOf(n) \in Int
      /\ BitsOf(buffer + n) = BitsOf(buffer) + BitsOf(n)
  BY <1>1, BitsFacts
<1>7. BitsOf(buffer) - buffer_size = Recs(emitted) + Offset[field - 1]
  BY DEF InPlace
<1>8. w <= buffer_size + BitsOf(n)
  <2> HIDE DEF n, w
  <2> DEFINE o == Offset[field - 1]
             e == Recs(emitted)
             b == BitsOf(buffer)
             a == BitsOf(n)
  <2>1. o \in Nat /\ e \in Int /\ b \in Int /\ a \in Int /\ o + w <= RecordBits /\ b - buffer_size = e + o
    BY <1>2, <1>3, <1>5, <1>6, <1>7
  <2>2. e + RecordBits <= b + a
    BY <1>5, <1>6 DEF n
  <2> HIDE DEF o, e, b, a
  <2>3. w <= buffer_size + a
    BY <1>1, <1>2, <1>4, <2>1, <2>2
  <2> QED
    BY <2>3 DEF a
<1>9. w > buffer_size => n >= 1
  <2>1. n = 0 => BitsOf(n) = 0
    BY <1>1, BitsFacts
  <2> HIDE DEF n, w
  <2> QED
    BY <1>1, <1>2, <1>8, <2>1
<1> HIDE DEF n, w
<1>10. CASE buffer_size = 0
  <2>1. Pops = 1
    BY <1>2, <1>4, <1>10 DEF Pops, Refill, Spills, Bits, w
  <2> QED
    BY <1>1, <1>2, <1>9, <1>10, <2>1 DEF CanRead, n
<1>11. CASE buffer_size # 0
  <2>1. Pops = IF w > buffer_size THEN 1 ELSE 0
    BY <1>1, <1>2, <1>11 DEF Pops, Refill, Spills, Bits, w
  <2> QED
    BY <1>1, <1>2, <1>9, <1>11, <2>1 DEF CanRead, n
<1> QED
  BY <1>10, <1>11

\* The words that are left when the first one is popped.
LEMMA PopWord ==
  ASSUME buffer \in Nat, packet \in Seq(Nat), Len(packet) >= 1, Consecutive(buffer),
         packet' = SubSeq(packet, 2, Len(packet))
  PROVE  /\ packet[1] = buffer + 1
         /\ packet' \in Seq(Nat) /\ Len(packet') \in Nat /\ Len(packet') = Len(packet) - 1
         /\ \A j \in 1..Len(packet') : packet'[j] = (buffer + 1) + j
<1> DEFINE s == packet
           t == packet'
           b == buffer
<1>0. /\ b \in Nat /\ s \in Seq(Nat) /\ Len(s) >= 1 /\ t = SubSeq(s, 2, Len(s))
      /\ \A j \in 1..Len(s) : s[j] = b + j
  BY DEF Consecutive
<1> HIDE DEF s, t, b
<1>1. Len(s) \in Nat /\ 2 \in Int /\ Len(s) \in Int
  BY <1>0
<1>2. \A j \in 2..Len(s) : s[j] \in Nat
  BY <1>0
<1>3. /\ t \in Seq(Nat)
      /\ Len(t) = IF 2 <= Len(s) THEN Len(s) - 2 + 1 ELSE 0
      /\ \A j \in 1 .. Len(s) - 2 + 1 : t[j] = s[2 + j - 1]
  <2> DEFINE n == Len(s)
             u == SubSeq(s, 2, n)
  <2>1. n \in Int /\ 2 \in Int /\ \A j \in 2..n : s[j] \in Nat
    BY <1>1, <1>2
  <2>2. t = u
    BY <1>0
  <2> HIDE DEF n
  <2>3. /\ u \in Seq(Nat)
        /\ Len(u) = IF 2 <= n THEN n - 2 + 1 ELSE 0
        /\ \A j \in 1 .. n - 2 + 1 : u[j] = s[2 + j - 1]
    BY <2>1, SubSeqProperties
  <2> HIDE DEF u
  <2> QED
    BY <2>2, <2>3 DEF n
<1>4. Len(t) = Len(s) - 1
  <2> DEFINE n == Len(s)
             k == Len(t)
  <2>1. n \in Nat /\ n >= 1 /\ k = IF 2 <= n THEN n - 2 + 1 ELSE 0
    BY <1>0, <1>1, <1>3
  <2> HIDE DEF n, k
  <2>2. k = n - 1
    BY <2>1
  <2> QED
    BY <2>2 DEF n, k
<1>5. ASSUME NEW j \in 1..Len(t) PROVE t[j] = (b + 1) + j
  <2>1. t[j] = s[2 + j - 1] /\ 2 + j - 1 \in 1..Len(s)
    BY <1>1, <1>3, <1>4
  <2> QED
    BY <1>0, <2>1
<1>6. s[1] = b + 1
  BY <1>0, <1>1
<1>7. Len(t) \in Nat
  BY <1>3
<1> QED
  BY <1>3, <1>4, <1>5, <1>6, <1>7 DEF s, t, b

\* Fetch takes the bits of the field, and the words it pops are the next ones.
LEMMA FetchTakes ==
  ASSUME TypeOK, CanRead, Fetch, Consecutive(buffer)
  PROVE  /\ packet' \in Seq(Nat) /\ Len(packet') \in Nat
         /\ Len(packet') <= Len(packet)
         /\ buffer' \in Nat
         /\ buffer_size' \in 0 .. BUFFER_CAPACITY - 1
         /\ buffer' + Len(packet') = buffer + Len(packet)
         /\ \A j \in 1..Len(packet') : packet'[j] = buffer' + j
         /\ BitsOf(buffer') - buffer_size' = BitsOf(buffer) - buffer_size + Width(field)
<1> DEFINE w == Width(field)
<1>1. /\ packet \in Seq(Nat) /\ Len(packet) \in Nat /\ buffer \in Nat
      /\ buffer_size \in 0..BUFFER_CAPACITY
  BY ReadTypes
<1>2. w \in 1..BUFFER_CAPACITY /\ BUFFER_CAPACITY \in Nat \ {0}
  BY ReadTypes, LayoutFacts
<1>3. BitsOf(buffer) \in Int /\ BitsOf(buffer + 1) = BitsOf(buffer) + BUFFER_CAPACITY
  BY <1>1, BitsFacts
<1>7. \A j \in 1..Len(packet) : packet[j] = buffer + j
  BY DEF Consecutive
<1> HIDE DEF w
<1>4. CASE buffer_size = 0
  <2>1. Pops = 1 /\ ~Spills /\ Bits = BUFFER_CAPACITY
    BY <1>2, <1>4 DEF Pops, Refill, Spills, Bits, w
  <2>2. /\ packet' = SubSeq(packet, 2, Len(packet)) /\ Len(packet) >= 1
        /\ buffer' = packet[1]
        /\ buffer_size' = BUFFER_CAPACITY - w
    BY <1>1, <2>1 DEF Fetch, CanRead, w
  <2>3. buffer' = buffer + 1
    BY <1>1, <1>7, <2>2
  <2>4. /\ packet' \in Seq(Nat) /\ Len(packet') \in Nat /\ Len(packet') = Len(packet) - 1
        /\ \A j \in 1..Len(packet') : packet'[j] = (buffer + 1) + j
    BY <1>1, <2>2, PopWord
  <2>5. /\ \A j \in 1..Len(packet') : packet'[j] = buffer' + j
        /\ buffer' + Len(packet') = buffer + Len(packet)
        /\ Len(packet') <= Len(packet) /\ buffer' \in Nat
    BY <1>1, <2>3, <2>4
  <2>6. BitsOf(buffer') - buffer_size' = BitsOf(buffer) - buffer_size + w
    BY <1>2, <1>3, <1>4, <2>2, <2>3
  <2>7. buffer_size' \in 0 .. BUFFER_CAPACITY - 1
    BY <1>2, <2>2
  <2> QED
    BY <2>4, <2>5, <2>6, <2>7 DEF w
<1>5. CASE buffer_size # 0 /\ w > buffer_size
  <2>1. Pops = 1 /\ Spills /\ Bits = buffer_size
    BY <1>1, <1>2, <1>5 DEF Pops, Refill, Spills, Bits, w
  <2>2. /\ packet' = SubSeq(packet, 2, Len(packet)) /\ Len(packet) >= 1
        /\ buffer' = packet[1]
        /\ buffer_size' = (buffer_size + BUFFER_CAPACITY) - w
    BY <1>1, <2>1 DEF Fetch, CanRead, w
  <2>3. buffer' = buffer + 1
    BY <1>1, <1>7, <2>2
  <2>4. /\ packet' \in Seq(Nat) /\ Len(packet') \in Nat /\ Len(packet') = Len(packet) - 1
        /\ \A j \in 1..Len(packet') : packet'[j] = (buffer + 1) + j
    BY <1>1, <2>2, PopWord
  <2>5. /\ \A j \in 1..Len(packet') : packet'[j] = buffer' + j
        /\ buffer' + Len(packet') = buffer + Len(packet)
        /\ Len(packet') <= Len(packet) /\ buffer' \in Nat
    BY <1>1, <2>3, <2>4
  <2>6. BitsOf(buffer') - buffer_size' = BitsOf(buffer) - buffer_size + w
    BY <1>1, <1>2, <1>3, <2>2, <2>3
  <2>7. buffer_size' \in 0 .. BUFFER_CAPACITY - 1
    BY <1>1, <1>2, <1>5, <2>2
  <2> QED
    BY <2>4, <2>5, <2>6, <2>7 DEF w
<1>6. CASE buffer_size # 0 /\ ~(w > buffer_size)
  <2>1. Pops = 0 /\ ~Spills /\ Bits = buffer_size
    BY <1>1, <1>2, <1>6 DEF Pops, Refill, Spills, Bits, w
  <2>2. packet' = SubSeq(packet, 1, Len(packet)) /\ buffer' = buffer /\ buffer_size' = buffer_size - w
    BY <1>1, <2>1 DEF Fetch, w
  <2>3. packet' = packet
    BY <1>1, <1>7, <2>2
  <2>4. \A j \in 1..Len(packet') : packet'[j] = buffer' + j
    BY <2>2, <2>3 DEF Consecutive
  <2>5. BitsOf(buffer') - buffer_size' = BitsOf(buffer) - buffer_size + w
    BY <1>1, <1>2, <1>3, <2>2
  <2>6. buffer_size' \in 0 .. BUFFER_CAPACITY - 1
    BY <1>1, <1>2, <1>6, <2>2
  <2> QED
    BY <1>1, <2>2, <2>3, <2>4, <2>5, <2>6 DEF w
<1> QED
  BY <1>4, <1>5, <1>6

\* At the end of a whole file, between two records, words are left exactly as long as
\* records are: the padding is never taken for a record, and no record for padding.
LEMMA WordsMeanRecords ==
  ASSUME NEW e \in Nat, NEW r \in Nat, NEW b \in Nat, NEW n \in Nat,
         NEW size \in 0..BUFFER_CAPACITY,
         BitsOf(b) - size = Recs(e), b + n = WholeFile(r)
  PROVE  (n = 0 => e = r) /\ (n # 0 => e < r)
<1>1. /\ Recs(r) <= BitsOf(WholeFile(r))
      /\ BitsOf(WholeFile(r)) < Recs(r) + BUFFER_CAPACITY
  BY WholeFileBits
<1>2. /\ BitsOf(b) \in Int /\ BitsOf(n) \in Int /\ BitsOf(b + n) = BitsOf(b) + BitsOf(n)
      /\ n = 0 => BitsOf(n) = 0
      /\ n # 0 => BitsOf(n) >= BUFFER_CAPACITY
  <2>1. 1 \in Int
    OBVIOUS
  <2>2. 1 <= n => BitsOf(1) <= BitsOf(n)
    <3>1. n \in Int
      OBVIOUS
    <3> QED
      BY <2>1, <3>1, BitsFacts
  <2>3. BitsOf(1) = BUFFER_CAPACITY /\ BitsOf(0) = 0
    BY <2>1, BitsFacts
  <2>4. BitsOf(b) \in Int /\ BitsOf(n) \in Int /\ BitsOf(b + n) = BitsOf(b) + BitsOf(n)
    <3>1. b \in Int /\ n \in Int
      OBVIOUS
    <3> QED
      BY <3>1, BitsFacts
  <2>5. n # 0 => 1 <= n
    OBVIOUS
  <2> QED
    BY <2>2, <2>3, <2>4, <2>5
<1>3. /\ BUFFER_CAPACITY \in Nat \ {0} /\ RecordBits \in Nat /\ RecordBits > BUFFER_CAPACITY
      /\ Recs(r) \in Int /\ Recs(e) \in Int
  BY LayoutFacts, RecsFacts
<1>4. /\ Recs(e) < Recs(r) + RecordBits => e <= r
      /\ Recs(r) < Recs(e) + RecordBits => r <= e
      /\ Recs(e) < Recs(r) => e < r
  BY CountByBits
<1>5. BitsOf(b) + BitsOf(n) = BitsOf(WholeFile(r))
  BY <1>2
<1>6. ASSUME n = 0 PROVE e = r
  <2>1. Recs(e) < Recs(r) + RecordBits
    BY <1>1, <1>2, <1>3, <1>5, <1>6
  <2>2. Recs(r) < Recs(e) + RecordBits
    BY <1>1, <1>2, <1>3, <1>5, <1>6
  <2> QED
    BY <1>4, <2>1, <2>2
<1>7. ASSUME n # 0 PROVE e < r
  <2>1. Recs(e) < Recs(r)
    BY <1>1, <1>2, <1>3, <1>5, <1>7
  <2> QED
    BY <1>4, <2>1
<1> QED
  BY <1>6, <1>7

-----------------------------------------------------------------------------
(* Batches.                                                                *)

\* What Batching says of the numbers at the head of the batch loop.
LEMMA BatchFacts ==
  ASSUME TypeOK, pc = "batch", Batching
  PROVE  /\ Len(packet) \in Nat /\ i \in Nat /\ buffer_size \in 0..BUFFER_CAPACITY
         /\ buffer_size \in Int
         /\ Recs(emitted) \in Int /\ Recs(emitted + 1) = Recs(emitted) + RecordBits
         /\ BitsOf(lines_read) = Recs(emitted) + buffer_size + BitsOf(Len(packet))
         /\ BitsOf(Len(packet)) \in Int
         /\ BitsOf(CHUNK_WORDS) <= BitsOf(lines_read) - (Recs(emitted) - Recs(i))
         /\ BitsOf(lines_read) - (Recs(emitted) - Recs(i)) <= BitsOf(2 * CHUNK_WORDS + 1)
<1> DEFINE n == Len(packet)
<1>1. /\ n \in Nat /\ n \in Int /\ i \in Nat /\ i \in Int /\ buffer \in Int
      /\ emitted \in Int /\ buffer_size \in 0..BUFFER_CAPACITY /\ buffer_size \in Int
  BY ReadTypes DEF TypeOK
<1>2. /\ Recs(emitted) \in Int /\ Recs(emitted + 1) = Recs(emitted) + RecordBits
      /\ Recs(emitted - i) = Recs(emitted) - Recs(i)
  BY <1>1, RecsFacts
<1>3. /\ BitsOf(buffer) \in Int /\ BitsOf(n) \in Int
      /\ BitsOf(buffer + n) = BitsOf(buffer) + BitsOf(n)
  BY <1>1, BitsFacts
<1>4. BitsOf(buffer) - buffer_size = Recs(emitted)
  <2>1. BitsOf(buffer) - buffer_size = Recs(emitted) + Offset[field - 1] /\ field - 1 = 0
    BY DEF Batching, InPlace
  <2>2. Offset[0] = 0
    BY LayoutFacts
  <2> QED
    BY <1>2, <2>1, <2>2
<1>5. lines_read = buffer + n
  BY DEF Batching
<1>6. /\ BitsOf(CHUNK_WORDS) <= BitsOf(lines_read) - Recs(emitted - i)
      /\ BitsOf(lines_read) - Recs(emitted - i) <= BitsOf(2 * CHUNK_WORDS + 1)
  BY DEF Batching
<1> HIDE DEF n
<1>7. BitsOf(lines_read) = Recs(emitted) + buffer_size + BitsOf(n)
  BY <1>1, <1>2, <1>3, <1>4, <1>5
<1> QED
  BY <1>1, <1>2, <1>3, <1>6, <1>7 DEF n

\* As many records as there are words that are less than a record are a batch at most.
LEMMA SmallPacket ==
  ASSUME NEW n \in Nat, BitsOf(n) < RecordBits
  PROVE  Recs(n) <= BitsOf(CHUNK_WORDS)
<1>1. BUFFER_CAPACITY \in Nat \ {0} /\ RecordBits \in Nat
  BY LayoutFacts
<1>2. n * BUFFER_CAPACITY = BUFFER_CAPACITY * n /\ n * BUFFER_CAPACITY \in Nat
  BY <1>1
<1>3. BUFFER_CAPACITY * n < RecordBits
  BY DEF BitsOf
<1>4. n <= n * BUFFER_CAPACITY
  <2>1. n * (BUFFER_CAPACITY - 1) >= 0
    BY <1>1
  <2>2. n * (BUFFER_CAPACITY - 1) = n * BUFFER_CAPACITY - n
    BY <1>1
  <2> QED
    BY <1>2, <2>1, <2>2
<1>5. n \in 0..RecordBits /\ n * BUFFER_CAPACITY < RecordBits
  BY <1>1, <1>2, <1>3, <1>4
<1>6. n * RecordBits <= CHUNK_WORDS * BUFFER_CAPACITY
  BY <1>5, BatchAssumption
<1>7. CHUNK_WORDS * BUFFER_CAPACITY = BUFFER_CAPACITY * CHUNK_WORDS
  BY <1>1, LoopAssumption
<1> QED
  BY <1>6, <1>7 DEF Recs, BitsOf

\* The loop's test lets a record start only if it is loaded: when less than a record
\* is left, as many records have been read as there were words too many.
LEMMA NextRecordLoaded ==
  ASSUME TypeOK, pc = "batch", Batching, i < Len(packet)
  PROVE  Recs(emitted + 1) <= BitsOf(lines_read)
<1> DEFINE n == Len(packet)
<1>1. /\ n \in Nat /\ n \in Int /\ i \in Nat /\ i \in Int /\ i + 1 \in Int /\ i + 1 <= n
  BY BatchFacts
<1>2. /\ Recs(i) \in Int /\ Recs(n) \in Int /\ Recs(i) + RecordBits <= Recs(n)
  <2>1. Recs(i + 1) <= Recs(n) /\ Recs(i + 1) = Recs(i) + RecordBits
    BY <1>1, RecsFacts
  <2> QED
    BY <1>1, <2>1, RecsFacts
<1>3. /\ BitsOf(n) \in Int /\ BitsOf(CHUNK_WORDS) \in Int /\ RecordBits \in Int
      /\ Recs(emitted) \in Int /\ Recs(emitted + 1) = Recs(emitted) + RecordBits
      /\ BitsOf(lines_read) = Recs(emitted) + buffer_size + BitsOf(n)
      /\ buffer_size \in Int /\ buffer_size >= 0
      /\ BitsOf(CHUNK_WORDS) <= BitsOf(lines_read) - (Recs(emitted) - Recs(i))
  <2>1. CHUNK_WORDS \in Int
    BY LoopAssumption
  <2> QED
    BY <2>1, BatchFacts, BitsFacts, LayoutFacts
<1>4. BitsOf(n) < RecordBits => Recs(n) <= BitsOf(CHUNK_WORDS)
  BY <1>1, SmallPacket
<1> HIDE DEF n
<1> QED
  BY <1>2, <1>3, <1>4

\* A batch leaves no more words than a batch has.
LEMMA BatchLeaves ==
  ASSUME TypeOK, pc = "batch", Batching, ~(i < Len(packet))
  PROVE  Len(packet) <= CHUNK_WORDS
<1> DEFINE n == Len(packet)
           c == CHUNK_WORDS
<1>1. n \in Nat /\ n \in Int /\ i \in Nat /\ i \in Int /\ n <= i
  BY BatchFacts
<1>2. c \in Nat /\ c \in Int /\ c + 1 \in Int /\ c + c + 1 \in Int
  BY LoopAssumption
<1>3. Recs(n) \in Int /\ Recs(i) \in Int /\ Recs(n) <= Recs(i)
  BY <1>1, RecsFacts
<1>4. BitsOf(n) <= Recs(n)
  <2>1. BUFFER_CAPACITY \in Nat /\ RecordBits \in Nat /\ RecordBits > BUFFER_CAPACITY
    BY LayoutFacts
  <2>2. n * (RecordBits - BUFFER_CAPACITY) >= 0
    BY <1>1, <2>1
  <2>3. n * (RecordBits - BUFFER_CAPACITY) = n * RecordBits - BUFFER_CAPACITY * n
    BY <1>1, <2>1
  <2>4. n * RecordBits \in Int /\ BUFFER_CAPACITY * n \in Int
    BY <1>1, <2>1
  <2> QED
    BY <2>2, <2>3, <2>4 DEF BitsOf, Recs
<1>5. /\ BitsOf(n) \in Int /\ BitsOf(c + 1) \in Int /\ BitsOf(c + c + 1) \in Int
      /\ BitsOf((c + 1) + (c + 1)) = BitsOf(c + 1) + BitsOf(c + 1)
      /\ BitsOf((c + c + 1) + 1) = BitsOf(c + c + 1) + BUFFER_CAPACITY
      /\ c + 1 <= n => BitsOf(c + 1) <= BitsOf(n)
  BY <1>1, <1>2, BitsFacts
<1>6. (c + 1) + (c + 1) = (c + c + 1) + 1 /\ 2 * c + 1 = c + c + 1
  BY <1>2
<1>7. BUFFER_CAPACITY \in Int /\ BUFFER_CAPACITY > 0
  BY LayoutFacts
<1>8. /\ Recs(emitted) \in Int /\ buffer_size \in Int /\ buffer_size >= 0
      /\ BitsOf(lines_read) = Recs(emitted) + buffer_size + BitsOf(n)
      /\ BitsOf(lines_read) - (Recs(emitted) - Recs(i)) <= BitsOf(c + c + 1)
  BY <1>6, BatchFacts, LayoutFacts
<1> HIDE DEF n, c
<1>9. BitsOf(c + 1) + BitsOf(c + 1) = BitsOf(c + c + 1) + BUFFER_CAPACITY
  BY <1>5, <1>6
<1>10. BitsOf(n) + BitsOf(n) <= BitsOf(c + c + 1)
  BY <1>3, <1>4, <1>5, <1>8
<1>11. ~(c + 1 <= n)
  BY <1>5, <1>7, <1>9, <1>10
<1>12. n <= c
  BY <1>1, <1>2, <1>11
<1> QED
  BY <1>12 DEF n, c

-----------------------------------------------------------------------------
(* The loading loop.                                                       *)

LEMMA FileFacts ==
  ASSUME FileOK
  PROVE  FileWords \in Nat /\ (lost = 0 => FileWords = WholeFile(records))
BY WholeFileBits DEF FileOK, FileWords

LEMMA InitIInv == Init => IInv
<1> SUFFICES ASSUME Init PROVE IInv
  OBVIOUS
<1>1. BUFFER_CAPACITY \in Nat /\ NumFields \in Nat \ {0} /\ Offset[0] = 0
      /\ CHUNK_WORDS \in Nat \ {0}
  BY LayoutFacts, LoopAssumption
<1>2. TypeOK
  <2>1. 0 \in 0..BUFFER_CAPACITY /\ BUFFER_CAPACITY \in 0..BUFFER_CAPACITY /\ 1 \in 1..NumFields
    BY <1>1
  <2>2. packet \in Seq(Nat)
    BY DEF Init
  <2> QED
    BY <2>1, <2>2 DEF Init, TypeOK
<1>3. FileOK
  BY LoopAssumption DEF Init, FileOK
<1>4. FileWords \in Nat
  BY <1>3, FileFacts
<1>5. Len(packet) = 0
  BY DEF Init
<1>6. PacketBounded
  BY <1>1, <1>5 DEF PacketBounded
<1>7. Loading
  <2>1. 0 % CHUNK_WORDS = 0
    BY <1>1, ZeroRemainder
  <2>2. Recs(0) = 0 /\ BitsOf(0) = 0
    <3>1. 0 \in Int
      OBVIOUS
    <3> QED
      BY <3>1, RecsFacts, BitsFacts
  <2>3. InPlace(readbuffer_cache, readbuffer_size_cache, field)
    BY <1>1, <2>2 DEF Init, InPlace
  <2>4. Consecutive(readbuffer_cache)
    BY <1>5 DEF Consecutive
  <2> QED
    BY <1>1, <1>4, <1>5, <2>1, <2>3, <2>4 DEF Init, Loading
<1>8. Batching /\ InTail /\ HalfReadHasMore /\ Complete /\ NoUnderrun
  BY DEF Init, Batching, InTail, HalfReadHasMore, InRecord, Complete, NoUnderrun
<1> QED
  BY <1>2, <1>3, <1>6, <1>7, <1>8 DEF IInv

\* What Append does to the words loaded.
LEMMA LoadedWords ==
  ASSUME IInv, pc = "fill"
  PROVE  /\ Loaded \in Seq(Nat) /\ Len(Loaded) = Len(packet) + 1
         /\ \A j \in 1..Len(Loaded) : Loaded[j] = readbuffer_cache + j
<1>1. /\ packet \in Seq(Nat) /\ lines_read \in Nat /\ readbuffer_cache \in Nat
      /\ lines_read = readbuffer_cache + Len(packet)
      /\ \A j \in 1..Len(packet) : packet[j] = readbuffer_cache + j
  BY DEF IInv, TypeOK, Loading, Consecutive
<1>2. Loaded \in Seq(Nat) /\ Len(Loaded) = Len(packet) + 1
  BY <1>1 DEF Loaded
<1>3. ASSUME NEW j \in 1..Len(Loaded) PROVE Loaded[j] = readbuffer_cache + j
  <2>1. CASE j = Len(packet) + 1
    BY <1>1, <2>1 DEF Loaded
  <2>2. CASE j \in 1..Len(packet)
    BY <1>1, <2>2 DEF Loaded
  <2> QED
    BY <1>1, <1>2, <2>1, <2>2
<1> QED
  BY <1>2, <1>3

\* A batch is due at every CHUNK_WORDS-th word: the packet is always long enough.
LEMMA DueRemainder ==
  ASSUME IInv, pc = "fill"
  PROVE  /\ ~BatchDue => (lines_read + 1) % CHUNK_WORDS = (lines_read % CHUNK_WORDS) + 1
         /\ BatchDue => /\ (lines_read + 1) % CHUNK_WORDS = 0
                        /\ lines_read % CHUNK_WORDS = CHUNK_WORDS - 1
<1> DEFINE r == lines_read % CHUNK_WORDS
           t == (lines_read + 1) % CHUNK_WORDS
<1>1. /\ lines_read \in Nat /\ CHUNK_WORDS \in Nat \ {0} /\ MIN_PACKET \in Nat
      /\ CHUNK_WORDS > MIN_PACKET
  BY LoopAssumption, BatchAssumption DEF IInv, TypeOK
<1>2. (t # 0 => t = r + 1) /\ (t = 0 => r = CHUNK_WORDS - 1)
  BY <1>1, NextRemainder
<1>3. r \in Int /\ Len(packet) \in Nat /\ r <= Len(packet)
  <2>1. r \in 0 .. CHUNK_WORDS - 1
    BY <1>1, RemainderRange
  <2> QED
    BY <1>1, <2>1 DEF IInv, TypeOK, Loading
<1>4. Len(Loaded) = Len(packet) + 1
  BY LoadedWords
<1>5. BatchDue <=> t = 0 /\ Len(Loaded) > MIN_PACKET
  BY DEF BatchDue
<1> HIDE DEF r, t
<1>6. t = 0 => BatchDue
  BY <1>1, <1>2, <1>3, <1>4, <1>5
<1> QED
  BY <1>2, <1>5, <1>6 DEF r, t

LEMMA LoadWordIInv ==
  ASSUME IInv, LoadWord
  PROVE  IInv'
<1>1. pc = "fill" /\ ~BatchDue /\ packet' = Loaded /\ lines_read' = lines_read + 1
  BY DEF LoadWord
<1>2. /\ packet' \in Seq(Nat) /\ Len(packet') = Len(packet) + 1 /\ Len(packet) \in Nat
      /\ \A j \in 1..Len(packet') : packet'[j] = readbuffer_cache + j
  BY <1>1, LoadedWords DEF IInv, TypeOK
<1>3. TypeOK'
  BY <1>1, <1>2 DEF LoadWord, IInv, TypeOK, file, caches, decoding
<1>4. FileOK' /\ FileWords' = FileWords /\ FileWords \in Nat
  BY FileFacts DEF LoadWord, IInv, FileOK, FileWords, file
<1>5. Loading'
  <2> DEFINE r == lines_read % CHUNK_WORDS
             t == lines_read' % CHUNK_WORDS
  <2>1. t = r + 1
    BY <1>1, DueRemainder
  <2>2. r \in Int /\ r <= Len(packet) /\ Len(packet) <= CHUNK_WORDS + r
    <3>1. lines_read \in Nat /\ CHUNK_WORDS \in Nat \ {0}
      BY LoopAssumption DEF IInv, TypeOK
    <3> QED
      BY <1>1, <3>1, RemainderRange DEF IInv, Loading
  <2> HIDE DEF r, t
  <2>3. t <= Len(packet') /\ Len(packet') <= CHUNK_WORDS + t
    BY <1>2, <2>1, <2>2, LoopAssumption
  <2>4. lines_read' <= FileWords'
    BY <1>1, <1>4 DEF LoadWord, IInv, TypeOK
  <2>5. lines_read' = readbuffer_cache' + Len(packet')
    BY <1>1, <1>2 DEF LoadWord, caches, IInv, TypeOK, Loading
  <2>6. Consecutive(readbuffer_cache)'
    BY <1>2 DEF LoadWord, caches, Consecutive
  <2>7. /\ InPlace(readbuffer_cache, readbuffer_size_cache, field)'
        /\ field' = 1
        /\ first_read' => readbuffer_cache' = 0 /\ readbuffer_size_cache' = 0
    BY <1>1 DEF LoadWord, IInv, Loading, caches, decoding, InPlace, BitsOf, Recs
  <2>8. /\ lines_read' % CHUNK_WORDS <= Len(packet')
        /\ Len(packet') <= CHUNK_WORDS + (lines_read' % CHUNK_WORDS)
    BY <2>3 DEF t
  <2> QED
    BY <2>4, <2>5, <2>6, <2>7, <2>8 DEF Loading
<1>6. PacketBounded'
  <2>1. lines_read' \in Nat /\ CHUNK_WORDS \in Nat \ {0}
    BY <1>3, LoopAssumption DEF TypeOK
  <2>2. lines_read' % CHUNK_WORDS \in 0 .. CHUNK_WORDS - 1
    BY <2>1, RemainderRange
  <2>3. Len(packet') <= CHUNK_WORDS + (lines_read' % CHUNK_WORDS)
    BY <1>1, <1>5 DEF LoadWord, Loading
  <2> QED
    BY <1>2, <2>1, <2>2, <2>3 DEF PacketBounded
<1>7. Batching' /\ InTail' /\ HalfReadHasMore' /\ Complete' /\ NoUnderrun'
  BY DEF LoadWord, Batching, InTail, HalfReadHasMore, InRecord, Complete, NoUnderrun
<1> QED
  BY <1>3, <1>4, <1>5, <1>6, <1>7 DEF IInv

\* The buffer a batch starts with, opened by SetReadMode or taken up again.
LEMMA StartBatchBuffer ==
  ASSUME IInv, StartBatch
  PROVE  /\ packet' \in Seq(Nat) /\ Len(packet') \in Nat
         /\ buffer' \in Nat /\ buffer_size' \in 0..BUFFER_CAPACITY
         /\ Consecutive(buffer)'
         /\ buffer' + Len(packet') = lines_read'
         /\ BitsOf(buffer') - buffer_size' = Recs(emitted)
         /\ Len(packet') <= Len(packet) + 1
         /\ BitsOf(Len(packet) + 1) <= BitsOf(Len(packet')) + buffer_size'
<1> DEFINE n == Len(packet)
           rb == readbuffer_cache
<1>1. pc = "fill" /\ lines_read' = lines_read + 1 /\ lines_read = rb + n
      /\ rb \in Nat /\ readbuffer_size_cache \in 0..BUFFER_CAPACITY /\ n \in Nat
      /\ emitted \in Nat
  BY DEF StartBatch, IInv, TypeOK, Loading
<1>2. /\ Loaded \in Seq(Nat) /\ Len(Loaded) = n + 1
      /\ \A j \in 1..Len(Loaded) : Loaded[j] = rb + j
  BY <1>1, LoadedWords
<1>3. BitsOf(rb) - readbuffer_size_cache = Recs(emitted)
  <2>1. /\ BitsOf(rb) - readbuffer_size_cache = Recs(emitted) + Offset[field - 1]
        /\ field - 1 = 0
    BY <1>1 DEF IInv, Loading, InPlace
  <2>2. Offset[0] = 0 /\ Recs(emitted) \in Int
    BY <1>1, LayoutFacts, RecsFacts
  <2> QED
    BY <2>1, <2>2
<1>4. /\ BitsOf(rb) \in Int /\ BitsOf(rb + 1) = BitsOf(rb) + BUFFER_CAPACITY
      /\ BitsOf(n) \in Int /\ BitsOf(n + 1) = BitsOf(n) + BUFFER_CAPACITY
  <2>1. rb \in Int /\ n \in Int
    BY <1>1
  <2> QED
    BY <2>1, BitsFacts
<1>5. BUFFER_CAPACITY \in Nat /\ BUFFER_CAPACITY \in 0..BUFFER_CAPACITY
  BY LayoutFacts
<1>6. CASE first_read
  <2>1. packet' = Tail(Loaded) /\ buffer' = Head(Loaded) /\ buffer_size' = BUFFER_CAPACITY
    BY <1>6 DEF StartBatch
  <2>2. rb = 0 /\ readbuffer_size_cache = 0
    BY <1>1, <1>6 DEF IInv, Loading
  <2>3. Loaded # << >> /\ Head(Loaded) = Loaded[1]
    BY <1>1, <1>2
  <2>4. buffer' = rb + 1
    BY <1>1, <1>2, <2>1, <2>3
  <2>5. /\ packet' \in Seq(Nat) /\ Len(packet') = n
        /\ \A j \in 1..Len(packet') : packet'[j] = Loaded[j + 1]
    <3>1. /\ Tail(Loaded) \in Seq(Nat) /\ Len(Tail(Loaded)) = Len(Loaded) - 1
          /\ \A j \in 1..Len(Tail(Loaded)) : Tail(Loaded)[j] = Loaded[j + 1]
      BY <1>2, <2>3, HeadTailProperties
    <3> QED
      BY <1>1, <1>2, <2>1, <3>1
  <2>6. \A j \in 1..Len(packet') : packet'[j] = buffer' + j
    <3> SUFFICES ASSUME NEW j \in 1..Len(packet') PROVE packet'[j] = buffer' + j
      OBVIOUS
    <3>1. j + 1 \in 1..Len(Loaded) /\ packet'[j] = Loaded[j + 1]
      BY <1>1, <1>2, <2>5
    <3> QED
      BY <1>1, <1>2, <2>4, <3>1
  <2>7. buffer' + Len(packet') = lines_read'
    BY <1>1, <2>4, <2>5
  <2>8. BitsOf(buffer') - buffer_size' = Recs(emitted)
    BY <1>1, <1>3, <1>4, <1>5, <2>1, <2>2, <2>4
  <2>9. BitsOf(n + 1) <= BitsOf(Len(packet')) + buffer_size'
    <3>1. BitsOf(Len(packet')) + buffer_size' = BitsOf(n) + BUFFER_CAPACITY
      BY <2>1, <2>5
    <3>2. BitsOf(n + 1) = BitsOf(n) + BUFFER_CAPACITY /\ BitsOf(n + 1) \in Int
      BY <1>4, <1>5
    <3> QED
      BY <3>1, <3>2
  <2>10. Consecutive(buffer)'
    BY <2>6 DEF Consecutive
  <2>11. buffer' \in Nat /\ buffer_size' \in 0..BUFFER_CAPACITY /\ Len(packet') <= n + 1
    BY <1>1, <1>5, <2>1, <2>4, <2>5
  <2> QED
    BY <1>1, <2>5, <2>7, <2>8, <2>9, <2>10, <2>11
<1>7. CASE ~first_read
  <2>1. packet' = Loaded /\ buffer' = rb /\ buffer_size' = readbuffer_size_cache
    BY <1>7 DEF StartBatch
  <2>2. buffer' + Len(packet') = lines_read'
    BY <1>1, <1>2, <2>1
  <2>3. BitsOf(buffer') - buffer_size' = Recs(emitted)
    BY <1>3, <2>1
  <2>4. BitsOf(n + 1) <= BitsOf(Len(packet')) + buffer_size'
    <3>1. Len(packet') = n + 1 /\ buffer_size' \in 0..BUFFER_CAPACITY
      BY <1>1, <1>2, <2>1
    <3>2. BitsOf(Len(packet')) = BitsOf(n + 1)
      BY <3>1
    <3>3. BitsOf(n + 1) \in Int
      BY <1>4, <1>5
    <3> QED
      BY <1>5, <3>1, <3>2, <3>3
  <2>5. Consecutive(buffer)'
    BY <1>2, <2>1 DEF Consecutive
  <2>6. /\ packet' \in Seq(Nat) /\ Len(packet') \in Nat /\ Len(packet') <= n + 1
        /\ buffer' \in Nat /\ buffer_size' \in 0..BUFFER_CAPACITY
    BY <1>1, <1>2, <2>1
  <2> QED
    BY <2>2, <2>3, <2>4, <2>5, <2>6
<1> QED
  BY <1>6, <1>7

LEMMA StartBatchIInv ==
  ASSUME IInv, StartBatch
  PROVE  IInv'
<1> DEFINE n == Len(packet)
           c == CHUNK_WORDS
           b == BitsOf(lines_read')
<1>1. pc = "fill" /\ BatchDue /\ lines_read' = lines_read + 1
  BY DEF StartBatch
<1>2. /\ packet' \in Seq(Nat) /\ Len(packet') \in Nat
      /\ buffer' \in Nat /\ buffer_size' \in 0..BUFFER_CAPACITY
      /\ Consecutive(buffer)'
      /\ buffer' + Len(packet') = lines_read'
      /\ BitsOf(buffer') - buffer_size' = Recs(emitted)
      /\ Len(packet') <= n + 1
      /\ BitsOf(n + 1) <= BitsOf(Len(packet')) + buffer_size'
  BY StartBatchBuffer
<1>3. TypeOK'
  <2>1. /\ lines_read' \in Nat /\ mode' = "READ_MODE" /\ pc' = "batch" /\ first_read' = FALSE
        /\ buffer_cache' \in Nat /\ buffer_size_cache' \in 0..BUFFER_CAPACITY /\ i' = 0
    BY DEF StartBatch, IInv, TypeOK
  <2>2. /\ readbuffer_cache' \in Nat /\ readbuffer_size_cache' \in 0..BUFFER_CAPACITY
        /\ field' \in 1..NumFields /\ more' \in BOOLEAN /\ emitted' \in Nat
    BY DEF StartBatch, IInv, TypeOK
  <2> QED
    BY <1>2, <2>1, <2>2 DEF TypeOK
<1>4. FileOK' /\ FileWords' = FileWords /\ FileWords \in Nat
  BY FileFacts DEF StartBatch, IInv, FileOK, FileWords, file
<1>5. n \in Nat /\ emitted \in Nat /\ field = 1 /\ c \in Nat \ {0}
  BY <1>1, LoopAssumption DEF IInv, TypeOK, Loading
<1>6. c <= n + 1 /\ n + 1 <= 2 * c /\ lines_read' % CHUNK_WORDS = 0
  <2> DEFINE r == lines_read % CHUNK_WORDS
  <2>1. r = c - 1 /\ lines_read' % CHUNK_WORDS = 0
    BY <1>1, DueRemainder
  <2>2. r <= n /\ n <= c + r
    BY <1>1 DEF IInv, Loading
  <2> HIDE DEF r
  <2> QED
    BY <1>5, <2>1, <2>2
<1>7. PacketBounded'
  <2>1. Len(packet') <= 2 * c
    <3> HIDE DEF n, c
    <3> QED
      BY <1>2, <1>5, <1>6
  <2> QED
    BY <2>1 DEF PacketBounded
<1>8. emitted' = emitted /\ i' = 0 /\ field' = 1
  BY <1>5 DEF StartBatch
<1>9. Recs(emitted) \in Int /\ emitted - 0 = emitted
  BY <1>5, RecsFacts
<1>10. InPlace(buffer, buffer_size, field)'
  <2>1. BitsOf(buffer') - buffer_size' = Recs(emitted) + Offset[1 - 1]
    BY <1>2, <1>9, LayoutFacts
  <2> QED
    BY <1>8, <2>1 DEF InPlace, BitsOf, Recs
<1>11. b = Recs(emitted) + buffer_size' + BitsOf(Len(packet'))
  <2>1. buffer' \in Int /\ Len(packet') \in Int
    BY <1>2
  <2>2. /\ BitsOf(buffer') \in Int /\ BitsOf(Len(packet')) \in Int
        /\ BitsOf(buffer' + Len(packet')) = BitsOf(buffer') + BitsOf(Len(packet'))
    BY <2>1, BitsFacts
  <2>3. b = BitsOf(buffer') + BitsOf(Len(packet'))
    BY <1>2, <2>2
  <2> QED
    BY <1>2, <1>9, <2>2, <2>3, LayoutFacts
<1>12. /\ BitsOf(c) <= b - Recs(emitted)
       /\ b - Recs(emitted) <= BitsOf(2 * c + 1)
  <2>1. c \in Int /\ n + 1 \in Int /\ 2 * c \in Int /\ Len(packet') \in Int
    BY <1>2, <1>5
  <2>2. /\ BitsOf(c) \in Int /\ BitsOf(n + 1) \in Int /\ BitsOf(2 * c) \in Int
        /\ BitsOf(Len(packet')) \in Int
        /\ BitsOf(2 * c + 1) = BitsOf(2 * c) + BUFFER_CAPACITY
    BY <2>1, BitsFacts
  <2>3. BitsOf(c) <= BitsOf(n + 1)
    BY <1>6, <2>1, BitsFacts
  <2>4. Len(packet') <= 2 * c
    BY <1>2, <1>5, <1>6
  <2>5. BitsOf(Len(packet')) <= BitsOf(2 * c)
    BY <2>1, <2>4, BitsFacts
  <2>6. BUFFER_CAPACITY \in Nat
    BY LayoutFacts
  <2> DEFINE a == BitsOf(Len(packet'))
             e == Recs(emitted)
             size == buffer_size'
             low == BitsOf(n + 1)
             high == BitsOf(2 * c)
  <2>7. /\ e \in Int /\ size \in 0..BUFFER_CAPACITY /\ a \in Int /\ low \in Int /\ high \in Int
        /\ b = e + size + a /\ low <= a + size /\ a <= high
    BY <1>2, <1>9, <1>11, <2>2, <2>5
  <2> HIDE DEF c, b, n, a, e, size, low, high
  <2>8. low <= b - e /\ b - e <= high + BUFFER_CAPACITY
    BY <2>6, <2>7
  <2>9. BitsOf(c) <= low /\ BitsOf(c) \in Int /\ BitsOf(2 * c + 1) = high + BUFFER_CAPACITY
    BY <2>2, <2>3 DEF low, high
  <2>10. b \in Int /\ e \in Int /\ low \in Int
    BY <2>6, <2>7
  <2> QED
    BY <2>8, <2>9, <2>10 DEF e
<1>13. lines_read' <= FileWords'
  BY <1>1, <1>4 DEF StartBatch, IInv, TypeOK
<1>14. mode' = "READ_MODE" /\ ~first_read' /\ pc' = "batch"
  BY DEF StartBatch
<1>15. Batching'
  <2>1. emitted' - i' = emitted
    BY <1>8, <1>9
  <2>2. /\ BitsOf(CHUNK_WORDS) <= BitsOf(lines_read') - Recs(emitted' - i')
        /\ BitsOf(lines_read') - Recs(emitted' - i') <= BitsOf(2 * CHUNK_WORDS + 1)
    BY <1>12, <2>1
  <2>3. lines_read' = buffer' + Len(packet')
    BY <1>2
  <2> HIDE DEF n, c, b
  <2> QED
    BY <1>2, <1>6, <1>8, <1>10, <1>13, <1>14, <2>2, <2>3 DEF Batching
<1>16. Loading' /\ InTail' /\ HalfReadHasMore' /\ Complete' /\ NoUnderrun'
  BY <1>14 DEF Loading, InTail, HalfReadHasMore, InRecord, Complete, NoUnderrun
<1> QED
  BY <1>3, <1>4, <1>7, <1>15, <1>16 DEF IInv

LEMMA EndOfFileIInv ==
  ASSUME IInv, EndOfFile
  PROVE  IInv'
<1> DEFINE n == Len(packet)
           rb == readbuffer_cache
<1>1. pc = "fill" /\ lines_read >= FileWords /\ lines_read <= FileWords
      /\ lines_read = rb + n /\ lines_read \in Nat /\ n \in Nat /\ rb \in Nat
      /\ packet \in Seq(Nat) /\ emitted \in Nat /\ records \in Nat /\ field = 1
      /\ readbuffer_size_cache \in 0..BUFFER_CAPACITY
  BY DEF EndOfFile, IInv, FileOK, TypeOK, Loading
<1>2. TypeOK'
  BY <1>1 DEF EndOfFile, IInv, TypeOK, file, caches, decoding
<1>3. FileOK' /\ FileWords' = FileWords /\ FileWords \in Nat
  BY FileFacts DEF EndOfFile, IInv, FileOK, FileWords, file
<1>4. rb + n = FileWords
  BY <1>1, <1>3
<1>5. InPlace(rb, readbuffer_size_cache, field) /\ Consecutive(rb)
  BY <1>1 DEF IInv, Loading
<1>6. ASSUME lost = 0
      PROVE  (n = 0 => emitted = records) /\ (n # 0 => emitted < records)
  <2>1. rb + n = WholeFile(records)
    BY <1>4, <1>6, FileFacts DEF IInv
  <2>2. BitsOf(rb) - readbuffer_size_cache = Recs(emitted)
    <3>1. BitsOf(rb) - readbuffer_size_cache = Recs(emitted) + Offset[field - 1] /\ field - 1 = 0
      BY <1>1, <1>5 DEF InPlace
    <3>2. Offset[0] = 0 /\ Recs(emitted) \in Int
      BY <1>1, LayoutFacts, RecsFacts
    <3> QED
      BY <3>1, <3>2
  <2> HIDE DEF n, rb
  <2> QED
    BY <1>1, <2>1, <2>2, WordsMeanRecords
<1>7. n = 0 <=> packet = << >>
  BY <1>1
<1>8. PacketBounded' /\ Batching' /\ Loading' /\ NoUnderrun'
  BY DEF EndOfFile, IInv, PacketBounded, Batching, Loading, NoUnderrun
<1>9. InTail'
  <2>1. buffer' + Len(packet') = FileWords'
    BY <1>3, <1>4 DEF EndOfFile
  <2>2. Consecutive(buffer)' /\ InPlace(buffer, buffer_size, field)'
    BY <1>5 DEF EndOfFile, decoding, Consecutive, InPlace, BitsOf, Recs
  <2>3. pc' = "tail" /\ lost' = 0 => emitted' < records'
    BY <1>6, <1>7 DEF EndOfFile, decoding, file
  <2> QED
    BY <2>1, <2>2, <2>3 DEF EndOfFile, InTail
<1>10. Complete'
  BY <1>6, <1>7 DEF EndOfFile, decoding, file, Complete
<1>11. HalfReadHasMore'
  BY <1>1, LayoutAssumption DEF EndOfFile, decoding, HalfReadHasMore
<1> QED
  BY <1>2, <1>3, <1>8, <1>9, <1>10, <1>11 DEF IInv

-----------------------------------------------------------------------------
(* The batch loop.                                                         *)

LEMMA NextInBatchIInv ==
  ASSUME IInv, NextInBatch
  PROVE  IInv'
<1>1. pc = "batch" /\ i < Len(packet) /\ pc' = "batch_record"
  BY DEF NextInBatch, BatchGoesOn
<1>2. UNCHANGED <<file, lines_read, buffers, caches, decoding>>
  BY DEF NextInBatch
<1>3. Recs(emitted + 1) <= BitsOf(lines_read)
  BY <1>1, NextRecordLoaded DEF IInv
<1>4. TypeOK'
  BY <1>1, <1>2 DEF IInv, TypeOK, file, buffers, caches, decoding
<1>5. FileOK' /\ FileWords' = FileWords /\ PacketBounded'
  BY <1>2 DEF IInv, FileOK, FileWords, PacketBounded, file, buffers
<1>6. Batching'
  BY <1>1, <1>2, <1>3, <1>5
  DEF IInv, Batching, Consecutive, InPlace, BitsOf, Recs, buffers, caches, decoding
<1>7. HalfReadHasMore'
  BY <1>1, <1>2, LayoutAssumption DEF IInv, Batching, HalfReadHasMore, decoding
<1>8. Loading' /\ InTail' /\ Complete' /\ NoUnderrun'
  BY <1>1 DEF Loading, InTail, Complete, NoUnderrun
<1> QED
  BY <1>4, <1>5, <1>6, <1>7, <1>8 DEF IInv

LEMMA EndBatchIInv ==
  ASSUME IInv, EndBatch
  PROVE  IInv'
<1> DEFINE r == lines_read % CHUNK_WORDS
<1>1. /\ pc = "batch" /\ pc' = "fill" /\ Len(packet) <= CHUNK_WORDS
      /\ packet' = packet /\ lines_read' = lines_read
      /\ readbuffer_cache' = buffer /\ readbuffer_size_cache' = buffer_size
      /\ ~first_read'
  BY BatchLeaves DEF EndBatch, BatchGoesOn, IInv, Batching
<1>2. TypeOK'
  BY <1>1 DEF EndBatch, IInv, TypeOK, file, decoding
<1>3. FileOK' /\ FileWords' = FileWords /\ PacketBounded'
  BY DEF EndBatch, IInv, FileOK, FileWords, PacketBounded, file
<1>4. Loading'
  <2>1. /\ field' = 1 /\ lines_read' = readbuffer_cache' + Len(packet')
        /\ lines_read' <= FileWords'
    BY <1>1, <1>3 DEF EndBatch, IInv, Batching, decoding
  <2>2. Consecutive(readbuffer_cache)'
    BY <1>1 DEF IInv, Batching, Consecutive
  <2>3. InPlace(readbuffer_cache, readbuffer_size_cache, field)'
    BY <1>1 DEF EndBatch, IInv, Batching, decoding, InPlace, BitsOf, Recs
  <2>4. r = 0 /\ CHUNK_WORDS \in Nat /\ Len(packet) \in Nat
    BY <1>1, LoopAssumption DEF IInv, Batching, TypeOK
  <2> HIDE DEF r
  <2>5. r <= Len(packet) /\ Len(packet) <= CHUNK_WORDS + r
    BY <1>1, <2>4
  <2>6. /\ lines_read' % CHUNK_WORDS <= Len(packet')
        /\ Len(packet') <= CHUNK_WORDS + (lines_read' % CHUNK_WORDS)
    BY <1>1, <2>5 DEF r
  <2> QED
    BY <1>1, <2>1, <2>2, <2>3, <2>6 DEF Loading
<1>5. Batching' /\ InTail' /\ HalfReadHasMore' /\ Complete' /\ NoUnderrun'
  BY <1>1 DEF Batching, InTail, HalfReadHasMore, InRecord, Complete, NoUnderrun
<1> QED
  BY <1>2, <1>3, <1>4, <1>5 DEF IInv

-----------------------------------------------------------------------------
(* Reading a record.                                                       *)

\* The place of the read in a record, in the batch loop and in the tail.
LEMMA RecordFacts ==
  ASSUME IInv, InRecord
  PROVE  /\ mode = "READ_MODE" /\ Consecutive(buffer) /\ InPlace(buffer, buffer_size, field)
         /\ pc = "batch_record" => buffer + Len(packet) = lines_read
         /\ pc = "tail" => buffer + Len(packet) = FileWords
BY DEF IInv, InRecord, Batching, InTail

\* In a batch, and in all of a whole file, a record that is begun is loaded.
LEMMA RecordLoaded ==
  ASSUME IInv, InRecord, pc = "batch_record" \/ lost = 0
  PROVE  Recs(emitted + 1) <= BitsOf(buffer + Len(packet))
<1>1. CASE pc = "batch_record"
  BY <1>1 DEF IInv, Batching
<1>2. CASE pc = "tail" /\ lost = 0
  <2>1. /\ emitted \in Nat /\ records \in Nat /\ emitted < records
        /\ buffer + Len(packet) = WholeFile(records)
    BY <1>2, FileFacts DEF IInv, TypeOK, FileOK, InTail
  <2>2. emitted + 1 \in Int /\ records \in Int /\ emitted + 1 <= records
    BY <2>1
  <2>3. Recs(emitted + 1) <= Recs(records) /\ Recs(emitted + 1) \in Int /\ Recs(records) \in Int
    BY <2>2, RecsFacts
  <2>4. Recs(records) <= BitsOf(WholeFile(records)) /\ BitsOf(WholeFile(records)) \in Int
    <3>1. WholeFile(records) \in Int
      BY <2>1, WholeFileBits
    <3> QED
      BY <2>1, <3>1, WholeFileBits, BitsFacts
  <2>5. Recs(emitted + 1) <= BitsOf(WholeFile(records))
    BY <2>3, <2>4
  <2> QED
    BY <2>1, <2>5
<1> QED
  BY <1>1, <1>2 DEF InRecord

\* What a read does, and that it ends at the end of its field.
LEMMA ReadStep ==
  ASSUME IInv, InRecord, CanRead, Fetch
  PROVE  /\ packet' \in Seq(Nat) /\ Len(packet') \in Nat
         /\ Len(packet') <= Len(packet)
         /\ buffer' \in Nat
         /\ buffer_size' \in 0 .. BUFFER_CAPACITY - 1
         /\ buffer_size' \in 0 .. BUFFER_CAPACITY
         /\ buffer' + Len(packet') = buffer + Len(packet)
         /\ Consecutive(buffer)'
         /\ BitsOf(buffer') - buffer_size' = Recs(emitted) + Offset[field]
         /\ more' \in BOOLEAN
         /\ FileOK' /\ FileWords' = FileWords /\ PacketBounded'
<1>1. /\ packet' \in Seq(Nat) /\ Len(packet') \in Nat
      /\ Len(packet') <= Len(packet)
      /\ buffer' \in Nat
      /\ buffer_size' \in 0 .. BUFFER_CAPACITY - 1
      /\ buffer' + Len(packet') = buffer + Len(packet)
      /\ \A j \in 1..Len(packet') : packet'[j] = buffer' + j
      /\ BitsOf(buffer') - buffer_size' = BitsOf(buffer) - buffer_size + Width(field)
  BY RecordFacts, FetchTakes DEF IInv
<1>2. BitsOf(buffer') - buffer_size' = Recs(emitted) + Offset[field]
  <2>1. BitsOf(buffer) - buffer_size = Recs(emitted) + Offset[field - 1]
    BY RecordFacts DEF InPlace
  <2>2. field \in 1..NumFields /\ emitted \in Int
    BY DEF IInv, TypeOK
  <2>3. /\ Offset[field] = Offset[field - 1] + Width(field)
        /\ Offset[field - 1] \in Nat /\ Width(field) \in 1..BUFFER_CAPACITY
    BY <2>2, LayoutFacts
  <2>4. Recs(emitted) \in Int /\ BUFFER_CAPACITY \in Nat
    BY <2>2, RecsFacts, LayoutFacts
  <2> QED
    BY <1>1, <2>1, <2>3, <2>4
<1>3. more' \in BOOLEAN
  BY DEF Fetch, MoreAfter
<1>4. FileOK' /\ FileWords' = FileWords
  BY DEF Fetch, IInv, FileOK, FileWords, file
<1>5. PacketBounded'
  <2>1. CHUNK_WORDS \in Nat /\ Len(packet) \in Nat /\ Len(packet) <= 2 * CHUNK_WORDS
    BY LoopAssumption DEF IInv, TypeOK, PacketBounded
  <2>2. Len(packet') <= 2 * CHUNK_WORDS
    BY <1>1, <2>1
  <2> QED
    BY <2>2 DEF PacketBounded
<1>6. Consecutive(buffer)'
  BY <1>1 DEF Consecutive
<1>7. buffer_size' \in 0 .. BUFFER_CAPACITY
  BY <1>1, LayoutFacts
<1> QED
  BY <1>1, <1>2, <1>3, <1>4, <1>5, <1>6, <1>7

\* After a half a word is left: the other half is a word wide, and the buffer has less.
LEMMA HalfLeavesWord ==
  ASSUME IInv, InRecord, CanRead, Fetch, field \in HalfFields, lost = 0
  PROVE  packet' # << >>
<1>1. /\ field \in 1..NumFields /\ field + 1 \in 1..NumFields /\ field + 1 \in 0..NumFields
      /\ (field + 1) - 1 = field /\ Width(field + 1) = BUFFER_CAPACITY
  BY RecordAssumption, LayoutFacts DEF IInv, TypeOK
<1>2. /\ Offset[field + 1] = Offset[(field + 1) - 1] + Width(field + 1)
      /\ Offset[field + 1] <= RecordBits /\ Offset[field + 1] \in Nat
      /\ Offset[(field + 1) - 1] \in Nat
  BY <1>1, LayoutFacts
<1>3. Offset[field] \in Nat /\ Offset[field] + BUFFER_CAPACITY <= RecordBits
  BY <1>1, <1>2
<1>4. /\ buffer' \in Int /\ Len(packet') \in Int /\ emitted \in Int /\ Len(packet') \in Nat
      /\ buffer_size' \in 0 .. BUFFER_CAPACITY - 1
      /\ buffer' + Len(packet') = buffer + Len(packet)
      /\ BitsOf(buffer') - buffer_size' = Recs(emitted) + Offset[field]
  BY ReadStep DEF IInv, TypeOK
<1>5. Recs(emitted + 1) <= BitsOf(buffer' + Len(packet'))
  BY <1>4, RecordLoaded
<1>6. /\ Recs(emitted) \in Int /\ Recs(emitted + 1) = Recs(emitted) + RecordBits
      /\ BitsOf(buffer') \in Int /\ BitsOf(Len(packet')) \in Int
      /\ BitsOf(buffer' + Len(packet')) = BitsOf(buffer') + BitsOf(Len(packet'))
  BY <1>4, RecsFacts, BitsFacts
<1>7. BitsOf(Len(packet')) # 0
  <2> DEFINE o == Offset[field]
             e == Recs(emitted)
             b == BitsOf(buffer')
             a == BitsOf(Len(packet'))
             size == buffer_size'
  <2>1. /\ BUFFER_CAPACITY \in Nat \ {0} /\ RecordBits \in Nat
        /\ o \in Nat /\ o + BUFFER_CAPACITY <= RecordBits
    BY <1>3, LayoutFacts
  <2>2. /\ size \in 0 .. BUFFER_CAPACITY - 1
        /\ e \in Int /\ b \in Int /\ a \in Int
        /\ b - size = e + o /\ e + RecordBits <= b + a
    BY <1>4, <1>5, <1>6
  <2> HIDE DEF o, e, b, a, size
  <2>3. a # 0
    BY <2>1, <2>2
  <2> QED
    BY <2>3 DEF a
<1>8. BitsOf(0) = 0
  <2>1. 0 \in Int
    OBVIOUS
  <2> QED
    BY <2>1, BitsFacts
<1>9. Len(<< >>) = 0
  OBVIOUS
<1> QED
  BY <1>7, <1>8, <1>9

LEMMA ReadFieldIInv ==
  ASSUME IInv, ReadField
  PROVE  IInv'
<1>1. /\ InRecord /\ CanRead /\ Fetch /\ field < NumFields /\ field' = field + 1
      /\ pc' = pc /\ i' = i /\ emitted' = emitted
  BY DEF ReadField
<1>2. /\ packet' \in Seq(Nat) /\ buffer' \in Nat /\ buffer_size' \in 0..BUFFER_CAPACITY
      /\ buffer' + Len(packet') = buffer + Len(packet)
      /\ Consecutive(buffer)'
      /\ BitsOf(buffer') - buffer_size' = Recs(emitted) + Offset[field]
      /\ more' \in BOOLEAN
      /\ FileOK' /\ FileWords' = FileWords /\ PacketBounded'
  BY <1>1, ReadStep
<1>3. UNCHANGED <<file, lines_read, mode, caches>>
  BY <1>1 DEF Fetch
<1>4. field \in 1..NumFields /\ field + 1 \in 1..NumFields /\ (field + 1) - 1 = field
  BY <1>1, LayoutFacts DEF IInv, TypeOK
<1>5. TypeOK'
  BY <1>1, <1>2, <1>3, <1>4 DEF IInv, TypeOK, caches
<1>6. InPlace(buffer, buffer_size, field)'
  <2>1. BitsOf(buffer') - buffer_size' = Recs(emitted) + Offset[(field + 1) - 1]
    BY <1>2, <1>4
  <2> QED
    BY <1>1, <2>1 DEF InPlace, BitsOf, Recs
<1>7. Batching'
  <2> SUFFICES ASSUME pc = "batch_record" PROVE Batching'
    BY <1>1 DEF Batching, InRecord
  <2>1. lines_read' = buffer' + Len(packet') /\ mode' = "READ_MODE" /\ ~first_read'
    BY <1>2, <1>3, RecordFacts, <1>1 DEF IInv, Batching, caches
  <2>2. /\ lines_read' <= FileWords' /\ lines_read' % CHUNK_WORDS = 0
        /\ BitsOf(CHUNK_WORDS) <= BitsOf(lines_read') - Recs(emitted' - i')
        /\ BitsOf(lines_read') - Recs(emitted' - i') <= BitsOf(2 * CHUNK_WORDS + 1)
        /\ Recs(emitted' + 1) <= BitsOf(lines_read')
    BY <1>1, <1>2, <1>3 DEF IInv, Batching
  <2> QED
    BY <1>1, <1>2, <1>6, <2>1, <2>2 DEF Batching
<1>8. InTail'
  <2> SUFFICES ASSUME pc = "tail" PROVE InTail'
    BY <1>1 DEF InTail
  <2>1. buffer' + Len(packet') = FileWords' /\ mode' = "READ_MODE"
    BY <1>1, <1>2, <1>3, RecordFacts
  <2>2. lost' = 0 => emitted' < records'
    BY <1>1, <1>3 DEF IInv, InTail, file
  <2> QED
    BY <1>2, <1>6, <2>1, <2>2 DEF InTail
<1>9. HalfReadHasMore'
  <2>1. field \in HalfFields /\ lost = 0 => packet' # << >>
    BY <1>1, HalfLeavesWord
  <2>2. field \in HalfFields /\ lost = 0 => more'
    BY <1>1, <2>1 DEF Fetch, MoreAfter
  <2> QED
    BY <1>1, <1>3, <1>4, <2>2 DEF HalfReadHasMore, file
<1>10. Loading' /\ Complete' /\ NoUnderrun'
  BY <1>1 DEF InRecord, Loading, Complete, NoUnderrun
<1> QED
  BY <1>2, <1>5, <1>7, <1>8, <1>9, <1>10 DEF IInv

\* A record that is done in the batch loop.
LEMMA BatchRecordIInv ==
  ASSUME IInv, ReadLastField, pc = "batch_record"
  PROVE  IInv'
<1>1. /\ InRecord /\ CanRead /\ Fetch /\ field = NumFields /\ field' = 1
      /\ pc' = "batch" /\ i' = i + 1 /\ emitted' = emitted + 1
  BY DEF ReadLastField
<1>2. /\ packet' \in Seq(Nat) /\ buffer' \in Nat /\ buffer_size' \in 0..BUFFER_CAPACITY
      /\ buffer' + Len(packet') = buffer + Len(packet)
      /\ Consecutive(buffer)'
      /\ BitsOf(buffer') - buffer_size' = Recs(emitted) + Offset[field]
      /\ more' \in BOOLEAN
      /\ FileOK' /\ FileWords' = FileWords /\ PacketBounded'
  BY <1>1, ReadStep
<1>3. UNCHANGED <<file, lines_read, mode, caches>>
  BY <1>1 DEF Fetch
<1>4. emitted \in Nat /\ i \in Nat /\ 1 \in 1..NumFields
  BY LayoutFacts DEF IInv, TypeOK
<1>5. TypeOK'
  BY <1>1, <1>2, <1>3, <1>4 DEF IInv, TypeOK, caches
<1>6. InPlace(buffer, buffer_size, field)'
  <2>1. /\ Offset[NumFields] = RecordBits /\ Offset[1 - 1] = 0
        /\ Recs(emitted + 1) = Recs(emitted) + RecordBits /\ Recs(emitted + 1) \in Int
    <3>1. emitted \in Int /\ emitted + 1 \in Int
      BY <1>4
    <3>2. Recs(emitted + 1) = Recs(emitted) + RecordBits /\ Recs(emitted + 1) \in Int
      BY <3>1, RecsFacts
    <3>3. Offset[NumFields] = RecordBits /\ Offset[0] = 0
      BY LayoutFacts
    <3> QED
      BY <3>2, <3>3
  <2>2. BitsOf(buffer') - buffer_size' = Recs(emitted + 1) + Offset[1 - 1]
    BY <1>1, <1>2, <2>1
  <2> QED
    BY <1>1, <2>2 DEF InPlace, BitsOf, Recs
<1>7. Batching'
  <2>1. lines_read' = buffer' + Len(packet') /\ mode' = "READ_MODE" /\ ~first_read'
    BY <1>1, <1>2, <1>3, RecordFacts DEF IInv, Batching, caches
  <2>2. emitted' - i' = emitted - i
    BY <1>1, <1>4
  <2>3. /\ lines_read' <= FileWords' /\ lines_read' % CHUNK_WORDS = 0
        /\ BitsOf(CHUNK_WORDS) <= BitsOf(lines_read') - Recs(emitted' - i')
        /\ BitsOf(lines_read') - Recs(emitted' - i') <= BitsOf(2 * CHUNK_WORDS + 1)
    BY <1>2, <1>3, <2>2 DEF IInv, Batching
  <2> QED
    BY <1>1, <1>2, <1>6, <2>1, <2>3 DEF Batching
<1>8. Loading' /\ InTail' /\ HalfReadHasMore' /\ Complete' /\ NoUnderrun'
  BY <1>1 DEF Loading, InTail, HalfReadHasMore, InRecord, Complete, NoUnderrun
<1> QED
  BY <1>2, <1>5, <1>7, <1>8 DEF IInv

\* A record that is done in the tail loop: Read says that there is more exactly as long
\* as records are left, in a whole file.
LEMMA TailRecordIInv ==
  ASSUME IInv, ReadLastField, pc = "tail"
  PROVE  IInv'
<1>1. /\ InRecord /\ CanRead /\ Fetch /\ field = NumFields /\ field' = 1
      /\ pc' = IF more' THEN "tail" ELSE "done"
      /\ i' = i /\ emitted' = emitted + 1
  BY DEF ReadLastField
<1>2. /\ packet' \in Seq(Nat) /\ Len(packet') \in Nat
      /\ buffer' \in Nat /\ buffer_size' \in 0..BUFFER_CAPACITY
      /\ buffer' + Len(packet') = buffer + Len(packet)
      /\ Consecutive(buffer)'
      /\ BitsOf(buffer') - buffer_size' = Recs(emitted) + Offset[field]
      /\ more' \in BOOLEAN
      /\ FileOK' /\ FileWords' = FileWords /\ PacketBounded'
  BY <1>1, ReadStep
<1>3. UNCHANGED <<file, lines_read, mode, caches>>
  BY <1>1 DEF Fetch
<1>4. emitted \in Nat /\ emitted + 1 \in Nat /\ records \in Nat /\ 1 \in 1..NumFields
  BY LayoutFacts DEF IInv, TypeOK, FileOK
<1>5. TypeOK'
  BY <1>1, <1>2, <1>3, <1>4 DEF IInv, TypeOK, caches
<1>6. BitsOf(buffer') - buffer_size' = Recs(emitted + 1)
  <2>1. /\ Offset[NumFields] = RecordBits
        /\ Recs(emitted + 1) = Recs(emitted) + RecordBits
    <3>1. emitted \in Int
      BY <1>4
    <3> QED
      BY <3>1, LayoutFacts, RecsFacts
  <2> QED
    BY <1>1, <1>2, <2>1
<1>7. InPlace(buffer, buffer_size, field)'
  <2>1. Offset[1 - 1] = 0 /\ Recs(emitted + 1) \in Int
    <3>1. Offset[0] = 0 /\ emitted + 1 \in Int
      BY <1>4, LayoutFacts
    <3> QED
      BY <3>1, RecsFacts
  <2>2. BitsOf(buffer') - buffer_size' = Recs(emitted + 1) + Offset[1 - 1]
    BY <1>6, <2>1
  <2> QED
    BY <1>1, <2>2 DEF InPlace, BitsOf, Recs
<1>8. buffer' + Len(packet') = FileWords'
  BY <1>1, <1>2, RecordFacts
<1>9. ASSUME lost = 0
      PROVE  /\ more' => emitted + 1 < records
             /\ ~more' => emitted + 1 = records
  <2> DEFINE n == Len(packet')
             e == emitted + 1
  <2>1. buffer' + n = WholeFile(records)
    BY <1>2, <1>8, <1>9, FileFacts DEF IInv
  <2>2. (n = 0 => e = records) /\ (n # 0 => e < records)
    <3>1. e \in Nat /\ n \in Nat /\ BitsOf(buffer') - buffer_size' = Recs(e)
      BY <1>2, <1>4, <1>6
    <3> HIDE DEF n, e
    <3> QED
      BY <1>2, <1>4, <2>1, <3>1, WordsMeanRecords
  <2>3. more' \in MoreAfter(packet', buffer', buffer_size')
    BY <1>1 DEF Fetch
  <2>4. packet' # << >> => more' = TRUE
    BY <2>3 DEF MoreAfter
  <2>5. e = records => BUFFER_CAPACITY * buffer' - buffer_size' >= records * RecordBits
    <3>1. Recs(e) \in Int
      BY <1>4, RecsFacts
    <3>2. e = records => BitsOf(buffer') - buffer_size' >= Recs(records)
      BY <1>6, <3>1
    <3> QED
      BY <3>2 DEF BitsOf, Recs
  <2>6. packet' = << >> /\ e = records => more' = FALSE
    BY <2>3, <2>5 DEF MoreAfter
  <2>7. n = 0 <=> packet' = << >>
    BY <1>2
  <2> QED
    BY <1>2, <1>4, <2>2, <2>4, <2>6, <2>7
<1>10. InTail'
  BY <1>1, <1>2, <1>3, <1>7, <1>8, <1>9 DEF IInv, InTail, file
<1>11. Complete'
  BY <1>1, <1>3, <1>9 DEF Complete, file
<1>12. HalfReadHasMore'
  BY <1>1, LayoutAssumption DEF HalfReadHasMore
<1>13. Loading' /\ Batching' /\ NoUnderrun'
  BY <1>1 DEF Loading, Batching, NoUnderrun
<1> QED
  BY <1>2, <1>5, <1>10, <1>11, <1>12, <1>13 DEF IInv

\* A read has its words, but in a file cut short.
LEMMA ReadsEnough ==
  ASSUME IInv, InRecord, pc = "batch_record" \/ lost = 0
  PROVE  CanRead
BY RecordLoaded, RecordFacts, EnoughToRead DEF IInv

LEMMA UnderrunIInv ==
  ASSUME IInv, Underrun
  PROVE  IInv'
<1>1. pc = "tail" /\ lost # 0 /\ pc' = "underrun"
  BY ReadsEnough DEF Underrun, InRecord
<1>2. UNCHANGED <<file, lines_read, buffers, caches, decoding>>
  BY DEF Underrun
<1>3. TypeOK'
  BY <1>1, <1>2 DEF IInv, TypeOK, file, buffers, caches, decoding
<1>4. FileOK' /\ PacketBounded'
  BY <1>2 DEF IInv, FileOK, PacketBounded, file, buffers
<1>5. NoUnderrun'
  BY <1>1, <1>2 DEF IInv, FileOK, NoUnderrun, file
<1>6. Loading' /\ Batching' /\ InTail' /\ HalfReadHasMore' /\ Complete'
  BY <1>1 DEF Loading, Batching, InTail, HalfReadHasMore, InRecord, Complete
<1> QED
  BY <1>3, <1>4, <1>5, <1>6 DEF IInv

LEMMA StutterIInv ==
  ASSUME IInv, UNCHANGED vars
  PROVE  IInv'
BY DEF vars, file, buffers, caches, decoding, IInv, TypeOK, FileOK, PacketBounded, Loading,
       Batching, InTail, HalfReadHasMore, InRecord, Complete, NoUnderrun, Consecutive,
       InPlace, BitsOf, Recs, FileWords

-----------------------------------------------------------------------------

\* Every reachable state satisfies the inductive invariant.
THEOREM InvHolds == Spec => []IInv
<1>1. ASSUME IInv, [Next]_vars PROVE IInv'
  <2>1. CASE LoadWord
    BY <1>1, <2>1, LoadWordIInv
  <2>2. CASE StartBatch
    BY <1>1, <2>2, StartBatchIInv
  <2>3. CASE EndOfFile
    BY <1>1, <2>3, EndOfFileIInv
  <2>4. CASE NextInBatch
    BY <1>1, <2>4, NextInBatchIInv
  <2>5. CASE EndBatch
    BY <1>1, <2>5, EndBatchIInv
  <2>6. CASE ReadField
    BY <1>1, <2>6, ReadFieldIInv
  <2>7. CASE ReadLastField
    BY <1>1, <2>7, BatchRecordIInv, TailRecordIInv DEF ReadLastField, InRecord
  <2>8. CASE Underrun
    BY <1>1, <2>8, UnderrunIInv
  <2>9. CASE Finished \/ UNCHANGED vars
    BY <1>1, <2>9, StutterIInv DEF Finished
  <2> QED
    BY <1>1, <2>1, <2>2, <2>3, <2>4, <2>5, <2>6, <2>7, <2>8, <2>9 DEF Next
<1> QED
  BY InitIInv, <1>1, PTL DEF Spec

\* The room and the unread bits of the buffer and of its parked copies never wrap.
THEOREM TypeCorrect == Spec => []TypeOK
<1>1. IInv => TypeOK
  BY DEF IInv
<1> QED
  BY InvHolds, <1>1, PTL

\* InflateFile decodes every field from its own bits, in whole files and in files cut
\* short, however the word boundaries of the batches fall.
THEOREM FieldsAligned == Spec => []Aligned
<1>1. IInv => Aligned
  BY RecordFacts DEF Aligned, Position, Consecutive, InPlace, BitsOf, Recs
<1> QED
  BY InvHolds, <1>1, PTL

\* The batch loop never starts a record whose words are not all loaded.
THEOREM NeverStarves == Spec => []BatchNeverStarves
<1>1. IInv => BatchNeverStarves
  BY ReadsEnough DEF BatchNeverStarves, InRecord
<1> QED
  BY InvHolds, <1>1, PTL

\* No assertion of Read fails on a whole file, and nothing is taken from an empty packet.
THEOREM WholeFilesDoNotUnderrun == Spec => []NoUnderrun
<1>1. IInv => NoUnderrun
  BY DEF IInv
<1> QED
  BY InvHolds, <1>1, PTL

\* The assertions after the high halves of times and prices hold on whole files.
THEOREM HalvesFollowed == Spec => []HalfReadHasMore
<1>1. IInv => HalfReadHasMore
  BY DEF IInv
<1> QED
  BY InvHolds, <1>1, PTL

\* When a whole file is done, each of its records was written, and none twice.
THEOREM EveryRecordWritten == Spec => []Complete
<1>1. IInv => Complete
  BY DEF IInv
<1> QED
  BY InvHolds, <1>1, PTL

\* The packet never holds more than two batches of words, whatever the file's size.
THEOREM MemoryBounded == Spec => []PacketBounded
<1>1. IInv => PacketBounded
  BY DEF IInv
<1> QED
  BY InvHolds, <1>1, PTL
=============================================================================
