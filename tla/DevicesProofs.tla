--------------------------- MODULE DevicesProofs ----------------------------
(***************************************************************************)
(* What BlockDev and Keyboard promise, for disks, partitions, sectors and   *)
(* rings of any size.                                                      *)
(*                                                                         *)
(* The disk: RequestIs says of a request that its pieces lie in a row, each *)
(* at its home on the device; from that the disk keeps DiskOK.             *)
(*                                                                         *)
(* The keyboard: the driver lags behind the user by the bytes that are on   *)
(* their way.  DriverOK says that it knows what the hand was before them,   *)
(* and that reading the last byte again would tell it nothing new.         *)
(***************************************************************************)
EXTENDS MCDevices, FiniteSetTheorems, WellFoundedInduction, TLAPS

\* A set of numbers that has 0 and goes on up to n has all of 0 .. n.
LEMMA Climb ==
  ASSUME NEW n \in Nat, NEW T, 0 \in T, \A k \in 1 .. n : k - 1 \in T => k \in T
  PROVE  0 .. n \subseteq T
<1> DEFINE B == (0 .. n) \ T
<1>1. PICK R : /\ IsWellFoundedOn(R, Nat)
               /\ \A x, y \in Nat : y < x => <<y, x>> \in R
  <2>1. \A x, y \in Nat : y < x => <<y, x>> \in OpToRel(<, Nat)
    BY Zenon DEF OpToRel
  <2> QED BY <2>1, NatLessThanWellFounded, Zenon
<1>2. SUFFICES ASSUME B # {} PROVE FALSE
  BY Zenon
<1>3. B \subseteq Nat
  OBVIOUS
<1> HIDE DEF B
<1>4. PICK x \in B : \A y \in B : ~ (<<y, x>> \in R)
  BY <1>1, <1>2, <1>3, WFMin, Zenon
<1>5. x # 0 /\ x \in 1 .. n
  BY DEF B
<1>6. x - 1 \in Nat /\ x - 1 < x
  BY <1>5
<1>7. x - 1 \notin B
  BY <1>1, <1>4, <1>6, <1>3, Zenon
<1> QED BY <1>4, <1>5, <1>7 DEF B

\* f has the states of a loop of n turns that starts from a, turn k of which
\* is the function g[k]; J[k] is what holds after turn k.
IsLoop(f, n, a, g) == f = [k \in 0 .. n |-> IF k = 0 THEN a ELSE g[k][f[k - 1]]]
Keeps(J, n, g) == \A k \in 1 .. n : \A x \in J[k - 1] : g[k][x] \in J[k]

\* A loop whose turns keep J has states, which are in J.
LEMMA LoopExists ==
  ASSUME NEW n \in Nat, NEW J, NEW g, NEW a, a \in J[0], Keeps(J, n, g)
  PROVE  \E f : IsLoop(f, n, a, g) /\ \A k \in 0 .. n : f[k] \in J[k]
<1> DEFINE Good(f, m) == IsLoop(f, m, a, g) /\ \A k \in 0 .. m : f[k] \in J[k]
           T == {m \in 0 .. n : \E f : Good(f, m)}
<1>1. 0 \in T
  <2> DEFINE f == [k \in 0 .. 0 |-> a]
  <2>1. f = [k \in 0 .. 0 |-> IF k = 0 THEN a ELSE g[k][f[k - 1]]]
    OBVIOUS
  <2>2. Good(f, 0)
    BY <2>1 DEF IsLoop
  <2> HIDE DEF Good, f
  <2> QED BY <2>2
<1>2. ASSUME NEW m \in 1 .. n, m - 1 \in T PROVE m \in T
  <2>1. PICK f : Good(f, m - 1)
    BY <1>2, Zenon
  <2> DEFINE h == [k \in 0 .. m |-> IF k = m THEN g[m][f[m - 1]] ELSE f[k]]
  <2>2. ASSUME NEW k \in 0 .. m PROVE h[k] = IF k = 0 THEN a ELSE g[k][h[k - 1]]
    <3>1. CASE k = m
      BY <3>1
    <3>2. CASE k # m
      <4>1. k \in 0 .. m - 1 BY <3>2
      <4>2. f[k] = IF k = 0 THEN a ELSE g[k][f[k - 1]]
        BY <2>1, <4>1, Zenon DEF IsLoop
      <4>3. k # 0 => h[k - 1] = f[k - 1]
        BY <4>1
      <4> QED BY <4>2, <4>1, <4>3
    <3> QED BY <3>1, <3>2, Zenon
  <2>3. IsLoop(h, m, a, g)
    <3> HIDE DEF h
    <3>1. h = [k \in 0 .. m |-> h[k]]
      BY Zenon DEF h
    <3> QED BY <3>1, <2>2, SMTT(30) DEF IsLoop
  <2>4. \A k \in 0 .. m : h[k] \in J[k]
    <3>1. \A k \in 0 .. m - 1 : h[k] \in J[k]
      BY <2>1
    <3>2. m \in 1 .. n /\ f[m - 1] \in J[m - 1]
      BY <2>1
    <3>3. h[m] = g[m][f[m - 1]]
      OBVIOUS
    <3>4. h[m] \in J[m]
      BY <3>2, <3>3, Zenon DEF Keeps
    <3> HIDE DEF h
    <3> QED BY <3>1, <3>4
  <2>5. Good(h, m)
    BY <2>3, <2>4, Zenon
  <2> HIDE DEF Good, h
  <2> QED BY <2>5
<1>3. n \in T
  <2> HIDE DEF T
  <2>1. 0 .. n \subseteq T
    BY <1>1, <1>2, Climb, Zenon
  <2> QED BY <2>1
<1> QED BY <1>3, Zenon

\* The states of a loop are in J.
LEMMA LoopKeeps ==
  ASSUME NEW n \in Nat, NEW J, NEW h, h[0] \in J[0],
         \A k \in 1 .. n : h[k - 1] \in J[k - 1] => h[k] \in J[k]
  PROVE  h[n] \in J[n]
<1> DEFINE T == {k \in 0 .. n : h[k] \in J[k]}
<1>1. 0 \in T
  OBVIOUS
<1>2. \A k \in 1 .. n : k - 1 \in T => k \in T
  OBVIOUS
<1>3. 0 .. n \subseteq T
  <2> HIDE DEF T
  <2> QED BY <1>1, <1>2, Climb, Zenon
<1> QED BY <1>3

\* The smallest member of a set of numbers.
LEMMA MinIn ==
  ASSUME NEW S \in SUBSET Nat, S # {}
  PROVE  Min(S) \in S /\ \A y \in S : Min(S) <= y
<1>1. PICK R : /\ IsWellFoundedOn(R, Nat)
               /\ \A x, y \in Nat : y < x => <<y, x>> \in R
  <2>1. \A x, y \in Nat : y < x => <<y, x>> \in OpToRel(<, Nat)
    BY Zenon DEF OpToRel
  <2> QED BY <2>1, NatLessThanWellFounded, Zenon
<1>2. PICK x \in S : \A y \in S : ~ (<<y, x>> \in R)
  BY <1>1, WFMin, Zenon
<1>3. \A y \in S : x <= y
  <2> SUFFICES ASSUME NEW y \in S PROVE ~ (y < x)
    OBVIOUS
  <2> QED BY <1>1, <1>2, Zenon
<1> QED BY <1>3, Zenon DEF Min

\* The sector of a byte and its place in it.
LEMMA Division ==
  ASSUME NEW a \in Nat
  PROVE  /\ a \div SECTOR \in Nat /\ a % SECTOR \in 0 .. SECTOR - 1
         /\ a = SECTOR * (a \div SECTOR) + (a % SECTOR)
<1>1. SECTOR \in Nat \ {0}
  BY BlockDevAssumption
<1> QED BY <1>1

\* The byte at place r of sector k is in sector k.
LEMMA Sector ==
  ASSUME NEW k \in Nat, NEW r \in 0 .. SECTOR - 1
  PROVE  (SECTOR * k + r) \div SECTOR = k /\ (SECTOR * k + r) % SECTOR = r
<1>1. SECTOR \in Nat \ {0}
  BY BlockDevAssumption
<1> DEFINE a == SECTOR * k + r
<1>2. a \in Nat
  BY <1>1
<1>3. a = SECTOR * (a \div SECTOR) + (a % SECTOR) /\ a \div SECTOR \in Nat /\ a % SECTOR \in 0 .. SECTOR - 1
  BY <1>2, Division, Zenon
<1> QED BY <1>1, <1>2, <1>3

\* The smaller of two numbers.
LEMMA MinOfTwo ==
  ASSUME NEW a \in Int, NEW b \in Int
  PROVE  Min({a, b}) = IF a <= b THEN a ELSE b
BY DEF Min

-----------------------------------------------------------------------------
(* The pieces of a request.                                                 *)

\* How many bytes the piece of a partial first sector has.
FirstLen(off, n) == IF FirstPiece(off, n) = <<>> THEN 0 ELSE FirstPiece(off, n)[1].len

\* A piece of n bytes at off lies in the request, and in one sector; its
\* address is the one that its bytes are meant for, or, in a ragged request,
\* an address before that.
Home(p) == p.lba * SECTOR + p.skip - p.from
Fine(p, off, n) ==
  /\ p.lba \in Nat /\ p.skip \in Nat
  /\ p.from \in Nat /\ p.len \in 1 .. SECTOR /\ p.from + p.len <= n
  /\ Home(p) \in Int /\ Home(p) <= off /\ Home(p) + p.from >= 0
  /\ ~Ragged(off, n) => Home(p) = off

\* The piece of the partial first sector.
LEMMA FirstIs ==
  ASSUME NEW off \in Nat, NEW n \in Nat
  PROVE  /\ FirstLen(off, n) \in 0 .. n /\ FirstLen(off, n) < SECTOR
         /\ FirstPiece(off, n) = <<>> =>
              FirstLen(off, n) = 0 /\ (off % SECTOR = 0 \/ n = 0)
         /\ FirstPiece(off, n) # <<>> =>
              /\ FirstPiece(off, n) = <<FirstPiece(off, n)[1]>>
              /\ FirstPiece(off, n)[1].from = 0
              /\ FirstPiece(off, n)[1].len = FirstLen(off, n)
              /\ Fine(FirstPiece(off, n)[1], off, n)
              /\ off % SECTOR # 0
              /\ FirstLen(off, n) = n \/ FirstLen(off, n) = SECTOR - (off % SECTOR)
<1> DEFINE r == off % SECTOR
           q == off \div SECTOR
           c == Min({SECTOR - r, n})
           p == Piece(q, r, 0, c)
<1>1. SECTOR \in Nat \ {0} /\ q \in Nat /\ r \in 0 .. SECTOR - 1 /\ off = SECTOR * q + r
  BY Division, BlockDevAssumption, Zenon
<1>2. CASE r = 0 \/ n = 0
  BY <1>1, <1>2 DEF FirstPiece, FirstLen
<1>3. CASE ~(r = 0 \/ n = 0)
  <2>1. FirstPiece(off, n) = <<p>>
    BY <1>3, Zenon DEF FirstPiece
  <2>2. c = IF SECTOR - r <= n THEN SECTOR - r ELSE n
    BY <1>1, MinOfTwo
  <2> HIDE DEF c
  <2>3. c \in 1 .. n /\ c < SECTOR
    BY <1>1, <1>3, <2>2
  <2>4. p.lba = q /\ p.skip = r /\ p.from = 0 /\ p.len = c
    BY Zenon DEF Piece
  <2> HIDE DEF p, q, r
  <2>5. Home(p) = off
    BY <1>1, <2>4 DEF Home
  <2>6. Fine(p, off, n)
    BY <2>3, <2>4, <2>5, <1>1 DEF Fine
  <2>7. <<p>> # <<>> /\ <<p>>[1] = p
    BY Zenon
  <2>8. FirstLen(off, n) = c
    BY <2>1, <2>4, <2>7, Zenon DEF FirstLen
  <2>9. off % SECTOR # 0
    BY <1>3, Zenon DEF r
  <2>10. c = n \/ c = SECTOR - (off % SECTOR)
    BY <2>2, Zenon DEF r
  <2> QED BY <2>1, <2>3, <2>4, <2>6, <2>7, <2>8, <2>9, <2>10, <1>1
<1> QED BY <1>2, <1>3, Zenon

\* The pieces behind it: each starts where the one before ends.
LEMMA OthersAre ==
  ASSUME NEW off \in Nat, NEW n \in Nat
  PROVE  LET done == FirstLen(off, n)
             ps   == OtherPieces(off, n, done)
         IN /\ ps \in Seq(Range(ps))
            /\ \A k \in 1 .. Len(ps) : Fine(ps[k], off, n)
            /\ ps # <<>> => ps[1].from = done
            /\ \A k \in 1 .. Len(ps) - 1 : ps[k + 1].from = ps[k].from + ps[k].len
<1> DEFINE done == FirstLen(off, n)
           ps   == OtherPieces(off, n, done)
           m == (n - done + SECTOR - 1) \div SECTOR
           tot(k) == done + (k - 1) * SECTOR
           q == off \div SECTOR
           r == off % SECTOR
<1>1. SECTOR \in Nat \ {0} /\ q \in Nat /\ r \in 0 .. SECTOR - 1 /\ off = SECTOR * q + r
  BY Division, BlockDevAssumption, Zenon
<1>2. done \in 0 .. n /\ done < SECTOR
  BY FirstIs, Zenon
<1>3. ps = [k \in 1 .. m |-> Piece(q + tot(k) \div SECTOR, 0, tot(k), Min({SECTOR, n - tot(k)}))]
  BY Zenon DEF OtherPieces
<1>4. r = 0 \/ n = done \/ done = SECTOR - r
  BY FirstIs, Zenon
<1>5. r = 0 => done = 0
  BY FirstIs, Zenon
<1> HIDE DEF done, ps, q, r
<1>6. m \in Nat /\ m * SECTOR <= n - done + SECTOR - 1
  <2>1. n - done + SECTOR - 1 \in Nat
    BY <1>1, <1>2
  <2> HIDE DEF m
  <2>2. m \in Nat /\ n - done + SECTOR - 1 = SECTOR * m + ((n - done + SECTOR - 1) % SECTOR)
        /\ ((n - done + SECTOR - 1) % SECTOR) \in 0 .. SECTOR - 1
    BY <2>1, Division, Zenon DEF m
  <2> QED BY <2>2, <1>1
<1> HIDE DEF m
<1>7. ASSUME NEW k \in 1 .. m
      PROVE  /\ tot(k) \in Nat /\ tot(k) < n /\ tot(k) \div SECTOR = k - 1
             /\ k < m => tot(k) + SECTOR <= n
             /\ tot(k + 1) = tot(k) + SECTOR
  <2>1. (k - 1) * SECTOR <= (m - 1) * SECTOR /\ (m - 1) * SECTOR = m * SECTOR - SECTOR
    BY <1>1, <1>6
  <2>2. tot(k) \in Nat /\ tot(k) < n
    BY <2>1, <1>1, <1>2, <1>6
  <2>3. k < m => k * SECTOR <= (m - 1) * SECTOR /\ k * SECTOR = (k - 1) * SECTOR + SECTOR
    BY <1>1, <1>6
  <2>4. k < m => tot(k) + SECTOR <= n
    BY <2>1, <2>3, <1>1, <1>2, <1>6
  <2>5. tot(k) = SECTOR * (k - 1) + done /\ k - 1 \in Nat
    BY <1>1, <1>2
  <2>6. tot(k) \div SECTOR = k - 1
    BY <2>5, <1>1, <1>2, Sector, SMTT(30)
  <2>7. tot(k + 1) = tot(k) + SECTOR
    BY <1>1, <1>2
  <2> QED BY <2>2, <2>4, <2>6, <2>7, Zenon
<1>8. ASSUME NEW k \in 1 .. m
      PROVE  /\ ps[k].lba = q + k - 1 /\ ps[k].skip = 0 /\ ps[k].from = tot(k)
             /\ ps[k].len = IF SECTOR <= n - tot(k) THEN SECTOR ELSE n - tot(k)
  <2>1. ps[k] = Piece(q + (k - 1), 0, tot(k), Min({SECTOR, n - tot(k)}))
    BY <1>3, <1>7, Zenon
  <2>2. Min({SECTOR, n - tot(k)}) = IF SECTOR <= n - tot(k) THEN SECTOR ELSE n - tot(k)
    BY <1>7, <1>1, MinOfTwo
  <2> QED BY <2>1, <2>2, <1>1 DEF Piece
<1>9. Len(ps) = m /\ ps \in Seq(Range(ps))
  <2>1. Len(ps) = m /\ DOMAIN ps = 1 .. m
    BY <1>3, <1>6
  <2>2. ps \in [1 .. m -> Range(ps)]
    BY <1>3, <2>1, Zenon DEF Range
  <2> QED BY <2>1, <2>2, <1>6
<1>10. ASSUME NEW k \in 1 .. m PROVE Fine(ps[k], off, n)
  <2> DEFINE x == tot(k)
  <2>1. x \in Nat /\ x < n /\ x = done + (k - 1) * SECTOR
    BY <1>7, Zenon
  <2>2. Home(ps[k]) = (q + k - 1) * SECTOR - x
    BY <1>8, <1>1, <2>1 DEF Home
  <2>3. (q + k - 1) * SECTOR = SECTOR * q + (k - 1) * SECTOR /\ (k - 1) * SECTOR \in Nat
    BY <1>1
  <2>4. Home(ps[k]) = SECTOR * q - done
    BY <2>1, <2>2, <2>3, <1>1, <1>2
  <2>5. Home(ps[k]) + x >= 0
    BY <2>1, <2>3, <2>4, <1>1, <1>2
  <2>6. ps[k].len \in 1 .. SECTOR /\ x + ps[k].len <= n
    BY <2>1, <1>8, <1>1
  <2>7. ~Ragged(off, n) => r = 0
    <3>1. n # done
      BY <2>1, <2>3, <1>1, <1>2
    <3>2. r # 0 => r + n > SECTOR
      BY <3>1, <1>4, <1>1, <1>2
    <3> QED BY <3>2, Zenon DEF Ragged, r
  <2> QED BY <2>1, <2>4, <2>5, <2>6, <2>7, <1>1, <1>2, <1>5, <1>8 DEF Fine
<1>11. ps # <<>> => ps[1].from = done
  <2>1. ps # <<>> => 1 \in 1 .. m
    BY <1>9, <1>6
  <2>2. tot(1) = done
    BY <1>1, <1>2
  <2> QED BY <2>1, <2>2, <1>8, Zenon
<1>12. ASSUME NEW k \in 1 .. m - 1 PROVE ps[k + 1].from = ps[k].from + ps[k].len
  <2>1. k \in 1 .. m /\ k + 1 \in 1 .. m /\ k < m
    BY <1>6
  <2> QED BY <2>1, <1>7, <1>8, <1>1
<1> QED BY <1>9, <1>10, <1>11, <1>12, Zenon DEF ps, done

\* A row of pieces of n bytes at off that has no gap.
Row(ps, off, n) ==
  /\ ps \in Seq(Range(ps))
  /\ \A k \in 1 .. Len(ps) : Fine(ps[k], off, n)
  /\ ps # <<>> => ps[1].from = 0
  /\ \A k \in 1 .. Len(ps) - 1 : ps[k + 1].from = ps[k].from + ps[k].len

\* A request is such a row.
LEMMA PiecesAre ==
  ASSUME NEW off \in Nat, NEW n \in Nat
  PROVE  Row(Pieces(off, n), off, n)
<1> DEFINE first == FirstPiece(off, n)
           done  == FirstLen(off, n)
           rest  == OtherPieces(off, n, done)
           ps    == Pieces(off, n)
<1>1. ps = first \o rest
  BY Zenon DEF Pieces, FirstLen
<1>2. /\ rest \in Seq(Range(rest))
      /\ \A k \in 1 .. Len(rest) : Fine(rest[k], off, n)
      /\ rest # <<>> => rest[1].from = done
      /\ \A k \in 1 .. Len(rest) - 1 : rest[k + 1].from = rest[k].from + rest[k].len
  BY OthersAre, Zenon
<1>3. CASE first = <<>>
  <2>1. ps = rest
    BY <1>1, <1>2, <1>3
  <2>2. done = 0
    BY <1>3, FirstIs
  <2> HIDE DEF ps, rest, done
  <2>3. Row(ps, off, n)
    BY <1>2, <2>1, <2>2, Zenon DEF Row
  <2> QED BY <2>3, Zenon DEF ps
<1>4. CASE first # <<>>
  <2> DEFINE p == first[1]
  <2>1. first = <<p>> /\ p.from = 0 /\ p.len = done /\ Fine(p, off, n)
    BY <1>4, FirstIs, Zenon
  <2> HIDE DEF p, first, rest, done, ps
  <2>2. /\ Len(ps) = Len(rest) + 1 /\ Len(rest) \in Nat
        /\ ps[1] = p /\ \A k \in 1 .. Len(rest) : ps[k + 1] = rest[k]
        /\ DOMAIN ps = 1 .. Len(ps)
    BY <1>1, <1>2, <2>1, SMTT(30)
  <2>3. ps \in Seq(Range(ps))
    <3>1. ps = [k \in 1 .. Len(ps) |-> ps[k]]
      BY <1>1, <1>2, <2>1
    <3>2. ps \in [1 .. Len(ps) -> Range(ps)]
      BY <3>1, <2>2, Zenon DEF Range
    <3> QED BY <3>2, <2>2
  <2>4. ASSUME NEW k \in 1 .. Len(ps) PROVE Fine(ps[k], off, n)
    <3>1. CASE k = 1
      BY <3>1, <2>1, <2>2, Zenon
    <3>2. CASE k # 1
      <4>1. k - 1 \in 1 .. Len(rest) /\ k = (k - 1) + 1
        BY <3>2, <2>2
      <4> QED BY <4>1, <2>2, <1>2, Zenon
    <3> QED BY <3>1, <3>2, Zenon
  <2>5. ASSUME NEW k \in 1 .. Len(ps) - 1 PROVE ps[k + 1].from = ps[k].from + ps[k].len
    <3>1. CASE k = 1
      <4>1. 1 \in 1 .. Len(rest) /\ rest # <<>>
        BY <2>2, <3>1, <1>2
      <4>2. ps[1 + 1] = rest[1] /\ rest[1].from = done /\ ps[1] = p
        BY <4>1, <2>2, <1>2, Zenon
      <4>3. done \in Nat
        BY FirstIs DEF done
      <4> QED BY <4>2, <4>3, <2>1, <3>1
    <3>2. CASE k # 1
      <4>1. k - 1 \in 1 .. Len(rest) - 1 /\ k = (k - 1) + 1 /\ k \in 1 .. Len(rest)
            /\ k - 1 \in 1 .. Len(rest)
        BY <3>2, <2>2
      <4>2. ps[k + 1] = rest[k] /\ ps[k] = rest[k - 1]
        BY <4>1, <2>2, Zenon
      <4>3. rest[(k - 1) + 1].from = rest[k - 1].from + rest[k - 1].len
        BY <4>1, <1>2, Zenon
      <4> QED BY <4>1, <4>2, <4>3, Zenon
    <3> QED BY <3>1, <3>2, Zenon
  <2>6. Row(ps, off, n)
    BY <2>1, <2>2, <2>3, <2>4, <2>5, Zenon DEF Row
  <2> QED BY <2>6 DEF ps
<1> QED BY <1>3, <1>4, Zenon

\* So are its first pieces, which have every byte up to their total.
LEMMA RowCovers ==
  ASSUME NEW off \in Nat, NEW n \in Nat, NEW ps, Row(ps, off, n), NEW good \in 0 .. Len(ps)
  PROVE  LET some == SubSeq(ps, 1, good)
         IN /\ Row(some, off, n) /\ Total(some) \in 0 .. n
            /\ good = 0 => Total(some) = 0
            /\ \A j \in 0 .. Total(some) - 1 :
                 \E p \in Range(some) : j \in p.from .. p.from + p.len - 1
            /\ \A p \in Range(some) : Fine(p, off, n)
<1> DEFINE some == SubSeq(ps, 1, good)
<1>1. ps \in Seq(Range(ps)) /\ Len(ps) \in Nat /\ good \in Nat
  BY DEF Row
<1>2. Len(some) = good /\ \A k \in 1 .. good : some[k] = ps[k]
  BY <1>1
<1>3. some \in Seq(Range(ps)) /\ DOMAIN some = 1 .. good
  BY <1>1, <1>2
<1> HIDE DEF some
<1>4. some \in Seq(Range(some))
  <2>1. some \in [1 .. good -> Range(some)]
    BY <1>3 DEF Range
  <2> QED BY <2>1, <1>1
<1>5. Row(some, off, n)
  <2>1. \A k \in 1 .. good : k \in 1 .. Len(ps)
    BY <1>1
  <2>2. \A k \in 1 .. good - 1 : k \in 1 .. Len(ps) - 1 /\ k \in 1 .. good /\ k + 1 \in 1 .. good
    BY <1>1
  <2>3. some # <<>> => 1 \in 1 .. good /\ ps # <<>>
    BY <1>1, <1>2, <1>3
  <2> QED BY <1>2, <1>4, <2>1, <2>2, <2>3, Zenon DEF Row
<1>6. \A p \in Range(some) : Fine(p, off, n)
  BY <1>3, <1>5, <1>2, Zenon DEF Range, Row
<1>7. CASE good = 0
  <2>1. some = <<>>
    BY <1>2, <1>3, <1>7
  <2>2. Total(some) = 0
    BY <2>1, Zenon DEF Total
  <2>3. Total(some) \in 0 .. n /\ 0 .. Total(some) - 1 = {}
    BY <2>2
  <2> QED BY <2>2, <2>3, <1>5, <1>6, Zenon DEF some
<1>8. CASE good # 0
  <2>1. good \in 1 .. good /\ some # <<>>
    BY <1>1, <1>2, <1>8
  <2>2. Total(some) = some[good].from + some[good].len
    BY <2>1, <1>2, Zenon DEF Total
  <2>3. \A k \in 1 .. good : some[k].from \in Nat /\ some[k].len \in Nat /\ some[k].from + some[k].len <= n
    BY <1>2, <1>5, SMTT(30) DEF Row, Fine
  <2>4. Total(some) \in 0 .. n
    BY <2>1, <2>2, <2>3, SMTT(30)
  <2>5. ASSUME NEW j \in 0 .. Total(some) - 1
        PROVE  \E p \in Range(some) : j \in p.from .. p.from + p.len - 1
    <3> DEFINE T == {k \in 1 .. good : j < some[k].from + some[k].len}
               k == Min(T)
    <3>1. good \in T
      BY <2>1, <2>2, <2>3
    <3>2. T \in SUBSET Nat /\ T # {}
      BY <3>1
    <3>3. k \in T /\ \A y \in T : k <= y
      <4> HIDE DEF T
      <4> QED BY <3>2, MinIn, Zenon
    <3> HIDE DEF k
    <3>4. k \in 1 .. good /\ j < some[k].from + some[k].len
      BY <3>3, Zenon
    <3>5. some[k].from <= j
      <4>1. CASE k = 1
        BY <4>1, <2>1, <1>5 DEF Row
      <4>2. CASE k # 1
        <5>1. k - 1 \in 1 .. good /\ k - 1 \in 1 .. Len(some) - 1 /\ (k - 1) + 1 = k
          BY <4>2, <3>4, <1>2
        <5>2. k - 1 \notin T
          BY <5>1, <3>3
        <5>3. some[k].from = some[k - 1].from + some[k - 1].len
          BY <5>1, <1>5, Zenon DEF Row
        <5> QED BY <5>1, <5>2, <5>3, <2>3, SMTT(30)
      <4> QED BY <4>1, <4>2, Zenon
    <3>6. some[k] \in Range(some)
      BY <3>4, <1>3, SMTT(30) DEF Range
    <3>7. j \in some[k].from .. some[k].from + some[k].len - 1
      BY <3>4, <3>5, <2>3, SMTT(30)
    <3> QED BY <3>6, <3>7, Zenon
  <2> QED BY <2>4, <2>5, <1>5, <1>6, <1>8, Zenon DEF some
<1> QED BY <1>7, <1>8, Zenon

-----------------------------------------------------------------------------
(* A request.                                                               *)

\* A number smaller than w is its own remainder.
LEMMA Small ==
  ASSUME NEW w \in Nat \ {0}, NEW x \in 0 .. w - 1
  PROVE  x % w = x
OBVIOUS

\* The sizes of the device.
LEMMA DevSizes ==
  ASSUME DevicesFit, NEW d \in Dev
  PROVE  /\ SECTOR \in Nat \ {0} /\ WORD \in Nat \ {0} /\ MaxBytes \in Nat
         /\ Bytes(d) \in Nat /\ Bytes(d) + MaxBytes < WORD /\ Base(d) \in Nat
         /\ Base(d) + Bytes(d) <= NSECTORS * SECTOR
<1>1. /\ SECTOR \in Nat \ {0} /\ WORD \in Nat \ {0} /\ MaxBytes \in Nat
      /\ NSECTORS \in Nat
  BY BlockDevAssumption, Zenon
<1> DEFINE s == Devices[d].start
           c == Devices[d].count
<1>2. s \in Nat /\ c \in Nat /\ s + c <= NSECTORS /\ Bytes(d) + MaxBytes < WORD
  BY Zenon DEF DevicesFit
<1>3. Bytes(d) = c * SECTOR /\ Base(d) = s * SECTOR
  BY Zenon DEF Bytes, Base
<1> HIDE DEF s, c
<1>4. c * SECTOR \in Nat /\ s * SECTOR \in Nat /\ s * SECTOR + c * SECTOR = (s + c) * SECTOR
  BY <1>1, <1>2
<1>5. (s + c) * SECTOR <= NSECTORS * SECTOR
  BY <1>1, <1>2
<1> QED BY <1>1, <1>2, <1>3, <1>4, <1>5, Zenon

\* A request is cut at the end of the device.
LEMMA ClippedIs ==
  ASSUME DevicesFit, NEW d \in Dev, NEW off \in 0 .. Bytes(d), NEW n \in 0 .. MaxBytes
  PROVE  Clipped(d, off, n) \in Nat /\ off + Clipped(d, off, n) <= Bytes(d)
<1>1. /\ SECTOR \in Nat \ {0} /\ WORD \in Nat \ {0} /\ MaxBytes \in Nat
      /\ Bytes(d) \in Nat /\ Bytes(d) + MaxBytes < WORD
  BY DevSizes, Zenon
<1>2. Bytes(d) % WORD = Bytes(d) /\ (off + n) % WORD = off + n
  BY <1>1
<1> QED BY <1>1, <1>2 DEF Clipped

\* What a request moves: it stays on the device, byte j is at off + j unless
\* the request is ragged, and the position goes on by what was moved.
LEMMA RequestIs ==
  ASSUME DevicesFit, NEW d \in Dev, NEW off \in 0 .. Bytes(d), NEW n \in 0 .. MaxBytes,
         NEW good \in 0 .. Len(Pieces(off, Clipped(d, off, n)))
  PROVE  LET ps == Moved(d, off, n, good)
             ret == Result(d, off, n, good)
         IN /\ Total(ps) \in Nat /\ off + Total(ps) <= Bytes(d)
            /\ \A j \in 0 .. Total(ps) - 1 :
                 /\ Place(d, ps, j) \in Base(d) .. Base(d) + Bytes(d) - 1
                 /\ ~Ragged(off, Clipped(d, off, n)) => Place(d, ps, j) = Base(d) + off + j
            /\ (IF ret > 0 THEN (off + ret) % WORD ELSE off) = off + Total(ps)
<1> DEFINE c == Clipped(d, off, n)
           all == Pieces(off, c)
           ps == Moved(d, off, n, good)
           ret == Result(d, off, n, good)
<1>1. /\ SECTOR \in Nat \ {0} /\ WORD \in Nat \ {0} /\ MaxBytes \in Nat
      /\ Bytes(d) \in Nat /\ Bytes(d) + MaxBytes < WORD /\ Base(d) \in Nat /\ off \in Nat
  BY DevSizes
<1>2. c \in Nat /\ off + c <= Bytes(d)
  BY ClippedIs, Zenon
<1> HIDE DEF c
<1>3. Row(all, off, c)
  BY <1>1, <1>2, PiecesAre, Zenon
<1>4. ps = SubSeq(all, 1, good)
  BY Zenon DEF Moved, c
<1>5. good \in 0 .. Len(all)
  BY Zenon DEF c
<1>6. ret = IF good = 0 /\ all # <<>> /\ all[1].skip # 0 THEN -1 ELSE Total(ps)
  BY Zenon DEF Result, c
<1> HIDE DEF all, ps, ret
<1>7. /\ Total(ps) \in 0 .. c
      /\ good = 0 => Total(ps) = 0
      /\ \A j \in 0 .. Total(ps) - 1 :
           \E p \in Range(ps) : j \in p.from .. p.from + p.len - 1
      /\ \A p \in Range(ps) : Fine(p, off, c)
  <2>1. LET some == SubSeq(all, 1, good)
        IN /\ Row(some, off, c) /\ Total(some) \in 0 .. c
           /\ good = 0 => Total(some) = 0
           /\ \A j \in 0 .. Total(some) - 1 :
                \E p \in Range(some) : j \in p.from .. p.from + p.len - 1
           /\ \A p \in Range(some) : Fine(p, off, c)
    BY <1>1, <1>2, <1>3, <1>5, RowCovers, SMTT(30)
  <2> QED BY <2>1, <1>4, Zenon
<1>8. ASSUME NEW j \in 0 .. Total(ps) - 1
      PROVE  /\ Place(d, ps, j) \in Base(d) .. Base(d) + Bytes(d) - 1
             /\ ~Ragged(off, c) => Place(d, ps, j) = Base(d) + off + j
  <2> DEFINE p == CHOOSE p \in Range(ps) : j \in p.from .. p.from + p.len - 1
  <2>1. p \in Range(ps) /\ j \in p.from .. p.from + p.len - 1
    BY <1>7, Zenon
  <2>2. Place(d, ps, j) = Base(d) + p.lba * SECTOR + p.skip + j - p.from
    BY Zenon DEF Place
  <2> HIDE DEF p
  <2>3. Fine(p, off, c)
    BY <2>1, <1>7, Zenon
  <2>4. Total(ps) <= c /\ j \in Nat /\ j < c /\ p.from \in Nat /\ p.from <= j
    BY <1>7, <1>2, <2>1, <2>3, SMTT(30) DEF Fine
  <2>5. /\ p.lba \in Nat /\ p.skip \in Nat
        /\ Home(p) \in Int /\ Home(p) <= off /\ Home(p) + p.from >= 0
        /\ ~Ragged(off, c) => Home(p) = off
    BY <2>3, Zenon DEF Fine
  <2>6. PICK x, from, skip, base, size, home :
             x = p.lba * SECTOR /\ from = p.from /\ skip = p.skip /\ base = Base(d)
             /\ size = Bytes(d) /\ home = Home(p)
    BY Zenon
  <2>7. x \in Nat
    <3>1. \A l \in Nat : l * SECTOR \in Nat
      BY <1>1
    <3> QED BY <3>1, <2>5, <2>6, Zenon
  <2>8. Place(d, ps, j) = base + x + skip + j - from /\ home = x + skip - from
    BY <2>2, <2>6, Zenon DEF Home
  <2>9. /\ from \in Nat /\ skip \in Nat /\ base \in Nat /\ size \in Nat /\ j \in Nat
        /\ from <= j /\ j < c /\ off + c <= size /\ home <= off /\ home + from >= 0
        /\ off \in Nat /\ c \in Nat /\ home \in Int
    BY <1>1, <1>2, <2>4, <2>5, <2>6, Zenon
  <2>10. /\ base + x + skip + j - from = base + home + j
         /\ base + home + j \in base .. base + size - 1
    BY <2>7, <2>8, <2>9
  <2>11. Place(d, ps, j) = base + home + j
    BY <2>8, <2>10, Zenon
  <2>12. Place(d, ps, j) \in base .. base + size - 1
    BY <2>10, <2>11, Zenon
  <2> QED BY <2>5, <2>6, <2>11, <2>12, Zenon
<1>9. (IF ret > 0 THEN (off + ret) % WORD ELSE off) = off + Total(ps)
  <2>1. Total(ps) \in Nat /\ off + Total(ps) <= Bytes(d)
    BY <1>7, <1>1, <1>2, SMTT(30)
  <2>2. off + Total(ps) \in 0 .. WORD - 1
    BY <2>1, <1>1, SMTT(30)
  <2>3. (off + Total(ps)) % WORD = off + Total(ps)
    BY <2>2, <1>1, Small, SMTT(30)
  <2>4. CASE ret = Total(ps)
    BY <2>1, <2>3, <2>4, <1>1, SMTT(30)
  <2>5. CASE ret = -1 /\ good = 0
    BY <2>1, <2>5, <1>7, <1>1
  <2> QED BY <2>4, <2>5, <1>6, Zenon
<1>10. Total(ps) \in Nat /\ off + Total(ps) <= Bytes(d)
  BY <1>7, <1>1, <1>2
<1> QED BY <1>8, <1>9, <1>10, Zenon DEF ps, ret, c

-----------------------------------------------------------------------------
(* The steps.                                                               *)

\* The inductive invariant: the file is open on a device, its position is on
\* it or at its end, and every byte is at home.
DiskOK ==
  /\ dev \in Dev /\ pos \in 0 .. Bytes(dev)
  /\ DOMAIN last = {"call", "pos", "bytes", "wrote", "ragged"}
  /\ BytesAtHome

\* PositionFollows, of one step.
PositionStep ==
  last'.call # "lseek" /\ pos' # pos =>
    /\ pos' <= Bytes(dev)
    /\ last'.call = "read" => pos' - pos = Len(last'.bytes)
    /\ last'.call = "write" /\ ~last'.ragged => pos' - pos = Cardinality(last'.wrote)

\* block_file_read
LEMMA ReadKeeps ==
  ASSUME DevicesFit, DiskOK, ~last.ragged, NEW n \in 0 .. MaxBytes, NEW good \in Goods(n),
         Read(n, good)
  PROVE  DiskOK' /\ PositionStep
<1> DEFINE c == Clipped(dev, pos, n)
           ps == Moved(dev, pos, n, good)
           T == Total(ps)
           got == [j \in 1 .. T |-> disk[Place(dev, ps, j - 1)]]
<1>1. dev \in Dev /\ pos \in 0 .. Bytes(dev) /\ dev' = dev /\ disk' = disk
  BY Zenon DEF DiskOK, Read
<1>2. good \in 0 .. Len(Pieces(pos, c))
  BY Zenon DEF Goods
<1>3. /\ T \in Nat /\ pos + T <= Bytes(dev)
      /\ \A j \in 0 .. T - 1 :
           /\ Place(dev, ps, j) \in Base(dev) .. Base(dev) + Bytes(dev) - 1
           /\ ~Ragged(pos, c) => Place(dev, ps, j) = Base(dev) + pos + j
      /\ (IF Result(dev, pos, n, good) > 0 THEN (pos + Result(dev, pos, n, good)) % WORD
          ELSE pos) = pos + T
  BY <1>1, <1>2, RequestIs, Zenon
<1>4. pos' = pos + T
  BY <1>3, Zenon DEF Read, Advance
<1>5. last' = [call |-> "read", pos |-> pos, bytes |-> got, wrote |-> {}, ragged |-> Ragged(pos, c)]
  BY Zenon DEF Read, Logged
<1>6. Base(dev) \in Nat /\ Bytes(dev) \in Nat /\ Base(dev) + Bytes(dev) <= NSECTORS * SECTOR
  BY <1>1, DevSizes, Zenon
<1>7. NSECTORS * SECTOR \in Nat
  BY BlockDevAssumption
<1>8. DOMAIN got = 1 .. T /\ Len(got) = T
  BY <1>3
<1>9. ASSUME ~Ragged(pos, c), NEW j \in 1 .. T PROVE got[j] = Base(dev) + pos + j - 1
  <2>1. j - 1 \in 0 .. T - 1
    BY <1>3
  <2>2. got[j] = disk[Place(dev, ps, j - 1)]
    BY Zenon
  <2> HIDE DEF got, T, ps, c
  <2>3. /\ Place(dev, ps, j - 1) = Base(dev) + pos + (j - 1)
        /\ Place(dev, ps, j - 1) \in Base(dev) .. Base(dev) + Bytes(dev) - 1
    BY <1>3, <1>9, <2>1, Zenon
  <2>4. Place(dev, ps, j - 1) \in Addr
    BY <2>3, <1>6, <1>7 DEF Addr
  <2>5. disk[Place(dev, ps, j - 1)] = Place(dev, ps, j - 1)
    BY <2>4, Zenon DEF DiskOK, BytesAtHome
  <2> QED BY <2>2, <2>3, <2>5, <1>1, <1>3, <1>6, Zenon
<1> HIDE DEF got, T, ps, c
<1>10. /\ last'.call = "read" /\ last'.pos = pos /\ last'.bytes = got /\ last'.wrote = {}
       /\ last'.ragged = Ragged(pos, c)
       /\ DOMAIN last' = {"call", "pos", "bytes", "wrote", "ragged"}
  BY <1>5, Zenon
<1>11. pos' \in 0 .. Bytes(dev) /\ pos' - pos = T
  BY <1>1, <1>3, <1>4, <1>6
<1>12. Base(dev)' = Base(dev) /\ Bytes(dev)' = Bytes(dev) /\ Addr' = Addr
  BY <1>1, Zenon DEF Base, Bytes, Addr
<1>13. BytesAtHome'
  <2>1. \A a \in Addr : disk[a] = a
    BY Zenon DEF DiskOK, BytesAtHome
  <2> QED BY <2>1, <1>1, <1>8, <1>9, <1>10, <1>12, Zenon DEF BytesAtHome
<1>14. DiskOK'
  BY <1>1, <1>10, <1>11, <1>12, <1>13, Zenon DEF DiskOK
<1>15. PositionStep
  BY <1>8, <1>10, <1>11 DEF PositionStep
<1> QED BY <1>14, <1>15, Zenon

\* block_file_write
LEMMA WriteKeeps ==
  ASSUME DevicesFit, DiskOK, ~last.ragged, NEW n \in 0 .. MaxBytes, NEW good \in Goods(n),
         Write(n, good)
  PROVE  DiskOK' /\ PositionStep
<1> DEFINE c == Clipped(dev, pos, n)
           ps == Moved(dev, pos, n, good)
           T == Total(ps)
           Hits(a) == {j \in 0 .. T - 1 : Place(dev, ps, j) = a}
           wrote == {Place(dev, ps, j) : j \in 0 .. T - 1}
<1>1. dev \in Dev /\ pos \in 0 .. Bytes(dev) /\ dev' = dev
  BY Zenon DEF DiskOK, Write
<1>2. good \in 0 .. Len(Pieces(pos, c))
  BY DEF Goods
<1>3. /\ T \in Nat /\ pos + T <= Bytes(dev)
      /\ \A j \in 0 .. T - 1 :
           /\ Place(dev, ps, j) \in Base(dev) .. Base(dev) + Bytes(dev) - 1
           /\ ~Ragged(pos, c) => Place(dev, ps, j) = Base(dev) + pos + j
      /\ (IF Result(dev, pos, n, good) > 0 THEN (pos + Result(dev, pos, n, good)) % WORD
          ELSE pos) = pos + T
  BY <1>1, <1>2, RequestIs, Zenon
<1>4. pos' = pos + T
  BY <1>3, Zenon DEF Write, Advance
<1>5. last' = [call |-> "write", pos |-> pos, bytes |-> <<>>, wrote |-> wrote, ragged |-> Ragged(pos, c)]
  BY Zenon DEF Write, Logged
<1>6. disk' = [a \in Addr |-> IF a \in wrote THEN Base(dev) + pos + Max(Hits(a)) ELSE disk[a]]
  BY Zenon DEF Write
<1>7. Base(dev) \in Nat /\ Bytes(dev) \in Nat
  BY <1>1, DevSizes, Zenon
<1> HIDE DEF ps, c, T
<1>8. wrote \subseteq Base(dev) .. Base(dev) + Bytes(dev) - 1
  BY <1>3, Zenon
<1>9. ASSUME ~Ragged(pos, c), NEW a \in wrote PROVE Base(dev) + pos + Max(Hits(a)) = a
  <2>1. PICK j \in 0 .. T - 1 : a = Place(dev, ps, j)
    BY Zenon
  <2>2. \A i \in 0 .. T - 1 : Place(dev, ps, i) = Base(dev) + pos + i
    BY <1>3, <1>9, Zenon
  <2>3. a = Base(dev) + pos + j
    BY <2>1, <2>2, Zenon
  <2>4. Hits(a) = {j}
    BY <2>2, <2>3, <1>1, <1>3, <1>7
  <2>5. Max(Hits(a)) = j
    <3>1. j >= j
      BY <1>3
    <3> QED BY <2>4, <3>1, Zenon DEF Max
  <2> QED BY <2>3, <2>5, Zenon
<1>10. ASSUME ~Ragged(pos, c) PROVE Cardinality(wrote) = T
  <2> DEFINE lo == Base(dev) + pos
  <2>1. lo \in Nat
    BY <1>1, <1>7
  <2>2. wrote = {lo + j : j \in 0 .. T - 1}
    BY <1>3, <1>10, Zenon
  <2> HIDE DEF lo
  <2>3. {lo + j : j \in 0 .. T - 1} = lo .. lo + T - 1
    <3>1. ASSUME NEW x \in lo .. lo + T - 1 PROVE x \in {lo + j : j \in 0 .. T - 1}
      <4>1. x - lo \in 0 .. T - 1 /\ lo + (x - lo) = x
        BY <2>1, <1>3
      <4> QED BY <4>1, Zenon
    <3>2. \A j \in 0 .. T - 1 : lo + j \in lo .. lo + T - 1
      BY <2>1, <1>3
    <3> QED BY <3>1, <3>2, Zenon
  <2>4. lo \in Int /\ lo + T - 1 \in Int /\ (lo > lo + T - 1 <=> T = 0)
    BY <2>1, <1>3
  <2>5. Cardinality(lo .. lo + T - 1) = IF lo > lo + T - 1 THEN 0 ELSE (lo + T - 1) - lo + 1
    BY <2>4, FS_Interval, Zenon
  <2>6. (IF lo > lo + T - 1 THEN 0 ELSE (lo + T - 1) - lo + 1) = T
    BY <2>1, <2>4, <1>3
  <2> QED BY <2>2, <2>3, <2>5, <2>6, Zenon
<1> HIDE DEF wrote, Hits
<1>11. /\ last'.call = "write" /\ last'.bytes = <<>> /\ last'.wrote = wrote
       /\ last'.ragged = Ragged(pos, c)
       /\ DOMAIN last' = {"call", "pos", "bytes", "wrote", "ragged"}
  BY <1>5, Zenon
<1>12. pos' \in 0 .. Bytes(dev) /\ pos' - pos = T
  BY <1>1, <1>3, <1>4, <1>7
<1>13. Base(dev)' = Base(dev) /\ Bytes(dev)' = Bytes(dev) /\ Addr' = Addr
  BY <1>1, Zenon DEF Base, Bytes, Addr
<1>14. ASSUME ~Ragged(pos, c), NEW a \in Addr PROVE disk'[a] = a
  <2>1. disk[a] = a
    BY Zenon DEF DiskOK, BytesAtHome
  <2>2. a \in wrote => Base(dev) + pos + Max(Hits(a)) = a
    BY <1>9, <1>14, Zenon
  <2> QED BY <2>1, <2>2, <1>6, Zenon
<1>15. BytesAtHome'
  <2>1. DOMAIN <<>> = {}
    OBVIOUS
  <2> QED BY <2>1, <1>1, <1>8, <1>11, <1>13, <1>14, Zenon DEF BytesAtHome
<1>16. DiskOK'
  BY <1>1, <1>11, <1>12, <1>13, <1>15, Zenon DEF DiskOK
<1>17. PositionStep
  BY <1>10, <1>11, <1>12 DEF PositionStep
<1> QED BY <1>16, <1>17

\* sys_lseek
LEMMA LseekKeeps ==
  ASSUME DevicesFit, DiskOK, ~last.ragged, NEW to \in 0 .. Bytes(dev), Lseek(to)
  PROVE  DiskOK' /\ PositionStep
<1>1. /\ last'.call = "lseek" /\ last'.wrote = {} /\ last'.bytes = <<>>
      /\ DOMAIN last' = DOMAIN last
  BY Zenon DEF Lseek, DiskOK
<1>2. dev' = dev /\ disk' = disk /\ pos' = to
  BY Zenon DEF Lseek
<1>3. Base(dev)' = Base(dev) /\ Bytes(dev)' = Bytes(dev) /\ Addr' = Addr
  BY <1>2, Zenon DEF Base, Bytes, Addr
<1>4. BytesAtHome'
  <2>1. DOMAIN <<>> = {} /\ \A a \in Addr : disk[a] = a
    BY DEF DiskOK, BytesAtHome
  <2> QED BY <2>1, <1>1, <1>2, <1>3, Zenon DEF BytesAtHome
<1>5. DiskOK'
  BY <1>1, <1>2, <1>3, <1>4, Zenon DEF DiskOK
<1> QED BY <1>1, <1>5, Zenon DEF PositionStep

\* Any step.
LEMMA DiskStep ==
  ASSUME DevicesFit, DiskOK, [Next]_vars
  PROVE  DiskOK' /\ (vars' # vars => PositionStep)
<1>1. CASE UNCHANGED vars
  <2>1. dev' = dev /\ pos' = pos /\ last' = last /\ disk' = disk
    BY <1>1, Zenon DEF vars
  <2>2. DiskOK'
    BY <2>1, Zenon DEF DiskOK, BytesAtHome, Base, Bytes, Addr
  <2> QED BY <2>2, <1>1, Zenon
<1>2. ASSUME NEW n \in 0 .. MaxBytes, NEW good \in Goods(n), Read(n, good), ~last.ragged
      PROVE  DiskOK' /\ PositionStep
  BY <1>2, ReadKeeps, Zenon
<1>3. ASSUME NEW n \in 0 .. MaxBytes, NEW good \in Goods(n), Write(n, good), ~last.ragged
      PROVE  DiskOK' /\ PositionStep
  BY <1>3, WriteKeeps, Zenon
<1>4. ASSUME NEW to \in 0 .. Bytes(dev), Lseek(to), ~last.ragged
      PROVE  DiskOK' /\ PositionStep
  BY <1>4, LseekKeeps, Zenon
<1> QED BY <1>1, <1>2, <1>3, <1>4, Zenon DEF Next

\* It starts so.
LEMMA DiskStarts ==
  ASSUME DevicesFit, Init
  PROVE  DiskOK
<1>1. /\ dev \in Dev /\ pos = 0 /\ disk = [a \in Addr |-> a]
      /\ last.wrote = {} /\ last.bytes = <<>> /\ ~last.ragged
      /\ DOMAIN last = {"call", "pos", "bytes", "wrote", "ragged"}
  BY Zenon DEF Init
<1>2. Bytes(dev) \in Nat
  BY <1>1, DevSizes, Zenon
<1>3. DOMAIN <<>> = {}
  OBVIOUS
<1> QED BY <1>1, <1>2, <1>3 DEF DiskOK, BytesAtHome

\* On disks of less than 4 GiB whose partitions lie within them, whatever
\* requests programs make and whichever transfers fail: every byte is at
\* home, and no request leaves its partition.
THEOREM BytesStayHome == Spec => []BytesAtHome
<1>1. Init => DiskOK
  BY FitAssumption, DiskStarts, Zenon
<1>2. DiskOK /\ [Next]_vars => DiskOK'
  BY FitAssumption, DiskStep, Zenon
<1>3. DiskOK => BytesAtHome
  BY Zenon DEF DiskOK
<1> QED BY <1>1, <1>2, <1>3, PTL DEF Spec

\* The position moves by what was read or written, and never past the end.
THEOREM PositionsFollow == Spec => PositionFollows
<1>1. Init => DiskOK
  BY FitAssumption, DiskStarts
<1>2. DiskOK /\ [Next]_vars => DiskOK'
  BY FitAssumption, DiskStep
<1>3. DiskOK /\ [Next]_vars =>
        [last'.call # "lseek" /\ pos' # pos =>
           /\ pos' <= Bytes(dev)
           /\ last'.call = "read" => pos' - pos = Len(last'.bytes)
           /\ last'.call = "write" /\ ~last'.ragged => pos' - pos = Cardinality(last'.wrote)]_vars
  BY FitAssumption, DiskStep, Zenon DEF PositionStep
<1> QED BY <1>1, <1>2, <1>3, PTL DEF Spec, PositionFollows

-----------------------------------------------------------------------------
(* The keyboard.                                                            *)

KeySet == (UNION Boards) \cup {"c"}
Chars == [key : KeySet, upper : BOOLEAN]
Scancodes == [key : KeySet, up : BOOLEAN]
Driver ==
  [buffer : [Keys!Pos -> Chars], head : Keys!Pos, tail : Keys!Pos,
   shift : BOOLEAN, caps : BOOLEAN, held : SUBSET KeySet,
   queue : Seq(Scancodes), last : Scancodes, irq : BOOLEAN,
   got : Seq(Chars), sent : Nat, full : BOOLEAN]

\* A number before twice the size of the ring, taken around it.
Wrap(x) == IF x < KBD_BUFFER_SIZE THEN x ELSE x - KBD_BUFFER_SIZE

\* The characters that the driver made of the keys: those read, then the ring.
Out(d) == d.got \o Keys!Ring(d)

\* How many characters the ring has.
Ahead(h, t) == IF h >= t THEN h - t ELSE h - t + KBD_BUFFER_SIZE
Count(d) == Ahead(d.head, d.tail)

\* Remainders by the size of the ring.
LEMMA Around ==
  ASSUME NEW x \in -KBD_BUFFER_SIZE .. 2 * KBD_BUFFER_SIZE - 1
  PROVE  x % KBD_BUFFER_SIZE = IF x < 0 THEN x + KBD_BUFFER_SIZE ELSE Wrap(x)
BY KeyboardAssumption DEF Wrap

\* The ring of a driver as a sequence.
LEMMA RingIs ==
  ASSUME NEW d \in Driver
  PROVE  /\ Count(d) \in 0 .. KBD_BUFFER_SIZE - 1
         /\ Keys!Ring(d) \in Seq(Chars) /\ Len(Keys!Ring(d)) = Count(d)
         /\ \A i \in 1 .. Count(d) : Keys!Ring(d)[i] = d.buffer[Wrap(d.tail + i - 1)]
         /\ \A i \in 1 .. KBD_BUFFER_SIZE : Wrap(d.tail + i - 1) \in Keys!Pos
<1> DEFINE N == KBD_BUFFER_SIZE
<1>1. N \in Nat \ {0}
  BY KeyboardAssumption, Zenon
<1>2. d.head \in 0 .. N - 1 /\ d.tail \in 0 .. N - 1 /\ d.buffer \in [Keys!Pos -> Chars]
  BY Zenon DEF Driver, Keys!Pos
<1>3. Count(d) \in 0 .. N - 1
  BY <1>1, <1>2 DEF Count, Ahead
<1>4. (d.head - d.tail) % N = Count(d)
  <2>1. d.head - d.tail \in -N .. 2 * N - 1
    BY <1>1, <1>2
  <2>2. (d.head - d.tail) % N = IF d.head - d.tail < 0 THEN d.head - d.tail + N
                                ELSE Wrap(d.head - d.tail)
    BY <2>1, Around, Zenon
  <2> QED BY <2>2, <1>1, <1>2 DEF Count, Ahead, Wrap
<1>5. ASSUME NEW i \in 1 .. N
      PROVE  (d.tail + i - 1) % N = Wrap(d.tail + i - 1) /\ Wrap(d.tail + i - 1) \in 0 .. N - 1
  <2>1. d.tail + i - 1 \in -N .. 2 * N - 1 /\ ~(d.tail + i - 1 < 0)
    BY <1>1, <1>2
  <2>2. (d.tail + i - 1) % N = Wrap(d.tail + i - 1)
    BY <2>1, Around, Zenon
  <2>3. Wrap(d.tail + i - 1) \in 0 .. N - 1
    BY <2>1, <1>1, <1>2 DEF Wrap
  <2> QED BY <2>2, <2>3, Zenon
<1>6. Keys!Ring(d) = [i \in 1 .. Count(d) |-> d.buffer[(d.tail + i - 1) % N]]
  BY <1>4, Zenon DEF Keys!Ring
<1>7. \A i \in 1 .. Count(d) : i \in 1 .. N
  BY <1>1, <1>3
<1>8. Keys!Pos = 0 .. N - 1
  BY Zenon DEF Keys!Pos
<1> DEFINE r == [i \in 1 .. Count(d) |-> d.buffer[(d.tail + i - 1) % N]]
<1>9. \A i \in 1 .. Count(d) : r[i] = d.buffer[Wrap(d.tail + i - 1)] /\ r[i] \in Chars
  BY <1>2, <1>5, <1>7, <1>8, Zenon
<1>10. r \in Seq(Chars) /\ Len(r) = Count(d)
  BY <1>3, <1>9
<1> QED BY <1>3, <1>5, <1>6, <1>8, <1>9, <1>10, Zenon

\* Sequences that agree in every place are the same.
LEMMA SameSeq ==
  ASSUME NEW S, NEW s \in Seq(S), NEW t \in Seq(S), Len(s) = Len(t),
         \A i \in 1 .. Len(s) : s[i] = t[i]
  PROVE  s = t
OBVIOUS

\* What is out: the characters read, then those in the ring.
LEMMA OutIs ==
  ASSUME NEW d \in Driver
  PROVE  /\ Out(d) \in Seq(Chars) /\ Len(d.got) \in Nat
         /\ Len(Out(d)) = Len(d.got) + Count(d)
         /\ \A i \in 1 .. Len(d.got) : Out(d)[i] = d.got[i]
         /\ \A i \in 1 .. Count(d) : Out(d)[Len(d.got) + i] = d.buffer[Wrap(d.tail + i - 1)]
<1>1. d.got \in Seq(Chars) /\ Keys!Ring(d) \in Seq(Chars) /\ Len(Keys!Ring(d)) = Count(d)
  BY RingIs, Zenon DEF Driver
<1>2. \A i \in 1 .. Count(d) : Keys!Ring(d)[i] = d.buffer[Wrap(d.tail + i - 1)]
  BY RingIs, Zenon
<1>3. Count(d) \in Nat /\ Len(d.got) \in Nat
  BY <1>1, RingIs
<1>4. Out(d) \in Seq(Chars) /\ Len(Out(d)) = Len(d.got) + Count(d)
  BY <1>1, <1>3, SMTT(30) DEF Out
<1>5. \A i \in 1 .. Len(d.got) : Out(d)[i] = d.got[i]
  BY <1>1, <1>3 DEF Out
<1>6. ASSUME NEW i \in 1 .. Count(d) PROVE Out(d)[Len(d.got) + i] = Keys!Ring(d)[i]
  BY <1>1, <1>3 DEF Out
<1> QED BY <1>2, <1>3, <1>4, <1>5, <1>6, Zenon

\* Only the ring and the characters read matter to it.
LEMMA OutSame ==
  ASSUME NEW d, NEW e, e.buffer = d.buffer, e.head = d.head, e.tail = d.tail, e.got = d.got
  PROVE  Out(e) = Out(d)
BY Zenon DEF Out, Keys!Ring

\* Moving the head, or the tail, one place on.
LEMMA HeadOn ==
  ASSUME NEW h \in 0 .. KBD_BUFFER_SIZE - 1, NEW t \in 0 .. KBD_BUFFER_SIZE - 1,
         Wrap(h + 1) # t
  PROVE  /\ Ahead(Wrap(h + 1), t) = Ahead(h, t) + 1 /\ Ahead(h, t) \in Nat
         /\ Wrap(t + Ahead(h, t)) = h
         /\ \A i \in 1 .. Ahead(h, t) :
              Wrap(t + i - 1) \in 0 .. KBD_BUFFER_SIZE - 1 /\ Wrap(t + i - 1) # h
BY KeyboardAssumption DEF Ahead, Wrap

LEMMA TailOn ==
  ASSUME NEW h \in 0 .. KBD_BUFFER_SIZE - 1, NEW t \in 0 .. KBD_BUFFER_SIZE - 1, h # t
  PROVE  /\ Ahead(h, t) = Ahead(h, Wrap(t + 1)) + 1 /\ Ahead(h, Wrap(t + 1)) \in Nat
         /\ Wrap(t + 1 - 1) = t
         /\ \A i \in 1 .. Ahead(h, Wrap(t + 1)) : Wrap(Wrap(t + 1) + i - 1) = Wrap(t + (i + 1) - 1)
BY KeyboardAssumption DEF Ahead, Wrap

\* kbd_push puts a character behind the others, unless the ring is full.
LEMMA PushOut ==
  ASSUME NEW d \in Driver, NEW c \in Chars
  PROVE  /\ Keys!Push(d, c) \in Driver
         /\ \/ Out(Keys!Push(d, c)) = Out(d) /\ Keys!Push(d, c).full
            \/ Out(Keys!Push(d, c)) = Append(Out(d), c) /\ Keys!Push(d, c).full = d.full
<1> DEFINE N == KBD_BUFFER_SIZE
           e == Keys!Push(d, c)
<1>1. N \in Nat \ {0} /\ Keys!Pos = 0 .. N - 1
  BY KeyboardAssumption, Zenon DEF Keys!Pos
<1>2. d.head \in 0 .. N - 1 /\ d.tail \in 0 .. N - 1 /\ d.buffer \in [Keys!Pos -> Chars]
  BY <1>1, Zenon DEF Driver
<1>3. Keys!After(d.head) = Wrap(d.head + 1)
  <2>1. d.head + 1 \in -N .. 2 * N - 1 /\ ~(d.head + 1 < 0)
    BY <1>1, <1>2
  <2> QED BY <2>1, Around, Zenon DEF Keys!After
<1>4. Wrap(d.head + 1) \in 0 .. N - 1
  BY <1>1, <1>2 DEF Wrap
<1>5. CASE Keys!After(d.head) = d.tail
  <2>1. e = [d EXCEPT !.full = TRUE]
    BY <1>5, Zenon DEF Keys!Push
  <2>2. e \in Driver /\ e.full
    BY <2>1, Zenon DEF Driver
  <2>3. Out(e) = Out(d)
    <3>1. e.buffer = d.buffer /\ e.head = d.head /\ e.tail = d.tail /\ e.got = d.got
      BY <2>1, Zenon DEF Driver
    <3> HIDE DEF e
    <3> QED BY <3>1, OutSame, Zenon
  <2> QED BY <2>2, <2>3, Zenon
<1>6. CASE Keys!After(d.head) # d.tail
  <2>1. e = [d EXCEPT !.buffer[d.head] = c, !.head = Keys!After(d.head)]
    BY <1>6, Zenon DEF Keys!Push
  <2>2. e \in Driver
    <3>1. Keys!After(d.head) \in Keys!Pos
      BY <1>1, <1>3, <1>4, Zenon
    <3>2. [d.buffer EXCEPT ![d.head] = c] \in [Keys!Pos -> Chars]
      BY <1>2, Zenon
    <3>3. e = [d EXCEPT !.buffer = [d.buffer EXCEPT ![d.head] = c], !.head = Keys!After(d.head)]
      BY <2>1, Zenon
    <3> HIDE DEF e
    <3> QED BY <3>1, <3>2, <3>3, Zenon DEF Driver
  <2>3. /\ e.buffer = [d.buffer EXCEPT ![d.head] = c] /\ e.head = Wrap(d.head + 1)
        /\ e.tail = d.tail /\ e.got = d.got /\ e.full = d.full
    BY <2>1, <1>3, Zenon DEF Driver
  <2> HIDE DEF e
  <2>4. Count(e) = Count(d) + 1 /\ Count(d) \in Nat /\ Wrap(d.tail + Count(d)) = d.head
    BY <2>3, <1>2, <1>3, <1>6, HeadOn DEF Count
  <2>5. \A i \in 1 .. Count(d) : Wrap(d.tail + i - 1) \in Keys!Pos /\ Wrap(d.tail + i - 1) # d.head
    BY <1>1, <1>2, <1>3, <1>6, HeadOn, SMTT(30) DEF Count
  <2> DEFINE g == Len(d.got)
  <2>6. /\ Out(d) \in Seq(Chars) /\ g \in Nat /\ Len(Out(d)) = g + Count(d)
        /\ \A i \in 1 .. g : Out(d)[i] = d.got[i]
        /\ \A i \in 1 .. Count(d) : Out(d)[g + i] = d.buffer[Wrap(d.tail + i - 1)]
    BY OutIs, Zenon
  <2>7. /\ Out(e) \in Seq(Chars) /\ Len(Out(e)) = g + Count(d) + 1
        /\ \A i \in 1 .. g : Out(e)[i] = d.got[i]
        /\ \A i \in 1 .. Count(d) + 1 : Out(e)[g + i] = e.buffer[Wrap(d.tail + i - 1)]
    <3>1. /\ Out(e) \in Seq(Chars) /\ Len(e.got) \in Nat
          /\ Len(Out(e)) = Len(e.got) + Count(e)
          /\ \A i \in 1 .. Len(e.got) : Out(e)[i] = e.got[i]
          /\ \A i \in 1 .. Count(e) : Out(e)[Len(e.got) + i] = e.buffer[Wrap(e.tail + i - 1)]
      BY <2>2, OutIs, Zenon
    <3> QED BY <3>1, <2>3, <2>4, <2>6, SMTT(30)
  <2>8. ASSUME NEW i \in 1 .. Count(d) PROVE Out(e)[g + i] = Out(d)[g + i]
    <3>1. i \in 1 .. Count(d) + 1
      BY <2>4
    <3>2. e.buffer[Wrap(d.tail + i - 1)] = d.buffer[Wrap(d.tail + i - 1)]
      BY <2>3, <2>5, <1>2, Zenon
    <3> QED BY <3>1, <3>2, <2>6, <2>7, Zenon
  <2>9. Out(e)[g + Count(d) + 1] = c
    <3>1. Count(d) + 1 \in 1 .. Count(d) + 1 /\ g + (Count(d) + 1) = g + Count(d) + 1
          /\ d.tail + (Count(d) + 1) - 1 = d.tail + Count(d)
      BY <2>4, <2>6, <1>2, SMTT(30)
    <3>2. Out(e)[g + (Count(d) + 1)] = e.buffer[Wrap(d.tail + (Count(d) + 1) - 1)]
      BY <3>1, <2>7, Zenon
    <3>3. e.buffer[d.head] = c
      BY <2>3, <1>1, <1>2
    <3> QED BY <3>1, <3>2, <3>3, <2>4, SMTT(30)
  <2> DEFINE a == Append(Out(d), c)
  <2> HIDE DEF g
  <2>10. /\ a \in Seq(Chars) /\ Len(a) = g + Count(d) + 1 /\ a[g + Count(d) + 1] = c
         /\ \A i \in 1 .. g + Count(d) : a[i] = Out(d)[i]
    <3>1. PICK o : o = Out(d)
      BY Zenon
    <3>2. o \in Seq(Chars) /\ Len(o) = g + Count(d)
      BY <3>1, <2>6, Zenon
    <3>3. /\ Append(o, c) \in Seq(Chars) /\ Len(Append(o, c)) = Len(o) + 1
          /\ Append(o, c)[Len(o) + 1] = c /\ \A i \in 1 .. Len(o) : Append(o, c)[i] = o[i]
      BY <3>2
    <3> QED BY <3>1, <3>2, <3>3, Zenon
  <2> HIDE DEF a
  <2>11. ASSUME NEW i \in 1 .. g + Count(d) + 1 PROVE Out(e)[i] = a[i]
    <3>1. CASE i \in 1 .. g
      <4>1. i \in 1 .. g + Count(d)
        BY <3>1, <2>4, <2>6
      <4> QED BY <4>1, <3>1, <2>6, <2>7, <2>10, Zenon
    <3>2. CASE i \in g + 1 .. g + Count(d)
      <4>1. i - g \in 1 .. Count(d) /\ g + (i - g) = i /\ i \in 1 .. g + Count(d)
        BY <3>2, <2>4, <2>6
      <4> QED BY <4>1, <2>8, <2>10, Zenon
    <3>3. CASE i = g + Count(d) + 1
      BY <3>3, <2>9, <2>10, Zenon
    <3> QED BY <3>1, <3>2, <3>3, <2>4, <2>6
  <2>12. Out(e) = a
    BY <2>7, <2>10, <2>11, SameSeq, Zenon
  <2> QED BY <2>2, <2>3, <2>12, Zenon DEF a, e
<1> QED BY <1>5, <1>6, Zenon

\* kbd_pop moves a character from the ring to those read.
LEMMA PopOut ==
  ASSUME NEW d \in Driver, ~Keys!Empty(d)
  PROVE  Keys!Pop(d) \in Driver /\ Out(Keys!Pop(d)) = Out(d)
<1> DEFINE N == KBD_BUFFER_SIZE
           e == Keys!Pop(d)
<1>1. N \in Nat \ {0} /\ Keys!Pos = 0 .. N - 1
  BY KeyboardAssumption, Zenon DEF Keys!Pos
<1>2. d.head \in 0 .. N - 1 /\ d.tail \in 0 .. N - 1 /\ d.buffer \in [Keys!Pos -> Chars]
      /\ d.got \in Seq(Chars)
  BY <1>1, Zenon DEF Driver
<1>3. d.head # d.tail
  BY Zenon DEF Keys!Empty
<1>4. Keys!After(d.tail) = Wrap(d.tail + 1)
  <2>1. d.tail + 1 \in -N .. 2 * N - 1 /\ ~(d.tail + 1 < 0)
    BY <1>1, <1>2, SMTT(30)
  <2> QED BY <2>1, Around, Zenon DEF Keys!After
<1>5. Wrap(d.tail + 1) \in 0 .. N - 1 /\ d.buffer[d.tail] \in Chars
  BY <1>1, <1>2, SMTT(30) DEF Wrap
<1>6. e \in Driver
  BY <1>1, <1>2, <1>4, <1>5, SMTT(30) DEF Driver, Keys!Pop
<1>7. /\ e.got = Append(d.got, d.buffer[d.tail]) /\ e.tail = Wrap(d.tail + 1)
      /\ e.head = d.head /\ e.buffer = d.buffer
  BY <1>4, Zenon DEF Driver, Keys!Pop
<1> HIDE DEF e
<1>8. Count(d) = Count(e) + 1 /\ Count(e) \in Nat
  BY <1>2, <1>3, <1>7, TailOn DEF Count
<1>9. \A i \in 1 .. Count(e) : Wrap(e.tail + i - 1) = Wrap(d.tail + (i + 1) - 1)
  BY <1>2, <1>3, <1>7, TailOn, SMTT(30) DEF Count
<1>10. Wrap(d.tail + 1 - 1) = d.tail
  BY <1>2, <1>3, TailOn, Zenon
<1> DEFINE g == Len(d.got)
<1>11. /\ Out(d) \in Seq(Chars) /\ g \in Nat /\ Len(Out(d)) = g + Count(d)
       /\ \A i \in 1 .. g : Out(d)[i] = d.got[i]
       /\ \A i \in 1 .. Count(d) : Out(d)[g + i] = d.buffer[Wrap(d.tail + i - 1)]
  BY OutIs, Zenon
<1>12. /\ Len(e.got) = g + 1 /\ e.got[g + 1] = d.buffer[d.tail]
       /\ \A i \in 1 .. g : e.got[i] = d.got[i]
  BY <1>2, <1>5, <1>7
<1>13. /\ Out(e) \in Seq(Chars) /\ Len(Out(e)) = g + 1 + Count(e)
       /\ \A i \in 1 .. g + 1 : Out(e)[i] = e.got[i]
       /\ \A i \in 1 .. Count(e) : Out(e)[g + 1 + i] = d.buffer[Wrap(e.tail + i - 1)]
  BY <1>6, <1>7, <1>12, OutIs, Zenon
<1> HIDE DEF g
<1>14. ASSUME NEW i \in 1 .. g + Count(d) PROVE Out(e)[i] = Out(d)[i]
  <2>1. CASE i \in 1 .. g
    <3>1. i \in 1 .. g + 1
      BY <2>1, <1>11
    <3> QED BY <3>1, <2>1, <1>11, <1>12, <1>13, Zenon
  <2>2. CASE i = g + 1
    <3>1. g + 1 \in 1 .. g + 1 /\ 1 \in 1 .. Count(d)
      BY <1>8, <1>11
    <3>2. Out(d)[g + 1] = d.buffer[Wrap(d.tail + 1 - 1)]
      BY <3>1, <1>11, Zenon
    <3> QED BY <3>1, <3>2, <2>2, <1>10, <1>12, <1>13, Zenon
  <2>3. CASE i \in g + 2 .. g + Count(d)
    <3> DEFINE k == i - g - 1
    <3>1. k \in 1 .. Count(e) /\ k + 1 \in 1 .. Count(d) /\ g + 1 + k = i /\ g + (k + 1) = i
      BY <2>3, <1>8, <1>11
    <3> HIDE DEF k
    <3>2. Out(e)[g + 1 + k] = d.buffer[Wrap(e.tail + k - 1)]
      BY <3>1, <1>13, Zenon
    <3>3. Out(d)[g + (k + 1)] = d.buffer[Wrap(d.tail + (k + 1) - 1)]
      BY <3>1, <1>11, Zenon
    <3>4. Wrap(e.tail + k - 1) = Wrap(d.tail + (k + 1) - 1)
      BY <3>1, <1>9, Zenon
    <3> QED BY <3>1, <3>2, <3>3, <3>4, Zenon
  <2> QED BY <2>1, <2>2, <2>3, <1>8, <1>11
<1>15. Out(e) = Out(d)
  <2>1. Len(Out(e)) = Len(Out(d)) /\ Len(Out(e)) = g + Count(d)
    BY <1>8, <1>11, <1>13
  <2> QED BY <2>1, <1>11, <1>13, <1>14, SameSeq, Zenon
<1> QED BY <1>6, <1>15, Zenon DEF e

-----------------------------------------------------------------------------
(* What the user did and what the driver knows of it.                       *)

Hands == [down : SUBSET KeySet, caps : BOOLEAN, typed : Seq(Chars), ints : Nat, both : BOOLEAN]

\* The hand after it sent the byte b: a key went down, was repeated, or up.
HandPress(h, k) ==
  LET int == k = "c" /\ "ctrl" \in h.down IN
  [down  |-> h.down \cup {k},
   caps  |-> IF k = "caps" THEN ~h.caps ELSE h.caps,
   typed |-> IF int \/ k \in Keys!Modifiers THEN h.typed
             ELSE Append(h.typed, Keys!Char(k, h.caps \/ h.down \cap Keys!Shifts # {})),
   ints  |-> IF int THEN h.ints + 1 ELSE h.ints,
   both  |-> h.both \/ Keys!Shifts \subseteq h.down \cup {k}]
Sent(h, b) ==
  IF b.up THEN [h EXCEPT !.down = @ \ {b.key}]
  ELSE IF b.key \in h.down THEN h ELSE HandPress(h, b.key)

\* The hand h, before it was the hand g.
Before(h, g) ==
  Keys!Begins(h.typed, g.typed) /\ h.ints <= g.ints /\ (h.both => g.both)
ShiftsNoted(h) == Keys!Shifts \subseteq h.down => h.both

\* The driver d has seen all that the hand h did.
Knows(d, h) ==
  /\ d.held = h.down /\ d.caps = h.caps /\ d.sent = h.ints
  /\ Len(Out(d)) <= Len(h.typed)
  /\ ~h.both => d.shift = (h.down \cap Keys!Shifts # {})
  /\ ~d.full /\ ~h.both => Out(d) = h.typed

\* The driver has seen the byte b last: seeing it again changes nothing.
Seen(d, b) ==
  IF b.up THEN b.key \notin d.held /\ (b.key \in Keys!Shifts => ~d.shift)
  ELSE b.key \in d.held

\* Begins is an order, and a sequence begins as it did before an Append.
LEMMA BeginsOrder ==
  ASSUME NEW S, NEW s \in Seq(S), NEW t \in Seq(S), NEW u \in Seq(S)
  PROVE  /\ Keys!Begins(s, s)
         /\ Keys!Begins(s, t) /\ Keys!Begins(t, u) => Keys!Begins(s, u)
         /\ \A x \in S : Keys!Begins(s, Append(s, x)) /\ Append(s, x) \in Seq(S)
                         /\ Len(Append(s, x)) = Len(s) + 1
<1>1. Len(s) \in Nat /\ Len(t) \in Nat /\ Len(u) \in Nat
  OBVIOUS
<1>2. Keys!Begins(s, s)
  BY <1>1 DEF Keys!Begins
<1>3. Keys!Begins(s, t) /\ Keys!Begins(t, u) => Keys!Begins(s, u)
  BY <1>1, SMTT(30) DEF Keys!Begins
<1>4. ASSUME NEW x \in S
      PROVE  Keys!Begins(s, Append(s, x)) /\ Append(s, x) \in Seq(S) /\ Len(Append(s, x)) = Len(s) + 1
  BY <1>1 DEF Keys!Begins
<1> QED BY <1>2, <1>3, <1>4, Zenon

\* The hand after a byte.
LEMMA SentIs ==
  ASSUME NEW h \in Hands, ShiftsNoted(h), NEW b \in Scancodes
  PROVE  Sent(h, b) \in Hands /\ ShiftsNoted(Sent(h, b)) /\ Before(h, Sent(h, b))
<1>1. /\ h.down \in SUBSET KeySet /\ h.caps \in BOOLEAN /\ h.typed \in Seq(Chars) /\ h.ints \in Nat
      /\ h.both \in BOOLEAN /\ b.key \in KeySet
  BY Zenon DEF Hands, Scancodes
<1>2. Before(h, h)
  BY <1>1, BeginsOrder DEF Before
<1>3. CASE b.up
  <2>1. Sent(h, b) = [h EXCEPT !.down = @ \ {b.key}]
    BY <1>3, Zenon DEF Sent
  <2> DEFINE g == Sent(h, b)
  <2>2. g \in Hands
    BY <2>1, Zenon DEF Hands
  <2>3. g.down = h.down \ {b.key} /\ g.typed = h.typed /\ g.ints = h.ints /\ g.both = h.both
    BY <2>1, Zenon DEF Hands
  <2> HIDE DEF g
  <2>4. ShiftsNoted(g)
    BY <2>3, Zenon DEF ShiftsNoted
  <2>5. Before(h, g)
    BY <2>3, <1>2, Zenon DEF Before
  <2> QED BY <2>2, <2>4, <2>5, Zenon DEF g
<1>4. CASE ~b.up /\ b.key \in h.down
  BY <1>2, <1>4, Zenon DEF Sent
<1>5. CASE ~b.up /\ b.key \notin h.down
  <2> DEFINE k == b.key
             up == h.caps \/ h.down \cap Keys!Shifts # {}
             g == HandPress(h, k)
  <2>1. Sent(h, b) = g
    BY <1>5, Zenon DEF Sent
  <2>2. Keys!Char(k, up) \in Chars
    BY <1>1, Zenon DEF Keys!Char, Chars
  <2>3. Append(h.typed, Keys!Char(k, up)) \in Seq(Chars) /\ Keys!Begins(h.typed, Append(h.typed, Keys!Char(k, up)))
    BY <2>2, <1>1, BeginsOrder
  <2>4. Keys!Begins(h.typed, h.typed)
    BY <1>1, BeginsOrder, Zenon
  <2>5. /\ g.down = h.down \cup {k} /\ g.typed \in {h.typed, Append(h.typed, Keys!Char(k, up))}
        /\ g.ints \in {h.ints, h.ints + 1} /\ g.both = (h.both \/ Keys!Shifts \subseteq h.down \cup {k})
    BY Zenon DEF HandPress
  <2>6. g \in Hands
    <3>1. h.down \cup {k} \in SUBSET KeySet
      BY <1>1, Zenon
    <3>3. (IF k = "caps" THEN ~h.caps ELSE h.caps) \in BOOLEAN
      BY <1>1, Zenon
    <3>4. (IF k = "c" /\ "ctrl" \in h.down THEN h.ints + 1 ELSE h.ints) \in Nat
      BY <1>1
    <3>5. (h.both \/ Keys!Shifts \subseteq h.down \cup {k}) \in BOOLEAN
      BY Zenon
    <3>2. (IF (k = "c" /\ "ctrl" \in h.down) \/ k \in Keys!Modifiers THEN h.typed
           ELSE Append(h.typed, Keys!Char(k, up))) \in Seq(Chars)
      BY <1>1, <2>3, Zenon
    <3> QED BY <3>1, <3>2, <3>3, <3>4, <3>5, Zenon DEF HandPress, Hands
  <2> HIDE DEF g
  <2>7. ShiftsNoted(g)
    BY <2>5, Zenon DEF ShiftsNoted
  <2>8. Before(h, g)
    <3>1. Keys!Begins(h.typed, g.typed)
      BY <2>3, <2>4, <2>5, Zenon
    <3>2. h.ints <= g.ints
      BY <2>5, <1>1
    <3>3. h.both => g.both
      BY <2>5, Zenon
    <3> QED BY <3>1, <3>2, <3>3, Zenon DEF Before
  <2> QED BY <2>1, <2>6, <2>7, <2>8, Zenon
<1> QED BY <1>3, <1>4, <1>5, Zenon

\* All but the ring is as it was.
LEMMA PushKeeps ==
  ASSUME NEW d \in Driver, NEW c
  PROVE  LET e == Keys!Push(d, c) IN
         /\ e.held = d.held /\ e.caps = d.caps /\ e.sent = d.sent /\ e.shift = d.shift
         /\ e.queue = d.queue /\ e.last = d.last /\ e.got = d.got
<1>1. CASE Keys!After(d.head) = d.tail
  BY <1>1, Zenon DEF Keys!Push, Driver
<1>2. CASE Keys!After(d.head) # d.tail
  BY <1>2, Zenon DEF Keys!Push, Driver
<1> QED BY <1>1, <1>2, Zenon

\* A driver that knows all the hand did knows all it does with one key more.
LEMMA KnowsPress ==
  ASSUME NEW d \in Driver, NEW h \in Hands, Knows(d, h), NEW k \in KeySet, k \notin h.down
  PROVE  LET e == Keys!Pressed([d EXCEPT !.held = @ \cup {k}], k) IN
         /\ e \in Driver /\ Knows(e, HandPress(h, k)) /\ Keys!Begins(Out(d), Out(e))
         /\ e.held = h.down \cup {k} /\ e.queue = d.queue /\ e.last = d.last /\ e.got = d.got
<1> DEFINE f == [d EXCEPT !.held = @ \cup {k}]
           e == Keys!Pressed(f, k)
           g == HandPress(h, k)
           up == h.caps \/ h.down \cap Keys!Shifts # {}
<1>1. /\ d.held = h.down /\ d.caps = h.caps /\ d.sent = h.ints /\ Len(Out(d)) <= Len(h.typed)
      /\ ~h.both => d.shift = (h.down \cap Keys!Shifts # {})
      /\ ~d.full /\ ~h.both => Out(d) = h.typed
  BY Zenon DEF Knows
<1>2. /\ h.down \in SUBSET KeySet /\ h.caps \in BOOLEAN /\ h.typed \in Seq(Chars) /\ h.ints \in Nat
      /\ h.both \in BOOLEAN
  BY Zenon DEF Hands
<1>3. /\ d.held \in SUBSET KeySet /\ d.caps \in BOOLEAN /\ d.shift \in BOOLEAN /\ d.sent \in Nat
      /\ d.full \in BOOLEAN
  BY Zenon DEF Driver
<1>4. f \in Driver
  BY <1>3, SMTT(30) DEF Driver
<1>5. /\ f.held = h.down \cup {k} /\ f.caps = d.caps /\ f.shift = d.shift /\ f.sent = d.sent
      /\ f.full = d.full /\ f.queue = d.queue /\ f.last = d.last /\ f.got = d.got
      /\ f.buffer = d.buffer /\ f.head = d.head /\ f.tail = d.tail
  BY <1>1, Zenon DEF Driver
<1>6. /\ g.down = h.down \cup {k} /\ g.caps = IF k = "caps" THEN ~h.caps ELSE h.caps
      /\ g.typed = IF (k = "c" /\ "ctrl" \in h.down) \/ k \in Keys!Modifiers THEN h.typed
                   ELSE Append(h.typed, Keys!Char(k, up))
      /\ g.ints = IF k = "c" /\ "ctrl" \in h.down THEN h.ints + 1 ELSE h.ints
      /\ g.both = (h.both \/ Keys!Shifts \subseteq h.down \cup {k})
  BY DEF HandPress
<1> HIDE DEF f, g
<1>7. Out(f) = Out(d) /\ Out(d) \in Seq(Chars) /\ Keys!Begins(Out(d), Out(d))
  BY <1>5, OutSame, OutIs, BeginsOrder, Zenon
<1> DEFINE Rest(x) == /\ x \in Driver /\ x.held = f.held /\ x.queue = f.queue
                      /\ x.last = f.last /\ x.got = f.got
           Goal == Rest(e) /\ Knows(e, g) /\ Keys!Begins(Out(d), Out(e))
<1> SUFFICES Goal
  BY <1>5, SMTT(30) DEF f, g
<1> HIDE DEF Goal
<1>8. CASE k = "ctrl"
  <2>1. e = f /\ g.caps = h.caps /\ g.typed = h.typed /\ g.ints = h.ints
    BY <1>8, <1>6, Zenon DEF Keys!Pressed, Keys!Modifiers, Keys!Shifts
  <2>2. ~g.both => ~h.both /\ (g.down \cap Keys!Shifts # {}) = (h.down \cap Keys!Shifts # {})
    BY <1>6, <1>8, Zenon DEF Keys!Shifts
  <2>3. Knows(f, g)
    BY <2>1, <2>2, <1>1, <1>5, <1>6, <1>7, Zenon DEF Knows
  <2> QED BY <2>1, <2>3, <1>4, <1>5, <1>7, Zenon DEF Goal
<1>9. CASE k \in Keys!Shifts
  <2>1. e = [f EXCEPT !.shift = TRUE] /\ g.caps = h.caps /\ g.typed = h.typed /\ g.ints = h.ints
    BY <1>9, <1>6, Zenon DEF Keys!Pressed, Keys!Modifiers, Keys!Shifts
  <2>2. /\ Rest(e) /\ e.shift = TRUE /\ e.caps = f.caps /\ e.sent = f.sent /\ e.full = f.full
        /\ e.buffer = f.buffer /\ e.head = f.head /\ e.tail = f.tail
    BY <2>1, <1>4, Zenon DEF Driver
  <2> HIDE DEF e
  <2>3. Out(e) = Out(d)
    BY <2>2, <1>7, OutSame
  <2>4. g.down \cap Keys!Shifts # {} /\ (~g.both => ~h.both)
    BY <1>6, <1>9, Zenon
  <2>5. Knows(e, g)
    BY <2>1, <2>2, <2>3, <2>4, <1>1, <1>5, <1>6, ZenonT(40) DEF Knows
  <2> QED BY <2>2, <2>3, <2>5, <1>7, Zenon DEF Goal
<1>10. CASE k = "caps"
  <2>1. e = [f EXCEPT !.caps = ~f.caps] /\ g.caps = ~h.caps /\ g.typed = h.typed /\ g.ints = h.ints
    BY <1>10, <1>6, Zenon DEF Keys!Pressed, Keys!Modifiers, Keys!Shifts
  <2>2. /\ Rest(e) /\ e.shift = f.shift /\ e.caps = ~f.caps /\ e.sent = f.sent /\ e.full = f.full
        /\ e.buffer = f.buffer /\ e.head = f.head /\ e.tail = f.tail
    BY <2>1, <1>4, Zenon DEF Driver
  <2> HIDE DEF e
  <2>3. Out(e) = Out(d)
    BY <2>2, <1>7, OutSame, Zenon
  <2>4. ~g.both => ~h.both /\ (g.down \cap Keys!Shifts # {}) = (h.down \cap Keys!Shifts # {})
    BY <1>6, <1>10, Zenon DEF Keys!Shifts
  <2>5. Knows(e, g)
    BY <2>1, <2>2, <2>3, <2>4, <1>1, <1>5, <1>6, Zenon DEF Knows
  <2> QED BY <2>2, <2>3, <2>5, <1>7, Zenon DEF Goal
<1>11. CASE k = "c" /\ "ctrl" \in h.down
  <2>1. e = [f EXCEPT !.sent = f.sent + 1] /\ g.caps = h.caps /\ g.typed = h.typed /\ g.ints = h.ints + 1
    BY <1>11, <1>5, <1>6, Zenon DEF Keys!Pressed, Keys!Modifiers, Keys!Shifts
  <2>2. /\ Rest(e) /\ e.shift = f.shift /\ e.caps = f.caps /\ e.sent = f.sent + 1 /\ e.full = f.full
        /\ e.buffer = f.buffer /\ e.head = f.head /\ e.tail = f.tail
    <3>1. PICK n : n = f.sent + 1
      BY Zenon
    <3>2. n \in Nat /\ e = [f EXCEPT !.sent = n]
      BY <3>1, <2>1, <1>3, <1>5
    <3> HIDE DEF e
    <3> QED BY <3>1, <3>2, <1>4, Zenon DEF Driver
  <2> HIDE DEF e
  <2>3. Out(e) = Out(d)
    BY <2>2, <1>7, OutSame, Zenon
  <2>4. ~g.both => ~h.both /\ (g.down \cap Keys!Shifts # {}) = (h.down \cap Keys!Shifts # {})
    BY <1>6, <1>11, Zenon DEF Keys!Shifts
  <2>5. Knows(e, g)
    BY <2>1, <2>2, <2>3, <2>4, <1>1, <1>5, <1>6, Zenon DEF Knows
  <2> QED BY <2>2, <2>3, <2>5, <1>7, Zenon DEF Goal
<1>12. CASE k \notin Keys!Modifiers /\ ~(k = "c" /\ "ctrl" \in h.down)
  <2> DEFINE c == Keys!Char(k, f.shift \/ f.caps)
  <2>1. e = Keys!Push(f, c) /\ g.caps = h.caps /\ g.ints = h.ints
        /\ g.typed = Append(h.typed, Keys!Char(k, up))
    BY <1>12, <1>5, <1>6, Zenon DEF Keys!Pressed, Keys!Modifiers, Keys!Shifts
  <2>2. c \in Chars /\ Keys!Char(k, up) \in Chars
    BY Zenon DEF Keys!Char, Chars
  <2>3. ~h.both => c = Keys!Char(k, up)
    BY <1>1, <1>2, <1>3, <1>5, Zenon DEF Keys!Char
  <2> HIDE DEF c, up
  <2>4. /\ e \in Driver
        /\ \/ Out(e) = Out(f) /\ e.full
           \/ Out(e) = Append(Out(f), c) /\ e.full = f.full
    BY <2>1, <2>2, <1>4, PushOut
  <2>5. Rest(e) /\ e.caps = f.caps /\ e.sent = f.sent /\ e.shift = f.shift
    BY <2>1, <2>4, <1>4, PushKeeps
  <2> HIDE DEF e
  <2>6. Len(Append(Out(d), c)) = Len(Out(d)) + 1 /\ Keys!Begins(Out(d), Append(Out(d), c))
        /\ Len(g.typed) = Len(h.typed) + 1
    BY <2>1, <2>2, <1>2, <1>7, BeginsOrder
  <2>7. Keys!Begins(Out(d), Out(e)) /\ Len(Out(e)) <= Len(g.typed)
    <3>1. Len(Out(d)) \in Nat /\ Len(h.typed) \in Nat
      BY <1>2, <1>7
    <3>2. Out(e) = Out(d) \/ Out(e) = Append(Out(d), c)
      BY <2>4, <1>7, Zenon
    <3>3. Keys!Begins(Out(d), Out(e))
      BY <3>2, <2>6, <1>7, Zenon
    <3>4. Len(Out(e)) = Len(Out(d)) \/ Len(Out(e)) = Len(Out(d)) + 1
      BY <3>2, <2>6, Zenon
    <3> QED BY <3>1, <3>3, <3>4, <2>6, <1>1
  <2>8. ~g.both => ~h.both /\ (g.down \cap Keys!Shifts # {}) = (h.down \cap Keys!Shifts # {})
    BY <1>6, <1>12, Zenon DEF Keys!Shifts, Keys!Modifiers
  <2>9. ~e.full /\ ~g.both => Out(e) = g.typed
    BY <2>1, <2>3, <2>4, <2>8, <1>1, <1>5, <1>7, Zenon
  <2>10. Knows(e, g)
    BY <2>1, <2>5, <2>7, <2>8, <2>9, <1>1, <1>5, <1>6, Zenon DEF Knows
  <2> QED BY <2>5, <2>7, <2>10, Zenon DEF Goal
<1> QED BY <1>8, <1>9, <1>10, <1>11, <1>12, Zenon DEF Keys!Modifiers

\* What the driver knows depends on these fields and on what is out.
LEMMA Likewise ==
  ASSUME NEW d, NEW e, NEW h, Out(e) = Out(d), e.held = d.held, e.caps = d.caps,
         e.sent = d.sent, e.shift = d.shift, e.full = d.full
  PROVE  (Knows(d, h) => Knows(e, h)) /\ \A b : Seen(d, b) => Seen(e, b)
BY Zenon DEF Knows, Seen

\* kbd_process_scancode, of the next byte that the hand sent.
LEMMA ProcessKnows ==
  ASSUME NEW d \in Driver, NEW h \in Hands, ShiftsNoted(h), Knows(d, h),
         NEW b \in Scancodes, b.up => b.key \in h.down
  PROVE  LET e == Keys!Process(d, b) IN
         /\ e \in Driver /\ Knows(e, Sent(h, b)) /\ Seen(e, b) /\ Keys!Begins(Out(d), Out(e))
         /\ e.queue = d.queue /\ e.last = d.last /\ e.got = d.got
<1> DEFINE e == Keys!Process(d, b)
           k == b.key
           g == Sent(h, b)
<1>1. /\ d.held = h.down /\ d.caps = h.caps /\ d.sent = h.ints /\ Len(Out(d)) <= Len(h.typed)
      /\ ~h.both => d.shift = (h.down \cap Keys!Shifts # {})
      /\ ~d.full /\ ~h.both => Out(d) = h.typed
  BY Zenon DEF Knows
<1>2. k \in KeySet /\ b.up \in BOOLEAN /\ d.held \in SUBSET KeySet /\ d.shift \in BOOLEAN
  BY Zenon DEF Scancodes, Driver
<1>3. Out(d) \in Seq(Chars) /\ Keys!Begins(Out(d), Out(d))
  BY OutIs, BeginsOrder, Zenon
<1>4. CASE b.up
  <2>1. e = [d EXCEPT !.held = d.held \ {k}, !.shift = d.shift /\ k \notin Keys!Shifts]
    BY <1>4, Zenon DEF Keys!Process, Keys!Released
  <2>2. (d.shift /\ k \notin Keys!Shifts) \in BOOLEAN /\ d.held \ {k} \in SUBSET KeySet
    BY <1>2, Zenon
  <2>3. /\ e \in Driver /\ e.held = d.held \ {k} /\ e.shift = (d.shift /\ k \notin Keys!Shifts)
        /\ e.caps = d.caps /\ e.sent = d.sent /\ e.full = d.full /\ e.queue = d.queue
        /\ e.last = d.last /\ e.got = d.got /\ e.buffer = d.buffer /\ e.head = d.head
        /\ e.tail = d.tail
    BY <2>1, <2>2, Zenon DEF Driver
  <2>4. /\ g.down = h.down \ {k} /\ g.caps = h.caps /\ g.ints = h.ints /\ g.typed = h.typed
        /\ g.both = h.both
    BY <1>4 DEF Sent, Hands
  <2> HIDE DEF e, g
  <2>5. Out(e) = Out(d)
    BY <2>3, OutSame, Zenon
  <2>6. Seen(e, b)
    BY <1>4, <2>3, Zenon DEF Seen
  <2>7. ~h.both => ~(Keys!Shifts \subseteq h.down)
    BY Zenon DEF ShiftsNoted
  <2>8. ~h.both => e.shift = (g.down \cap Keys!Shifts # {})
    <3>1. CASE k \in Keys!Shifts
      <4>1. ~h.both => g.down \cap Keys!Shifts = {}
        BY <3>1, <2>4, <2>7, <1>4, Zenon DEF Keys!Shifts
      <4> QED BY <3>1, <4>1, <2>3, Zenon
    <3>2. CASE k \notin Keys!Shifts
      <4>1. g.down \cap Keys!Shifts = h.down \cap Keys!Shifts
        BY <3>2, <2>4, Zenon
      <4> QED BY <3>2, <4>1, <2>3, <1>1, <1>2, Zenon
    <3> QED BY <3>1, <3>2, Zenon
  <2>9. Knows(e, g)
    BY <2>3, <2>4, <2>5, <2>8, <1>1, Zenon DEF Knows
  <2> QED BY <2>3, <2>5, <2>6, <2>9, <1>3, Zenon DEF e, g
<1>5. CASE ~b.up /\ k \in h.down
  <2>1. e = d /\ g = h
    BY <1>1, <1>5, Zenon DEF Keys!Process, Sent
  <2>2. Seen(d, b)
    BY <1>1, <1>5, Zenon DEF Seen
  <2> QED BY <2>1, <2>2, <1>3, Zenon
<1>6. CASE ~b.up /\ k \notin h.down
  <2>1. e = Keys!Pressed([d EXCEPT !.held = @ \cup {k}], k) /\ g = HandPress(h, k)
    BY <1>1, <1>6, Zenon DEF Keys!Process, Sent
  <2> HIDE DEF e, g, k
  <2>2. /\ e \in Driver /\ Knows(e, g) /\ Keys!Begins(Out(d), Out(e))
        /\ e.held = h.down \cup {k} /\ e.queue = d.queue /\ e.last = d.last /\ e.got = d.got
    BY <2>1, <1>2, <1>6, KnowsPress, Zenon
  <2>3. Seen(e, b)
    BY <2>2, <1>6, Zenon DEF Seen, k
  <2> QED BY <2>2, <2>3, Zenon DEF e, g
<1> QED BY <1>4, <1>5, <1>6

\* A byte that is read twice changes nothing the second time.
LEMMA ProcessAgain ==
  ASSUME NEW d \in Driver, NEW b, Seen(d, b)
  PROVE  Keys!Process(d, b) = d
<1>1. CASE b.up
  <2>1. b.key \notin d.held /\ (b.key \in Keys!Shifts => ~d.shift)
    BY <1>1, Zenon DEF Seen
  <2>2. d.shift \in BOOLEAN
    BY Zenon DEF Driver
  <2>3. d.held \ {b.key} = d.held /\ (d.shift /\ b.key \notin Keys!Shifts) = d.shift
    BY <2>1, <2>2, Zenon
  <2>4. Keys!Process(d, b) = [d EXCEPT !.held = d.held, !.shift = d.shift]
    BY <2>3, <1>1, Zenon DEF Keys!Process, Keys!Released
  <2> QED BY <2>4, Zenon DEF Driver
<1>2. CASE ~b.up
  BY <1>2, Zenon DEF Seen, Keys!Process
<1> QED BY <1>1, <1>2, Zenon

\* The hands between what the driver has seen and the hand g, one for every
\* byte that is still on its way: s[i] after byte i of the queue q.
Chain(q, g, s) ==
  /\ s \in [0 .. Len(q) -> Hands] /\ s[Len(q)] = g
  /\ \A i \in 1 .. Len(q) : s[i] = Sent(s[i - 1], q[i]) /\ (q[i].up => q[i].key \in s[i - 1].down)
  /\ \A i \in 0 .. Len(q) : ShiftsNoted(s[i]) /\ Before(s[i], g)

\* The driver has seen what the hand g did but for the bytes on their way, and
\* the byte it read last in particular.
DriverOK(d, g) ==
  /\ d \in Driver /\ Seen(d, d.last)
  /\ \E s : Chain(d.queue, g, s) /\ Knows(d, s[0])

\* The same for a driver that differs in other fields only.
LEMMA DriverLikewise ==
  ASSUME NEW d, NEW e \in Driver, NEW g, DriverOK(d, g), Out(e) = Out(d), e.held = d.held,
         e.caps = d.caps, e.sent = d.sent, e.shift = d.shift, e.full = d.full,
         e.queue = d.queue, e.last = d.last
  PROVE  DriverOK(e, g)
<1>1. PICK s : Chain(d.queue, g, s) /\ Knows(d, s[0])
  BY Zenon DEF DriverOK
<1>2. Knows(e, s[0]) /\ Seen(e, e.last)
  BY <1>1, Likewise, Zenon DEF DriverOK
<1> QED BY <1>1, <1>2, Zenon DEF DriverOK

\* A byte taken from a queue that has one.
LEMMA TakeNext ==
  ASSUME NEW d, NEW g, DriverOK(d, g), d.queue # <<>>
  PROVE  LET e == Keys!Process(Keys!Taken(d), Keys!Byte(d)) IN
         DriverOK(e, g) /\ Keys!Begins(Out(d), Out(e))
<1> DEFINE q == d.queue
           b == Head(q)
           f == Keys!Taken(d)
           e == Keys!Process(f, b)
           n == Len(q)
<1>1. d \in Driver /\ q \in Seq(Scancodes) /\ q # <<>> /\ d.irq \in BOOLEAN
  BY Zenon DEF DriverOK, Driver
<1>2. Keys!Byte(d) = b
  BY <1>1, Zenon DEF Keys!Byte
<1>3. /\ b \in Scancodes /\ b = q[1] /\ Tail(q) \in Seq(Scancodes) /\ n \in Nat \ {0}
      /\ Len(Tail(q)) = n - 1 /\ \A i \in 1 .. n - 1 : Tail(q)[i] = q[i + 1]
  BY <1>1
<1> HIDE DEF q, b, n
<1>4. f = [d EXCEPT !.queue = Tail(q), !.last = b, !.irq = @ \/ Tail(q) # <<>>]
  BY <1>1, <1>2, Zenon DEF Keys!Taken, q
<1>5. (d.irq \/ Tail(q) # <<>>) \in BOOLEAN
  BY Zenon
<1>6. /\ f \in Driver /\ f.queue = Tail(q) /\ f.last = b /\ f.held = d.held /\ f.caps = d.caps
      /\ f.sent = d.sent /\ f.shift = d.shift /\ f.full = d.full /\ f.got = d.got
      /\ f.buffer = d.buffer /\ f.head = d.head /\ f.tail = d.tail
  BY <1>1, <1>3, <1>4, <1>5 DEF Driver
<1>7. PICK s : Chain(q, g, s) /\ Knows(d, s[0])
  BY Zenon DEF DriverOK, q
<1>8. /\ s \in [0 .. n -> Hands] /\ s[n] = g
      /\ \A i \in 1 .. n : s[i] = Sent(s[i - 1], q[i]) /\ (q[i].up => q[i].key \in s[i - 1].down)
      /\ \A i \in 0 .. n : ShiftsNoted(s[i]) /\ Before(s[i], g)
  BY <1>7, Zenon DEF Chain, n
<1>9. /\ s[0] \in Hands /\ ShiftsNoted(s[0]) /\ s[1] = Sent(s[0], b) /\ (b.up => b.key \in s[0].down)
  <2>1. 0 \in 0 .. n /\ 1 \in 1 .. n /\ 1 - 1 = 0
    BY <1>3
  <2> QED BY <2>1, <1>3, <1>8, Zenon
<1> HIDE DEF f
<1>10. Out(f) = Out(d)
  BY <1>6, OutSame
<1>11. Knows(f, s[0])
  BY <1>6, <1>7, <1>10, Likewise, Zenon
<1>12. /\ e \in Driver /\ Knows(e, s[1]) /\ Seen(e, b) /\ Keys!Begins(Out(d), Out(e))
       /\ e.queue = f.queue /\ e.last = f.last
  BY <1>3, <1>6, <1>9, <1>10, <1>11, ProcessKnows
<1> HIDE DEF e
<1> DEFINE t == [i \in 0 .. n - 1 |-> s[i + 1]]
<1>13. Chain(Tail(q), g, t) /\ t[0] = s[1]
  <2>1. t \in [0 .. n - 1 -> Hands] /\ t[n - 1] = g /\ t[0] = s[1]
    BY <1>3, <1>8
  <2>2. ASSUME NEW i \in 1 .. n - 1
        PROVE  /\ t[i] = Sent(t[i - 1], Tail(q)[i])
               /\ Tail(q)[i].up => Tail(q)[i].key \in t[i - 1].down
    <3>1. i + 1 \in 1 .. n /\ (i + 1) - 1 = i /\ t[i] = s[i + 1] /\ t[i - 1] = s[i]
      BY <1>3
    <3>2. s[i + 1] = Sent(s[i], q[i + 1]) /\ (q[i + 1].up => q[i + 1].key \in s[i].down)
      BY <3>1, <1>8, Zenon
    <3> HIDE DEF t
    <3> QED BY <3>1, <3>2, <1>3, Zenon
  <2>3. ASSUME NEW i \in 0 .. n - 1 PROVE ShiftsNoted(t[i]) /\ Before(t[i], g)
    <3>1. i + 1 \in 0 .. n /\ t[i] = s[i + 1]
      BY <1>3
    <3> HIDE DEF t
    <3> QED BY <3>1, <1>8, Zenon
  <2> HIDE DEF t
  <2> QED BY <2>1, <2>2, <2>3, <1>3, Zenon DEF Chain
<1>14. DriverOK(e, g)
  BY <1>6, <1>12, <1>13, Zenon DEF DriverOK
<1> QED BY <1>2, <1>12, <1>14, Zenon DEF e, f

\* A byte read when there is none: the last one again.
LEMMA TakeAgain ==
  ASSUME NEW d, NEW g, DriverOK(d, g), d.queue = <<>>
  PROVE  LET e == Keys!Process(Keys!Taken(d), Keys!Byte(d)) IN
         DriverOK(e, g) /\ Keys!Begins(Out(d), Out(e))
<1> DEFINE f == Keys!Taken(d)
<1>1. d \in Driver /\ Seen(d, d.last) /\ Keys!Byte(d) = d.last /\ d.irq \in BOOLEAN
  BY Zenon DEF DriverOK, Keys!Byte, Driver
<1>2. f = d
  BY <1>1, Zenon DEF Keys!Taken, Driver
<1>3. Keys!Process(f, Keys!Byte(d)) = d
  BY <1>1, <1>2, ProcessAgain, Zenon
<1>4. Keys!Begins(Out(d), Out(d))
  BY <1>1, OutIs, BeginsOrder, Zenon
<1> QED BY <1>3, <1>4, Zenon

\* A byte is taken, with the interrupt line in any state.
LEMMA TakeOK ==
  ASSUME NEW d, NEW g, DriverOK(d, g)
  PROVE  /\ LET e == Keys!Process(Keys!Taken(d), Keys!Byte(d)) IN
            DriverOK(e, g) /\ Keys!Begins(Out(d), Out(e))
         /\ LET e == Keys!Process(Keys!Taken([d EXCEPT !.irq = FALSE]), Keys!Byte(d)) IN
            DriverOK(e, g) /\ Keys!Begins(Out(d), Out(e))
<1>1. ASSUME NEW x, DriverOK(x, g)
      PROVE  LET e == Keys!Process(Keys!Taken(x), Keys!Byte(x)) IN
             DriverOK(e, g) /\ Keys!Begins(Out(x), Out(e))
  BY <1>1, TakeNext, TakeAgain, Zenon
<1> DEFINE f == [d EXCEPT !.irq = FALSE]
<1>2. d \in Driver
  BY Zenon DEF DriverOK
<1>3. /\ f \in Driver /\ f.queue = d.queue /\ f.last = d.last /\ f.held = d.held
      /\ f.caps = d.caps /\ f.sent = d.sent /\ f.shift = d.shift /\ f.full = d.full
      /\ f.got = d.got /\ f.buffer = d.buffer /\ f.head = d.head /\ f.tail = d.tail
  BY <1>2, Zenon DEF Driver
<1> HIDE DEF f
<1>4. Out(f) = Out(d)
  BY <1>3, OutSame, Zenon
<1>5. DriverOK(f, g)
  BY <1>3, <1>4, DriverLikewise, Zenon
<1>6. Keys!Byte(f) = Keys!Byte(d)
  BY <1>3, Zenon DEF Keys!Byte
<1> QED BY <1>1, <1>4, <1>5, <1>6, Zenon DEF f

\* kbd_pop.
LEMMA PopOK ==
  ASSUME NEW d, NEW g, DriverOK(d, g), ~Keys!Empty(d)
  PROVE  DriverOK(Keys!Pop(d), g) /\ Out(Keys!Pop(d)) = Out(d)
<1> DEFINE e == Keys!Pop(d)
<1>1. d \in Driver
  BY Zenon DEF DriverOK
<1>2. e \in Driver /\ Out(e) = Out(d)
  BY <1>1, PopOut, Zenon
<1>3. /\ e.queue = d.queue /\ e.last = d.last /\ e.held = d.held
      /\ e.caps = d.caps /\ e.sent = d.sent /\ e.shift = d.shift /\ e.full = d.full
  BY <1>1, Zenon DEF Keys!Pop, Driver
<1> HIDE DEF e
<1>4. DriverOK(e, g)
  BY <1>2, <1>3, DriverLikewise, Zenon
<1> QED BY <1>2, <1>4, Zenon DEF e

\* The drivers that may be inside kbd_read, which found the characters o.
Reading(g, o) ==
  {r \in [d : Driver, more : BOOLEAN] : DriverOK(r.d, g) /\ Keys!Begins(o, Out(r.d))}

\* One turn of kbd_read.
LEMMA TurnOK ==
  ASSUME NEW g, NEW o \in Seq(Chars), NEW r \in Reading(g, o)
  PROVE  Keys!Turn(r) \in Reading(g, o)
<1> DEFINE take == Keys!Process(Keys!Taken(r.d), Keys!Byte(r.d))
           e == IF ~Keys!Empty(r.d) \/ r.d.queue = <<>> THEN r.d ELSE take
<1>1. DriverOK(r.d, g) /\ Keys!Begins(o, Out(r.d)) /\ r.d \in Driver
  BY Zenon DEF Reading
<1>2. Keys!Turn(r) = IF ~r.more THEN r
                     ELSE IF Keys!Empty(e) THEN [d |-> e, more |-> FALSE]
                     ELSE [d |-> Keys!Pop(e), more |-> TRUE]
  BY Zenon DEF Keys!Turn
<1>3. DriverOK(take, g) /\ Keys!Begins(Out(r.d), Out(take)) /\ take \in Driver
  <2>1. DriverOK(take, g) /\ Keys!Begins(Out(r.d), Out(take))
    BY <1>1, TakeOK, Zenon
  <2> QED BY <2>1, Zenon DEF DriverOK
<1>4. Out(take) \in Seq(Chars) /\ Out(r.d) \in Seq(Chars)
  BY <1>1, <1>3, OutIs
<1>5. Keys!Begins(o, Out(take))
  BY <1>1, <1>3, <1>4, BeginsOrder
<1>6. DriverOK(e, g) /\ Keys!Begins(o, Out(e)) /\ e \in Driver
  BY <1>1, <1>3, <1>5, Zenon
<1> HIDE DEF e
<1>7. CASE ~r.more
  BY <1>2, <1>7, Zenon
<1>8. CASE r.more /\ Keys!Empty(e)
  BY <1>2, <1>6, <1>8 DEF Reading
<1>9. CASE r.more /\ ~Keys!Empty(e)
  <2>1. DriverOK(Keys!Pop(e), g) /\ Keys!Begins(o, Out(Keys!Pop(e)))
    BY <1>6, <1>9, PopOK, Zenon
  <2>2. Keys!Pop(e) \in Driver
    BY <2>1, Zenon DEF DriverOK
  <2> QED BY <2>1, <2>2, <1>2, <1>9 DEF Reading
<1> QED BY <1>7, <1>8, <1>9, Zenon

\* The loop of kbd_read.
LEMMA ReadLoop ==
  ASSUME NEW a, NEW n \in Nat, NEW K, [d |-> a, more |-> TRUE] \in K,
         \A x \in K : Keys!Turn(x) \in K
  PROVE  LET after[i \in 0 .. n] == IF i = 0 THEN [d |-> a, more |-> TRUE]
                                    ELSE Keys!Turn(after[i - 1])
         IN after[n] \in K
<1> DEFINE s == [d |-> a, more |-> TRUE]
           J == [k \in 0 .. n |-> K]
           Eq(f) == f = [i \in 0 .. n |-> IF i = 0 THEN s ELSE Keys!Turn(f[i - 1])]
           g == [k \in 1 .. n |-> [x \in K |-> Keys!Turn(x)]]
           h == CHOOSE f : Eq(f)
<1>1. \A k \in 1 .. n : \A x \in K : g[k][x] = Keys!Turn(x) /\ Keys!Turn(x) \in K
  BY Zenon
<1>2. \A k \in 0 .. n : J[k] = K
  BY Zenon
<1> HIDE DEF g, J
<1>3. PICK f : IsLoop(f, n, s, g) /\ \A k \in 0 .. n : f[k] \in J[k]
  <2>1. Keeps(J, n, g) /\ s \in J[0]
    BY <1>1, <1>2 DEF Keeps
  <2> HIDE DEF s
  <2> QED BY <2>1, LoopExists, Zenon
<1>4. Eq(f)
  <2>1. f = [k \in 0 .. n |-> IF k = 0 THEN s ELSE g[k][f[k - 1]]]
    BY <1>3, Zenon DEF IsLoop
  <2>2. ASSUME NEW k \in 0 .. n, k # 0 PROVE g[k][f[k - 1]] = Keys!Turn(f[k - 1])
    <3>1. k \in 1 .. n /\ k - 1 \in 0 .. n
      BY <2>2
    <3> QED BY <1>1, <1>2, <1>3, <3>1, Zenon
  <2> QED BY <2>1, <2>2, Zenon
<1>5. Eq(h)
  <2> HIDE DEF Eq
  <2> QED BY <1>4, Zenon
<1>6. \A k \in 0 .. n : h[k] = IF k = 0 THEN s ELSE Keys!Turn(h[k - 1])
  <2> HIDE DEF h
  <2> QED BY <1>5, Zenon
<1>7. h[n] \in K
  <2> HIDE DEF h, Eq, s
  <2>1. h[0] \in J[0]
    <3>1. 0 \in 0 .. n
      OBVIOUS
    <3>2. h[0] = s /\ s \in K
      BY <3>1, <1>6, Zenon DEF s
    <3> QED BY <3>1, <3>2, <1>2, Zenon
  <2>3. ASSUME NEW k \in 1 .. n, h[k - 1] \in J[k - 1] PROVE h[k] \in J[k]
    <3>1. k \in 0 .. n /\ k - 1 \in 0 .. n /\ k # 0
      OBVIOUS
    <3>2. h[k] = Keys!Turn(h[k - 1]) /\ h[k - 1] \in K
      BY <3>1, <2>3, <1>2, <1>6, Zenon
    <3> QED BY <3>1, <3>2, <1>2, Zenon
  <2>2. h[n] \in J[n]
    BY <2>1, <2>3, LoopKeeps, Zenon
  <2> QED BY <2>2, <1>2
<1> QED BY <1>7, Zenon

\* A key event: the controller has one byte more, and the hand moved on.
LEMMA ArriveOK ==
  ASSUME NEW d, NEW g, DriverOK(d, g), NEW b \in Scancodes, b.up => b.key \in g.down
  PROVE  LET e == Keys!Arrived(d, b) IN
         DriverOK(e, Sent(g, b)) /\ Out(e) = Out(d) /\ e.got = d.got
<1> DEFINE q == d.queue
           n == Len(q)
           p == Append(q, b)
           e == Keys!Arrived(d, b)
           w == Sent(g, b)
<1>1. d \in Driver /\ Seen(d, d.last) /\ q \in Seq(Scancodes) /\ d.irq \in BOOLEAN
  BY DEF DriverOK, Driver
<1>2. /\ p \in Seq(Scancodes) /\ n \in Nat /\ Len(p) = n + 1 /\ p[n + 1] = b
      /\ \A i \in 1 .. n : p[i] = q[i]
  BY <1>1
<1>3. e = [d EXCEPT !.queue = p, !.irq = @ \/ d.queue = <<>>]
  BY Zenon DEF Keys!Arrived
<1>4. (d.irq \/ d.queue = <<>>) \in BOOLEAN
  BY Zenon
<1> HIDE DEF p
<1>5. /\ e \in Driver /\ e.queue = p /\ e.last = d.last /\ e.held = d.held
      /\ e.caps = d.caps /\ e.sent = d.sent /\ e.shift = d.shift /\ e.full = d.full
      /\ e.got = d.got /\ e.buffer = d.buffer /\ e.head = d.head /\ e.tail = d.tail
  BY <1>1, <1>2, <1>3, <1>4, Zenon DEF Driver
<1> HIDE DEF e
<1>6. Out(e) = Out(d)
  BY <1>5, OutSame, Zenon
<1>7. PICK s : Chain(q, g, s) /\ Knows(d, s[0])
  BY Zenon DEF DriverOK
<1>8. /\ s \in [0 .. n -> Hands] /\ s[n] = g
      /\ \A i \in 1 .. n : s[i] = Sent(s[i - 1], q[i]) /\ (q[i].up => q[i].key \in s[i - 1].down)
      /\ \A i \in 0 .. n : ShiftsNoted(s[i]) /\ Before(s[i], g)
  BY <1>7, Zenon DEF Chain
<1> HIDE DEF n, q
<1>9. g \in Hands /\ ShiftsNoted(g)
  <2>1. n \in 0 .. n
    BY <1>2
  <2> QED BY <2>1, <1>8, Zenon
<1>10. w \in Hands /\ ShiftsNoted(w) /\ Before(g, w)
  BY <1>9, SentIs, Zenon
<1>11. Before(w, w)
  BY <1>10, BeginsOrder DEF Before, Hands
<1>12. ASSUME NEW i \in 0 .. n PROVE Before(s[i], w)
  <2>1. s[i] \in Hands /\ Before(s[i], g)
    BY <1>8, Zenon
  <2>2. PICK h : h = s[i]
    BY Zenon
  <2> HIDE DEF w
  <2>3. /\ h.typed \in Seq(Chars) /\ g.typed \in Seq(Chars) /\ w.typed \in Seq(Chars)
        /\ h.ints \in Nat /\ g.ints \in Nat /\ w.ints \in Nat
    BY <2>1, <2>2, <1>9, <1>10, Zenon DEF Hands
  <2>4. /\ Keys!Begins(h.typed, g.typed) /\ Keys!Begins(g.typed, w.typed) /\ h.ints <= g.ints
        /\ g.ints <= w.ints /\ (h.both => g.both) /\ (g.both => w.both)
    BY <2>1, <2>2, <1>10, Zenon DEF Before
  <2>5. Keys!Begins(h.typed, w.typed)
    BY <2>3, <2>4, BeginsOrder, Zenon
  <2>6. h.ints <= w.ints
    BY <2>3, <2>4
  <2> QED BY <2>2, <2>4, <2>5, <2>6, Zenon DEF Before
<1> DEFINE t == [i \in 0 .. n + 1 |-> IF i = n + 1 THEN w ELSE s[i]]
<1>13. t[n + 1] = w /\ \A i \in 0 .. n : t[i] = s[i]
  BY <1>2
<1>14. t \in [0 .. n + 1 -> Hands]
  <2> HIDE DEF w
  <2> QED BY <1>2, <1>8, <1>10
<1> HIDE DEF t
<1>15. ASSUME NEW i \in 1 .. n + 1
       PROVE  t[i] = Sent(t[i - 1], p[i]) /\ (p[i].up => p[i].key \in t[i - 1].down)
  <2>1. CASE i = n + 1
    <3>1. i - 1 = n /\ n \in 0 .. n
      BY <2>1, <1>2
    <3> QED BY <2>1, <3>1, <1>2, <1>8, <1>13, Zenon
  <2>2. CASE i \in 1 .. n
    <3>1. i \in 0 .. n /\ i - 1 \in 0 .. n
      BY <2>2, <1>2
    <3> QED BY <2>2, <3>1, <1>2, <1>8, <1>13, SMTT(30)
  <2> QED BY <2>1, <2>2, <1>2
<1>16. ASSUME NEW i \in 0 .. n + 1 PROVE ShiftsNoted(t[i]) /\ Before(t[i], w)
  <2>1. CASE i = n + 1
    BY <2>1, <1>10, <1>11, <1>13, Zenon
  <2>2. CASE i \in 0 .. n
    BY <2>2, <1>8, <1>12, <1>13, Zenon
  <2> QED BY <2>1, <2>2, <1>2
<1> HIDE DEF w
<1>17. Chain(p, w, t)
  BY <1>2, <1>13, <1>14, <1>15, <1>16, Zenon DEF Chain
<1>18. Knows(e, t[0]) /\ Seen(e, e.last)
  <2>1. t[0] = s[0]
    BY <1>2, <1>13
  <2> QED BY <2>1, <1>1, <1>5, <1>6, <1>7, Likewise, Zenon
<1>19. DriverOK(e, w)
  BY <1>5, <1>17, <1>18, Zenon DEF DriverOK
<1> QED BY <1>5, <1>6, <1>19, Zenon DEF e, w

\* What a driver that has seen the hand g but for the queue has put out.
LEMMA OutKnown ==
  ASSUME NEW d, NEW g \in Hands, DriverOK(d, g)
  PROVE  /\ Len(d.got) <= Len(g.typed)
         /\ ~d.full /\ ~g.both =>
              Keys!Begins(Out(d), g.typed) /\ (d.queue = <<>> => Out(d) = g.typed)
         /\ d.sent <= g.ints /\ (d.queue = <<>> => d.sent = g.ints)
<1>1. d \in Driver /\ d.queue \in Seq(Scancodes)
  BY Zenon DEF DriverOK, Driver
<1>2. PICK s : Chain(d.queue, g, s) /\ Knows(d, s[0])
  BY Zenon DEF DriverOK
<1>3. s[0] \in Hands /\ Before(s[0], g)
  BY <1>1, <1>2 DEF Chain
<1>4. d.queue = <<>> => s[0] = g
  BY <1>2, Zenon DEF Chain
<1>5. PICK h : h = s[0]
  BY Zenon
<1>6. /\ Knows(d, h) /\ Keys!Begins(h.typed, g.typed) /\ h.ints <= g.ints /\ (h.both => g.both)
      /\ h.typed \in Seq(Chars) /\ g.typed \in Seq(Chars) /\ (d.queue = <<>> => h = g)
  BY <1>2, <1>3, <1>4, <1>5, Zenon DEF Before, Hands
<1>7. /\ d.sent = h.ints /\ Len(Out(d)) <= Len(h.typed) /\ (~d.full /\ ~h.both => Out(d) = h.typed)
  BY <1>6, Zenon DEF Knows
<1>8. Len(d.got) <= Len(g.typed)
  <2>1. Len(Out(d)) = Len(d.got) + Count(d) /\ Len(d.got) \in Nat /\ Count(d) \in Nat
    BY <1>1, OutIs, RingIs
  <2>2. Len(h.typed) \in Nat /\ Len(g.typed) \in Nat /\ Len(h.typed) <= Len(g.typed)
    BY <1>6 DEF Keys!Begins
  <2> QED BY <2>1, <2>2, <1>7, SMTT(30)
<1> QED BY <1>6, <1>7, <1>8, Zenon

\* The inductive invariant of the keyboard.
KeyInv == board \in Boards /\ hand \in Hands /\ DriverOK(kbd, hand)

\* It starts so.
LEMMA KeysStart ==
  ASSUME Keys!Init
  PROVE  KeyInv
<1> DEFINE q == kbd.queue
           s == [i \in 0 .. 0 |-> hand]
<1>1. /\ board \in Boards
      /\ kbd = [buffer |-> [i \in Keys!Pos |-> Keys!Char("c", FALSE)], head |-> 0, tail |-> 0,
                shift |-> FALSE, caps |-> FALSE, held |-> {},
                queue |-> <<>>, last |-> Keys!Break("c"), irq |-> FALSE,
                got |-> <<>>, sent |-> 0, full |-> FALSE]
      /\ hand = [down |-> {}, caps |-> FALSE, typed |-> <<>>, ints |-> 0, both |-> FALSE]
  BY DEF Keys!Init
<1>2. hand \in Hands /\ hand.typed = <<>> /\ hand.down = {} /\ ~hand.both /\ hand.ints = 0
      /\ hand.caps = FALSE
  BY <1>1 DEF Hands
<1>3. kbd \in Driver
  <2>1. 0 \in Keys!Pos
    BY KeyboardAssumption DEF Keys!Pos
  <2>2. "c" \in KeySet
    BY Zenon DEF KeySet
  <2>3. Keys!Char("c", FALSE) \in Chars /\ Keys!Break("c") \in Scancodes
    BY <2>2, Zenon DEF Keys!Char, Keys!Break, Chars, Scancodes
  <2>4. [i \in Keys!Pos |-> Keys!Char("c", FALSE)] \in [Keys!Pos -> Chars]
    BY <2>3, Zenon
  <2>5. <<>> \in Seq(Chars) /\ <<>> \in Seq(Scancodes) /\ 0 \in Nat
    OBVIOUS
  <2> QED BY <1>1, <2>1, <2>3, <2>4, <2>5, Zenon DEF Driver
<1>4. /\ kbd.head = 0 /\ kbd.tail = 0 /\ kbd.got = <<>> /\ kbd.queue = <<>> /\ kbd.held = {}
      /\ kbd.shift = FALSE /\ kbd.caps = FALSE /\ kbd.sent = 0 /\ kbd.last = Keys!Break("c")
  BY <1>1
<1>5. Out(kbd) = <<>>
  <2>1. Out(kbd) \in Seq(Chars) /\ Len(Out(kbd)) = Len(kbd.got) + Count(kbd)
    BY <1>3, OutIs, Zenon
  <2>2. Count(kbd) = 0 /\ Len(kbd.got) = 0
    BY <1>4 DEF Count, Ahead
  <2> QED BY <2>1, <2>2
<1>6. Seen(kbd, kbd.last)
  BY <1>4 DEF Seen, Keys!Break
<1>7. ShiftsNoted(hand) /\ Before(hand, hand)
  <2>1. ~(Keys!Shifts \subseteq hand.down)
    BY <1>2, Zenon DEF Keys!Shifts
  <2> QED BY <2>1, <1>2, BeginsOrder DEF ShiftsNoted, Before, Hands
<1>8. Chain(kbd.queue, hand, s) /\ s[0] = hand
  <2>1. Len(kbd.queue) = 0
    BY <1>4, Zenon
  <2>2. s \in [0 .. 0 -> Hands] /\ s[0] = hand
    BY <1>2
  <2> HIDE DEF s
  <2> QED BY <2>1, <2>2, <1>7 DEF Chain
<1>9. Knows(kbd, hand)
  <2>1. kbd.shift = (hand.down \cap Keys!Shifts # {})
    BY <1>2, <1>4, Zenon
  <2>2. Len(Out(kbd)) <= Len(hand.typed)
    BY <1>2, <1>5
  <2> QED BY <2>1, <2>2, <1>2, <1>4, <1>5, Zenon DEF Knows
<1> HIDE DEF s
<1>10. DriverOK(kbd, hand)
  BY <1>3, <1>6, <1>8, <1>9, Zenon DEF DriverOK
<1> QED BY <1>1, <1>2, <1>10 DEF KeyInv

\* One more key event, of the hand, with the byte b.
LEMMA EventStep ==
  ASSUME KeyInv, NEW b \in Scancodes, b.up => b.key \in hand.down,
         kbd' = Keys!Arrived(kbd, b), hand' = Sent(hand, b), board' = board
  PROVE  KeyInv' /\ Keys!RingKept
<1>1. hand \in Hands /\ DriverOK(kbd, hand) /\ board \in Boards
  BY Zenon DEF KeyInv
<1>2. DriverOK(kbd', hand') /\ Out(kbd') = Out(kbd) /\ kbd'.got = kbd.got
  BY <1>1, ArriveOK, Zenon
<1>3. hand' \in Hands
  <2>1. ShiftsNoted(hand)
    <3>1. PICK s : Chain(kbd.queue, hand, s)
      BY <1>1, Zenon DEF DriverOK
    <3>2. Len(kbd.queue) \in 0 .. Len(kbd.queue)
      BY <1>1 DEF DriverOK, Driver
    <3> QED BY <3>1, <3>2, Zenon DEF Chain
  <2> QED BY <2>1, <1>1, SentIs, Zenon
<1>4. Len(kbd.got) <= Len(hand.typed)
  BY <1>1, OutKnown, Zenon
<1>5. Keys!Begins(Out(kbd), Out(kbd))
  <2>1. Out(kbd) \in Seq(Chars)
    BY <1>1, OutIs, Zenon DEF DriverOK
  <2> QED BY <2>1, BeginsOrder, Zenon
<1>6. Keys!RingKept
  <2>1. Out(kbd') = kbd'.got \o Keys!Ring(kbd') /\ Out(kbd) = kbd.got \o Keys!Ring(kbd)
    BY Zenon DEF Out
  <2> QED BY <2>1, <1>2, <1>4, <1>5, Zenon DEF Keys!RingKept
<1> QED BY <1>1, <1>2, <1>3, <1>6, Zenon DEF KeyInv

\* A step of the driver that keeps what is out and adds to it.
LEMMA DriverStep ==
  ASSUME KeyInv, DriverOK(kbd', hand), Keys!Begins(Out(kbd), Out(kbd')), hand' = hand, board' = board
  PROVE  KeyInv' /\ Keys!RingKept
<1>1. hand \in Hands /\ DriverOK(kbd, hand) /\ board \in Boards
  BY Zenon DEF KeyInv
<1>2. Len(kbd'.got) <= Len(hand.typed)
  BY <1>1, OutKnown, Zenon
<1>3. Keys!RingKept
  <2>1. Out(kbd') = kbd'.got \o Keys!Ring(kbd') /\ Out(kbd) = kbd.got \o Keys!Ring(kbd)
    BY Zenon DEF Out
  <2> QED BY <2>1, <1>2, Zenon DEF Keys!RingKept
<1> QED BY <1>1, <1>3, Zenon DEF KeyInv

\* Every step keeps the invariant, and the ring.
LEMMA KeyStep ==
  ASSUME KeyInv, [Keys!Next]_keyboard
  PROVE  KeyInv' /\ [Keys!RingKept]_keyboard
<1>1. hand \in Hands /\ DriverOK(kbd, hand) /\ board \in Boards
  BY Zenon DEF KeyInv
<1>2. CASE UNCHANGED keyboard
  BY <1>2, <1>1, Zenon DEF keyboard, KeyInv
<1>3. CASE Keys!Interrupt
  <2>1. kbd' = Keys!Process(Keys!Taken([kbd EXCEPT !.irq = FALSE]), Keys!Byte(kbd))
        /\ hand' = hand /\ board' = board
    BY <1>3, Zenon DEF Keys!Interrupt
  <2>2. DriverOK(kbd', hand) /\ Keys!Begins(Out(kbd), Out(kbd'))
    BY <2>1, <1>1, TakeOK, Zenon
  <2> QED BY <2>1, <2>2, DriverStep, Zenon
<1>4. ASSUME NEW n \in 1 .. MaxRead, Keys!Read(n) PROVE KeyInv' /\ Keys!RingKept
  <2> DEFINE K == Reading(hand, Out(kbd))
  <2>1. kbd \in Driver /\ Out(kbd) \in Seq(Chars) /\ Keys!Begins(Out(kbd), Out(kbd))
    BY <1>1, OutIs, BeginsOrder, Zenon DEF DriverOK
  <2>2. [d |-> kbd, more |-> TRUE] \in K
    BY <2>1, <1>1, Zenon DEF Reading
  <2>3. \A x \in K : Keys!Turn(x) \in K
    BY <2>1, TurnOK, Zenon
  <2>4. n \in Nat
    BY KeyboardAssumption
  <2> HIDE DEF K
  <2>5. PICK r \in K : kbd' = r.d
    BY <1>4, <2>2, <2>3, <2>4, ReadLoop, Zenon DEF Keys!Read
  <2>6. DriverOK(kbd', hand) /\ Keys!Begins(Out(kbd), Out(kbd'))
    BY <2>5, Zenon DEF K, Reading
  <2>7. hand' = hand /\ board' = board
    BY <1>4, Zenon DEF Keys!Read
  <2> QED BY <2>6, <2>7, DriverStep, Zenon
<1>5. ASSUME NEW k \in board PROVE Keys!Make(k) \in Scancodes /\ Keys!Break(k) \in Scancodes
  <2>1. k \in KeySet
    BY <1>1, Zenon DEF KeySet
  <2> QED BY <2>1, Zenon DEF Keys!Make, Keys!Break, Scancodes
<1>6. ASSUME NEW k \in board, Keys!Press(k) PROVE KeyInv' /\ Keys!RingKept
  <2> DEFINE b == Keys!Make(k)
  <2>1. kbd' = Keys!Arrived(kbd, b) /\ board' = board /\ k \notin hand.down
    BY <1>6, Zenon DEF Keys!Press
  <2>2. hand' = HandPress(hand, k)
    BY <1>6, Zenon DEF Keys!Press, HandPress
  <2>3. hand' = Sent(hand, b) /\ ~b.up
    BY <2>1, <2>2, Zenon DEF Sent, Keys!Make
  <2> HIDE DEF b
  <2>4. b \in Scancodes
    BY <1>5, Zenon DEF b
  <2> QED BY <2>1, <2>3, <2>4, EventStep, Zenon
<1>7. ASSUME NEW k \in board, Keys!Repeat(k) PROVE KeyInv' /\ Keys!RingKept
  <2> DEFINE b == Keys!Make(k)
  <2>1. kbd' = Keys!Arrived(kbd, b) /\ board' = board /\ k \in hand.down /\ hand' = hand
    BY <1>7, Zenon DEF Keys!Repeat
  <2>2. hand' = Sent(hand, b) /\ ~b.up
    BY <2>1, Zenon DEF Sent, Keys!Make
  <2> HIDE DEF b
  <2>3. b \in Scancodes
    BY <1>5 DEF b
  <2> QED BY <2>1, <2>2, <2>3, EventStep
<1>8. ASSUME NEW k \in board, Keys!Release(k) PROVE KeyInv' /\ Keys!RingKept
  <2> DEFINE b == Keys!Break(k)
  <2>1. kbd' = Keys!Arrived(kbd, b) /\ board' = board /\ k \in hand.down
        /\ hand' = [hand EXCEPT !.down = @ \ {k}]
    BY <1>8, Zenon DEF Keys!Release
  <2>2. hand' = Sent(hand, b) /\ b.up /\ b.key = k
    BY <2>1, Zenon DEF Sent, Keys!Break
  <2> HIDE DEF b
  <2>3. b \in Scancodes
    BY <1>5, Zenon DEF b
  <2> QED BY <2>1, <2>2, <2>3, EventStep, Zenon
<1> QED BY <1>2, <1>3, <1>4, <1>6, <1>7, <1>8, Zenon DEF Keys!Next

\* For a ring of any size, any keys and any number of them, reads of any length,
\* and interrupts taken early, late or twice for a byte: programs get the keys
\* that were typed, in order and once, and every Ctrl+C sends one SIGINT.
THEOREM KeysComeInOrder == Keys!Spec => []KeysInOrder
<1>1. Keys!Init => KeyInv
  BY KeysStart, Zenon
<1>2. KeyInv /\ [Keys!Next]_keyboard => KeyInv'
  BY KeyStep, Zenon
<1>3. KeyInv => KeysInOrder
  <2> SUFFICES ASSUME KeyInv PROVE KeysInOrder
    BY Zenon
  <2>1. /\ ~kbd.full /\ ~hand.both =>
             Keys!Begins(Out(kbd), hand.typed) /\ (kbd.queue = <<>> => Out(kbd) = hand.typed)
        /\ kbd.sent <= hand.ints /\ (kbd.queue = <<>> => kbd.sent = hand.ints)
    BY OutKnown, Zenon DEF KeyInv
  <2> QED BY <2>1, Zenon DEF KeysInOrder, Keys!KeysInOrder, Out
<1> QED BY <1>1, <1>2, <1>3, PTL DEF Keys!Spec, Keys!vars, keyboard

\* Likewise: what the ring has stays until it is read.
THEOREM RingStays == Keys!Spec => RingKeeps
<1>1. Keys!Init => KeyInv
  BY KeysStart
<1>2. KeyInv /\ [Keys!Next]_keyboard => KeyInv' /\ [Keys!RingKept]_keyboard
  BY KeyStep, Zenon
<1> QED BY <1>1, <1>2, PTL DEF Keys!Spec, Keys!vars, RingKeeps, keyboard
=============================================================================
