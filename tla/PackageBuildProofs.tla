------------------------- MODULE PackageBuildProofs -------------------------
(***************************************************************************)
(* What holds of PackageBuild for every value of its constants.            *)
(***************************************************************************)
EXTENDS PackageBuild, TLAPS

-----------------------------------------------------------------------------
(* Blocks *)

\* Division rounds down to a multiple.
LEMMA Rounded ==
    ASSUME NEW a \in Nat, NEW b \in Nat \ {0}
    PROVE  /\ a \div b \in Nat
           /\ (a \div b) * b <= a
           /\ a < (a \div b) * b + b
OBVIOUS

LEMMA Grows ==
    ASSUME NEW j \in Nat, NEW k \in Nat, NEW b \in Nat, j <= k
    PROVE  j * b <= k * b
OBVIOUS

\* There is one multiple to round down to.
LEMMA RoundsTo ==
    ASSUME NEW k \in Nat, NEW b \in Nat \ {0}, NEW r \in Nat, r < b
    PROVE  (k * b + r) \div b = k
<1> DEFINE a == k * b + r
           q == a \div b
<1>1. a \in Nat /\ k * b \in Nat
    OBVIOUS
<1>2. q \in Nat /\ q * b <= a /\ a < q * b + b
    BY <1>1, Rounded
<1>3. CASE q < k
  <2>1. (q + 1) * b <= k * b
      BY <1>2, <1>3, Grows
  <2>2. (q + 1) * b = q * b + b
      BY <1>2
  <2> QED
      BY <1>1, <1>2, <2>1, <2>2
<1>4. CASE q > k
  <2>1. (k + 1) * b <= q * b
      BY <1>2, <1>4, Grows
  <2>2. (k + 1) * b = k * b + b
      OBVIOUS
  <2> QED
      BY <1>1, <1>2, <2>1, <2>2
<1> QED
    BY <1>2, <1>3, <1>4

LEMMA WholeBlocks ==
    ASSUME NEW a \in Nat, NEW b \in Nat \ {0}, a % b = 0
    PROVE  a = (a \div b) * b
<1>1. a % b = a - b * (a \div b)
    OBVIOUS
<1> QED
    BY <1>1, Rounded

-----------------------------------------------------------------------------
(* An image and its hash tree *)

LEMMA BlockSizes ==
    /\ HashBlock \in Nat \ {0}
    /\ \A s \in Sources : BlockSize[s] \in Nat \ {0} /\ Size[s] \in Nat
BY BuildConstantsOK

\* A number of whole hash blocks.
Blocked(size) == size = (size \div HashBlock) * HashBlock

LEMMA AlignedIsNat ==
    ASSUME NEW size \in Nat, NEW bs \in Nat \ {0}
    PROVE  Aligned(size, bs) \in Nat
<1>1. size + bs - 1 \in Nat
    OBVIOUS
<1>2. (size + bs - 1) \div bs \in Nat
    BY <1>1, Rounded
<1> QED
    BY <1>2 DEF Aligned

\* What veritysetup makes of an image, whatever the offset.
LEMMA FormattedImage ==
    ASSUME runs \in Nat, NEW img \in Images, NEW offset \in Nat
    PROVE  /\ Formatted(img, offset) \in Images
           /\ Formatted(img, offset).of = img.of
           /\ Formatted(img, offset).whole = img.whole
           /\ Formatted(img, offset).tree = TreeAt(offset)
           /\ Formatted(img, offset).salt = runs
           /\ Formatted(img, offset).size > offset
           /\ Formatted(img, offset).size \div HashBlock >= 1
           /\ Blocked(Formatted(img, offset).size)
<1> DEFINE after == Formatted(img, offset)
           k == TreeAt(offset) + 1
<1>1. TreeAt(offset) \in Nat /\ k \in Nat /\ k >= 1
    BY BlockSizes, Rounded DEF TreeAt
<1>2. k * HashBlock \in Nat
    BY <1>1, BlockSizes
<1>3. /\ after.of = img.of /\ after.whole = img.whole /\ after.tree = TreeAt(offset)
      /\ after.salt = runs /\ after.size = k * HashBlock /\ after \in Images
    BY <1>1, <1>2 DEF Formatted, Images
<1>4. k * HashBlock > offset
  <2>1. offset < (offset \div HashBlock) * HashBlock + HashBlock
      BY BlockSizes, Rounded
  <2>2. offset \div HashBlock \in Nat
      BY BlockSizes, Rounded
  <2>3. (offset \div HashBlock + 1) * HashBlock =
            (offset \div HashBlock) * HashBlock + HashBlock
      BY <2>2, BlockSizes
  <2>4. TreeAt(offset) * HashBlock <= k * HashBlock
      BY <1>1, BlockSizes, Grows
  <2> QED
      BY <2>1, <2>2, <2>3, <2>4, BlockSizes DEF TreeAt
<1>5. (k * HashBlock) \div HashBlock = k
  <2>1. (k * HashBlock + 0) \div HashBlock = k
      BY <1>1, BlockSizes, RoundsTo
  <2> QED
      BY <1>2, <2>1
<1> QED
    BY <1>1, <1>3, <1>4, <1>5 DEF Blocked

\* With blocks of the hash tree's size the table's start is where the tree is.
LEMMA StartIsTree ==
    ASSUME NEW size \in Nat, Blocked(size)
    PROVE  HashStartBlock(size, HashBlock) = TreeAt(Aligned(size, HashBlock))
<1> DEFINE k == size \div HashBlock
<1>1. k \in Nat /\ size = k * HashBlock /\ HashBlock \in Nat \ {0}
    BY BlockSizes, Rounded DEF Blocked
<1> HIDE DEF k
<1>2. (k * HashBlock + (HashBlock - 1)) \div HashBlock = k
    BY <1>1, RoundsTo
<1>3. size + HashBlock - 1 = k * HashBlock + (HashBlock - 1)
    BY <1>1
<1>4. Aligned(size, HashBlock) = size
    BY <1>1, <1>2, <1>3 DEF Aligned
<1> QED
    BY <1>4 DEF TreeAt, HashStartBlock

-----------------------------------------------------------------------------
(* A package file, cell by cell *)

Blocks(img) == img.size \div HashBlock

LEMMA BlocksAreNat ==
    ASSUME NEW img \in Images
    PROVE  Blocks(img) \in Nat
BY BlockSizes, Rounded DEF Blocks, Images

\* The cell c is what a package of the image img with the table t has at place i.
IsAt(c, i, t, img) ==
    /\ c \in Cells
    /\ i = 1 => c.kind = "metadata" /\ c.table = t
    /\ i \in 2..4 => c.kind \in {"runtime", "seccomp", "signature"}
    /\ i \in 5..(Blocks(img) + 4) => c = [kind |-> "image", img |-> img]
    /\ i = Blocks(img) + 5 => c.kind = "directory"
    /\ i = Blocks(img) + 6 =>
           c = [kind |-> "extents", first |-> 5, length |-> Blocks(img)]
    /\ i = Blocks(img) + 7 => c.kind = "size"
    /\ i = Blocks(img) + 8 => c.kind = "footer"

\* The cells that are written, and those that are to come, after p, up to last.
Laid(file, t, img) ==
    /\ Len(file) <= Blocks(img) + 8
    /\ \A i \in 1..Len(file) : IsAt(file[i], i, t, img)
ToCome(todo, p, last, t, img) ==
    /\ Len(todo) >= 1 /\ p + Len(todo) = last
    /\ \A j \in 1..Len(todo) : IsAt(todo[j], p + j, t, img)

LEMMA FourCells ==
    ASSUME NEW S, NEW a \in S, NEW b \in S, NEW c \in S, NEW d \in S
    PROVE  /\ <<a, b, c, d>> \in Seq(S) /\ Len(<<a, b, c, d>>) = 4
           /\ <<a, b, c, d>>[1] = a /\ <<a, b, c, d>>[2] = b
           /\ <<a, b, c, d>>[3] = c /\ <<a, b, c, d>>[4] = d
OBVIOUS

LEMMA EqualCells ==
    ASSUME NEW S, NEW a \in S, NEW n \in Nat
    PROVE  [i \in 1..n |-> a] \in Seq(S) /\ Len([i \in 1..n |-> a]) = n
OBVIOUS

LEMMA Joined ==
    ASSUME NEW a \in Seq(Cells), NEW b \in Seq(Cells)
    PROVE  /\ a \o b \in Seq(Cells)
           /\ Len(a \o b) = Len(a) + Len(b)
           /\ \A i \in 1..Len(a) : (a \o b)[i] = a[i]
           /\ \A i \in 1..Len(b) : (a \o b)[Len(a) + i] = b[i]
<1>1. a \o b \in Seq(Cells) /\ Len(a \o b) = Len(a) + Len(b)
    OBVIOUS
<1>2. ASSUME NEW i \in 1..Len(a)
      PROVE  (a \o b)[i] = a[i]
  <2>1. i \in 1..Len(a) + Len(b) /\ i <= Len(a)
      OBVIOUS
  <2> QED
      BY <2>1
<1>3. ASSUME NEW i \in 1..Len(b)
      PROVE  (a \o b)[Len(a) + i] = b[i]
  <2>1. Len(a) + i \in 1..Len(a) + Len(b) /\ Len(a) + i > Len(a) /\ (Len(a) + i) - Len(a) = i
      OBVIOUS
  <2> QED
      BY <2>1
<1> QED
    BY <1>1, <1>2, <1>3

\* The cells of three sequences that are joined.
IsJoined(f, a, b, c) ==
    /\ f \in Seq(Cells)
    /\ Len(f) = (Len(a) + Len(b)) + Len(c)
    /\ \A i \in 1..Len(a) : f[i] = a[i]
    /\ \A i \in 1..Len(b) : f[Len(a) + i] = b[i]
    /\ \A i \in 1..Len(c) : f[(Len(a) + Len(b)) + i] = c[i]

LEMMA JoinedTwice ==
    ASSUME NEW a \in Seq(Cells), NEW b \in Seq(Cells), NEW c \in Seq(Cells)
    PROVE  IsJoined((a \o b) \o c, a, b, c)
<1> DEFINE ab == a \o b
<1>1. /\ ab \in Seq(Cells)
      /\ Len(ab) = Len(a) + Len(b)
      /\ \A i \in 1..Len(a) : ab[i] = a[i]
      /\ \A i \in 1..Len(b) : ab[Len(a) + i] = b[i]
    BY Joined, Zenon
<1> HIDE DEF ab
<1> DEFINE f == ab \o c
<1>2. /\ f \in Seq(Cells)
      /\ Len(f) = Len(ab) + Len(c)
      /\ \A i \in 1..Len(ab) : f[i] = ab[i]
      /\ \A i \in 1..Len(c) : f[Len(ab) + i] = c[i]
    BY <1>1, Joined, Zenon
<1> HIDE DEF f
<1>3. Len(a) \in Nat /\ Len(b) \in Nat
    OBVIOUS
<1>4. /\ \A i \in 1..Len(a) : i \in 1..Len(ab)
      /\ \A i \in 1..Len(b) : Len(a) + i \in 1..Len(ab)
    BY <1>1, <1>3
<1>5. IsJoined(f, a, b, c)
  <2>1. Len(f) = (Len(a) + Len(b)) + Len(c)
      BY <1>1, <1>2
  <2>2. \A i \in 1..Len(a) : f[i] = a[i]
      BY <1>1, <1>2, <1>4
  <2>3. \A i \in 1..Len(b) : f[Len(a) + i] = b[i]
      BY <1>1, <1>2, <1>4
  <2>4. \A i \in 1..Len(c) : f[(Len(a) + Len(b)) + i] = c[i]
      BY <1>1, <1>2
  <2> QED
      BY <1>2, <2>1, <2>2, <2>3, <2>4 DEF IsJoined
<1> QED
    BY <1>5 DEF f, ab

LEMMA PayloadsToCome ==
    ASSUME runs \in Nat, NEW t \in Tables, NEW img \in Images
    PROVE  /\ Payloads(t, img) \in Seq(Cells)
           /\ ToCome(Payloads(t, img), 0, Blocks(img) + 5, t, img)
<1> DEFINE n == Blocks(img)
           head == <<[kind |-> "metadata", salt |-> runs, table |-> t],
                     [kind |-> "runtime", salt |-> runs],
                     [kind |-> "seccomp", salt |-> runs],
                     [kind |-> "signature", salt |-> runs]>>
           body == [i \in 1..n |-> [kind |-> "image", img |-> img]]
           tail == <<[kind |-> "directory"]>>
<1>n. n \in Nat
    BY BlocksAreNat
<1>1. /\ [kind |-> "metadata", salt |-> runs, table |-> t] \in Cells
      /\ [kind |-> "runtime", salt |-> runs] \in Cells
      /\ [kind |-> "seccomp", salt |-> runs] \in Cells
      /\ [kind |-> "signature", salt |-> runs] \in Cells
      /\ [kind |-> "image", img |-> img] \in Cells
      /\ [kind |-> "directory"] \in Cells
    BY DEF Cells
<1>2. Payloads(t, img) = (head \o body) \o tail
    BY DEF Payloads, Blocks
<1>h. head \in Seq(Cells) /\ Len(head) = 4
    BY <1>1, FourCells
<1>b. body \in Seq(Cells) /\ Len(body) = n
    BY <1>1, <1>n, EqualCells
<1>t. tail \in Seq(Cells) /\ Len(tail) = 1
    BY <1>1
<1>3. /\ IsAt(head[1], 1, t, img) /\ IsAt(head[2], 2, t, img)
      /\ IsAt(head[3], 3, t, img) /\ IsAt(head[4], 4, t, img)
  <2>1. /\ head[1] = [kind |-> "metadata", salt |-> runs, table |-> t]
        /\ head[2] = [kind |-> "runtime", salt |-> runs]
        /\ head[3] = [kind |-> "seccomp", salt |-> runs]
        /\ head[4] = [kind |-> "signature", salt |-> runs]
      OBVIOUS
  <2> HIDE DEF head, body, tail
  <2> QED
      BY <1>1, <1>n, <2>1 DEF IsAt
<1>4. \A i \in 1..n : IsAt(body[i], 4 + i, t, img)
  <2> SUFFICES ASSUME NEW i \in 1..n
               PROVE  IsAt(body[i], 4 + i, t, img)
      OBVIOUS
  <2>1. body[i] = [kind |-> "image", img |-> img]
      OBVIOUS
  <2> HIDE DEF head, body, tail
  <2> QED
      BY <1>1, <1>n, <2>1 DEF IsAt
<1>5. IsAt(tail[1], n + 5, t, img)
  <2>1. tail[1] = [kind |-> "directory"]
      OBVIOUS
  <2> HIDE DEF head, body, tail
  <2> QED
      BY <1>1, <1>n, <2>1 DEF IsAt
<1> HIDE DEF head, body, tail
<1> DEFINE file == (head \o body) \o tail
<1>j. IsJoined(file, head, body, tail)
    BY <1>h, <1>b, <1>t, JoinedTwice
<1> HIDE DEF file
<1>6. /\ file \in Seq(Cells) /\ Len(file) = n + 5
      /\ \A i \in 1..4 : file[i] = head[i]
      /\ \A i \in 1..n : file[4 + i] = body[i]
      /\ file[n + 5] = tail[1]
  <2>1. file \in Seq(Cells) /\ Len(file) = n + 5
      BY <1>h, <1>b, <1>t, <1>n, <1>j DEF IsJoined
  <2>2. \A i \in 1..4 : file[i] = head[i]
      BY <1>h, <1>j DEF IsJoined
  <2>3. \A i \in 1..n : file[4 + i] = body[i]
      BY <1>h, <1>b, <1>j DEF IsJoined
  <2>4. file[(4 + n) + 1] = tail[1]
      BY <1>h, <1>b, <1>t, <1>j DEF IsJoined
  <2> QED
      BY <1>n, <2>1, <2>2, <2>3, <2>4
<1>7. ASSUME NEW i \in 1..(n + 5)
      PROVE  IsAt(file[i], i, t, img)
  <2>1. CASE i \in 1..4
    <3>1. i = 1 \/ i = 2 \/ i = 3 \/ i = 4
        BY <2>1
    <3> QED
        BY <1>3, <1>6, <2>1, <3>1
  <2>2. CASE i \in 5..(n + 4)
    <3>1. i - 4 \in 1..n /\ 4 + (i - 4) = i
        BY <1>n, <2>2
    <3> QED
        BY <1>4, <1>6, <3>1
  <2>3. CASE i = n + 5
      BY <1>5, <1>6, <2>3
  <2> QED
      BY <1>n, <2>1, <2>2, <2>3
<1>8. ToCome(file, 0, n + 5, t, img)
  <2>1. \A i \in 1..(n + 5) : 0 + i = i
      BY <1>n
  <2> QED
      BY <1>6, <1>7, <1>n, <2>1 DEF ToCome
<1> QED
    BY <1>2, <1>6, <1>8 DEF file

LEMMA TrailerToCome ==
    ASSUME NEW t \in Tables, NEW img \in Images
    PROVE  /\ Trailer(img) \in Seq(Cells)
           /\ ToCome(Trailer(img), Blocks(img) + 5, Blocks(img) + 8, t, img)
<1> DEFINE n == Blocks(img)
<1>n. n \in Nat
    BY BlocksAreNat
<1>1. /\ [kind |-> "extents", first |-> 5, length |-> n] \in Cells
      /\ [kind |-> "size"] \in Cells /\ [kind |-> "footer"] \in Cells
    BY <1>n DEF Cells
<1>2. Trailer(img) = <<[kind |-> "extents", first |-> 5, length |-> n],
                       [kind |-> "size"], [kind |-> "footer"]>>
    BY DEF Trailer, Blocks
<1> HIDE DEF n
<1>3. /\ Trailer(img) \in Seq(Cells) /\ Len(Trailer(img)) = 3
      /\ Trailer(img)[1] = [kind |-> "extents", first |-> 5, length |-> n]
      /\ Trailer(img)[2] = [kind |-> "size"] /\ Trailer(img)[3] = [kind |-> "footer"]
    BY <1>1, <1>2
<1>4. /\ IsAt(Trailer(img)[1], n + 6, t, img) /\ IsAt(Trailer(img)[2], n + 7, t, img)
      /\ IsAt(Trailer(img)[3], n + 8, t, img)
    BY <1>1, <1>3, <1>n DEF IsAt, n
<1>5. \A j \in 1..3 : IsAt(Trailer(img)[j], n + 5 + j, t, img)
  <2>1. n + 5 + 1 = n + 6 /\ n + 5 + 2 = n + 7 /\ n + 5 + 3 = n + 8
      BY <1>n
  <2>2. \A j \in 1..3 : j = 1 \/ j = 2 \/ j = 3
      OBVIOUS
  <2> QED
      BY <1>4, <2>1, <2>2
<1> QED
    BY <1>3, <1>5, <1>n DEF ToCome, n

-----------------------------------------------------------------------------
(* The inductive invariant, one part per stage of a run *)

\* The sources whose image has the blocks of the hash tree, and fills them.
Suits(s) == BlockSize[s] = HashBlock /\ Size[s] % HashBlock = 0

\* What lies in the workspace: only a tree that was cut short is not whole, and a
\* suitable image stays one of whole blocks, formatted or not.
WorkspaceInv ==
    /\ pc \in {"config", "move"} => op.src \in Remotes
    /\ pkgfs.whole \/ mayCut
    /\ \A f \in Files : images[f].whole
    /\ \A f \in Files \cup {"built"} :
          Suits(images[f].of) => Blocked(images[f].size)

\* The table says what the image is.
Signed(t, img) ==
    /\ t.salt = img.salt
    /\ Blocks(img) >= 1
    /\ img.whole \/ mayCut
    /\ Suits(img.of) => t.start = img.tree

\* The image and the table of the run, when it has come to them.
RunInv ==
    /\ pc \in {"format", "wrap", "payloads", "trailer"} =>
           /\ op.image \in Files \cup {"built"}
           /\ images[op.image].whole \/ mayCut
    /\ pc \in {"wrap", "payloads", "trailer"} => Signed(op.table, images[op.image])
    /\ pc \notin {"payloads", "trailer"} => op.at = 0

\* What is written of the package and what is still to be.
WriteInv ==
    pc \in {"payloads", "trailer"} =>
        LET img  == images[op.image]
            last == Blocks(img) + (IF pc = "payloads" THEN 5 ELSE 8)
        IN  /\ pc = "payloads" => op.at = Len(output)
            /\ Laid(output, op.table, img)
            /\ ToCome(op.todo, Len(output), last, op.table, img)

\* Whatever lies at the package's path, all of it or its beginning, is the
\* package of one signed image.
FileInv ==
    \/ output = <<>>
    \/ \E t \in Tables, img \in Images : Signed(t, img) /\ Laid(output, t, img)

IInv == TypeOK /\ WorkspaceInv /\ RunInv /\ WriteInv /\ FileInv

-----------------------------------------------------------------------------
(* Types *)

LEMMA OpTyped ==
    /\ NoTable \in Tables
    /\ NoOp \in Ops /\ NoOp.table = NoTable /\ NoOp.at = 0
    /\ <<>> \in Seq(Cells)
BY DEF NoTable, Tables, NoOp, Ops

LEMMA PkgfsTyped ==
    ASSUME NEW kind \in {"none", "dir", "link"}, NEW s \in Sources, NEW w \in BOOLEAN
    PROVE  /\ Pkgfs(kind, s).whole
           /\ Pkgfs(kind, s) \in
                  [kind : {"none", "dir", "link"}, of : Sources, whole : BOOLEAN]
           /\ [Pkgfs(kind, s) EXCEPT !.whole = w] \in
                  [kind : {"none", "dir", "link"}, of : Sources, whole : BOOLEAN]
BY DEF Pkgfs

LEMMA EmptyIsSource == Empty \in Sources
BY BuildConstantsOK DEF Sources

LEMMA ImageTyped ==
    ASSUME NEW s \in Sources, NEW w \in BOOLEAN, NEW n \in Nat
    PROVE  /\ Image(s, w, n) \in Images
           /\ Image(s, w, n).of = s /\ Image(s, w, n).whole = w
           /\ Image(s, w, n).size = n
BY DEF Image, Images

LEMMA TypeInit == Init => TypeOK
<1> SUFFICES ASSUME Init PROVE TypeOK
    OBVIOUS
<1>1. pkgfs \in [kind : {"none", "dir", "link"}, of : Sources, whole : BOOLEAN]
    BY EmptyIsSource, PkgfsTyped DEF Init, NoPkgfs
<1>2. images \in [Files \cup {"built"} -> Images]
  <2>1. \A f \in Files : f \in Sources /\ Size[f] \in Nat
      BY BlockSizes DEF Sources
  <2>2. Image(Empty, FALSE, 0) \in Images
      BY EmptyIsSource, ImageTyped
  <2>3. \A f \in Files : Image(f, TRUE, Size[f]) \in Images
      BY <2>1, ImageTyped
  <2> QED
      BY <2>2, <2>3 DEF Init
<1>3. runs \in 0..MaxRuns
    BY BuildConstantsOK DEF Init
<1> QED
    BY <1>1, <1>2, <1>3, OpTyped DEF Init, TypeOK

-----------------------------------------------------------------------------
(* Before there is an image *)

PkgfsType == [kind : {"none", "dir", "link"}, of : Sources, whole : BOOLEAN]

\* What a run is when it has no image yet, or is over.
NoImageYet(o) ==
    /\ o \in Ops /\ o.at = 0
    /\ o.table # NoTable => o.table.hashSize > 0

\* What a step does that works on the source or on the configuration files.
Prepares ==
    /\ runs' \in 0..MaxRuns
    /\ pc' \in {"idle", "source", "config", "move", "files", "build"}
    /\ NoImageYet(op')
    /\ pc' \in {"config", "move"} => op'.src \in Remotes
    /\ pkgfs' \in PkgfsType /\ (pkgfs'.whole \/ mayCut)
    /\ unpacked' \in BOOLEAN
    /\ configs' \in [Configs -> {"none", "cut", "whole"}]
    /\ UNCHANGED <<images, output, mayCut>>

LEMMA PreparesStep ==
    ASSUME TypeOK, WorkspaceInv, FileInv, Prepares
    PROVE  TypeOK' /\ WorkspaceInv' /\ RunInv' /\ WriteInv' /\ FileInv'
<1>1. TypeOK'
    BY DEF TypeOK, Prepares, PkgfsType, NoImageYet
<1>2. WorkspaceInv'
    BY DEF WorkspaceInv, Prepares
<1>3. RunInv' /\ WriteInv'
    BY DEF RunInv, WriteInv, Prepares, NoImageYet
<1>4. FileInv'
    BY DEF FileInv, Signed, Prepares
<1> QED
    BY <1>1, <1>2, <1>3, <1>4

LEMMA GotoKeeps ==
    ASSUME TypeOK, RunInv, NEW p, Goto(p), pc \notin {"payloads", "trailer"}
    PROVE  runs' \in 0..MaxRuns /\ NoImageYet(op') /\ pc' = p /\ op' = op
BY DEF Goto, TypeOK, RunInv, NoImageYet

LEMMA EndsPrepares ==
    ASSUME TypeOK, Ends
    PROVE  runs' \in 0..MaxRuns /\ NoImageYet(op') /\ pc' = "idle"
BY OpTyped DEF Ends, TypeOK, NoImageYet

LEMMA PreparedKeeps ==
    ASSUME TypeOK, RunInv, Prepared, pc \notin {"payloads", "trailer"}
    PROVE  runs' \in 0..MaxRuns /\ NoImageYet(op') /\ pc' \in {"files", "build"}
BY GotoKeeps DEF Prepared

LEMMA WrittenTyped ==
    ASSUME TypeOK, NEW c, Written(c)
    PROVE  configs' \in [Configs -> {"none", "cut", "whole"}]
BY DEF Written, TypeOK

LEMMA SourceSteps ==
    ASSUME TypeOK, WorkspaceInv, RunInv,
           \/ Begin \/ Stops \/ UserTidies \/ KeepPkgfs \/ RemovePkgfs \/ LinkSource
           \/ Unpack \/ CopyRuntimeConfig \/ Move \/ PrepareFiles
    PROVE  Prepares
<1>t. /\ pkgfs \in PkgfsType /\ unpacked \in BOOLEAN
      /\ configs \in [Configs -> {"none", "cut", "whole"}] /\ runs \in 0..MaxRuns
      /\ op \in Ops /\ op.src \in Sources \cup {"none"}
      /\ mayCut \in BOOLEAN /\ (pkgfs.whole \/ mayCut)
    BY BuildConstantsOK DEF TypeOK, PkgfsType, Ops, WorkspaceInv
<1>k. ASSUME NEW kind \in {"none", "dir", "link"}, NEW s \in Sources
      PROVE  /\ Pkgfs(kind, s) \in PkgfsType /\ Pkgfs(kind, s).whole
             /\ [Pkgfs(kind, s) EXCEPT !.whole = FALSE] \in PkgfsType
    BY PkgfsTyped DEF PkgfsType
<1>n. NoPkgfs \in PkgfsType /\ NoPkgfs.whole
    BY <1>k, EmptyIsSource DEF NoPkgfs
<1>1. CASE Begin
  <2>1. runs' \in 0..MaxRuns
    <3>1. MaxRuns \in Nat
        BY BuildConstantsOK
    <3>2. runs < MaxRuns /\ runs' = runs + 1
        BY <1>1 DEF Begin
    <3>3. runs \in 0..MaxRuns
        BY <1>t
    <3> QED
        BY <3>1, <3>2, <3>3
  <2>2. PICK mode \in {"prepare", "wrap"}, src \in Sources \cup {"none"} :
            op' = [NoOp EXCEPT !.mode = mode, !.src = src]
      BY <1>1 DEF Begin
  <2>3. NoImageYet(op')
      BY <2>2, OpTyped DEF NoImageYet, Ops
  <2> QED
      BY <1>1, <1>t, <2>1, <2>3 DEF Begin, Prepares, workspace
<1>2. CASE Stops
    BY <1>2, <1>t, EndsPrepares DEF Stops, Prepares, workspace
<1>3. CASE UserTidies
  <2>1. pc = "idle" /\ UNCHANGED <<images, output, runs, pc, op, mayCut>>
      BY <1>3 DEF UserTidies, run
  <2>2. NoImageYet(op)
      BY <2>1 DEF RunInv, TypeOK, NoImageYet
  <2>3. pkgfs' \in PkgfsType /\ (pkgfs'.whole \/ mayCut)
    <3>1. Trees \subseteq Sources
        BY DEF Sources
    <3> QED
        BY <1>3, <1>t, <1>k, <3>1 DEF UserTidies
  <2>4. unpacked' \in BOOLEAN /\ configs' \in [Configs -> {"none", "cut", "whole"}]
      BY <1>3, <1>t DEF UserTidies
  <2> QED
      BY <1>t, <2>1, <2>2, <2>3, <2>4 DEF Prepares
<1>4. CASE KeepPkgfs
    BY <1>4, <1>t, <1>k, EmptyIsSource, PreparedKeeps DEF KeepPkgfs, Prepares
<1>5. CASE RemovePkgfs
  <2>1. CASE pkgfs' = NoPkgfs /\ Goto("source")
      BY <1>5, <2>1, <1>t, <1>n, GotoKeeps DEF RemovePkgfs, Prepares
  <2>2. CASE mayCut /\ pkgfs' = [pkgfs EXCEPT !.whole = FALSE] /\ Ends
    <3>1. pkgfs' \in PkgfsType
        BY <2>2, <1>t DEF PkgfsType
    <3> QED
        BY <1>5, <2>2, <1>t, <3>1, EndsPrepares DEF RemovePkgfs, Prepares
  <2> QED
      BY <1>5, <2>1, <2>2 DEF RemovePkgfs
<1>6. CASE LinkSource
  <2>1. op.src \in Sources
      BY <1>6 DEF LinkSource, Sources
  <2> QED
      BY <1>6, <2>1, <1>t, <1>k, PreparedKeeps DEF LinkSource, Prepares
<1>7. CASE Unpack
  <2>1. CASE Goto(IF configs["runtime"] = "none" THEN "config" ELSE "move")
    <3>1. /\ runs' \in 0..MaxRuns /\ NoImageYet(op') /\ op' = op
          /\ pc' \in {"config", "move"}
        BY <1>7, <2>1, GotoKeeps DEF Unpack
    <3> QED
        BY <1>7, <1>t, <3>1 DEF Unpack, Prepares
  <2>2. CASE Ends
      BY <1>7, <2>2, <1>t, EndsPrepares DEF Unpack, Prepares
  <2> QED
      BY <1>7, <2>1, <2>2 DEF Unpack
<1>8. CASE CopyRuntimeConfig
  <2>1. configs' \in [Configs -> {"none", "cut", "whole"}]
      BY <1>8, WrittenTyped DEF CopyRuntimeConfig
  <2>2. CASE Goto("move")
      BY <1>8, <2>1, <2>2, <1>t, GotoKeeps
         DEF CopyRuntimeConfig, Prepares, WorkspaceInv
  <2>3. CASE Ends
      BY <1>8, <2>1, <2>3, <1>t, EndsPrepares DEF CopyRuntimeConfig, Prepares
  <2> QED
      BY <1>8, <2>2, <2>3 DEF CopyRuntimeConfig
<1>9. CASE Move
  <2>1. op.src \in Sources
      BY <1>9 DEF Move, WorkspaceInv, Sources
  <2>2. CASE pkgfs' = Pkgfs("dir", op.src) /\ Prepared
      BY <1>9, <2>1, <2>2, <1>t, <1>k, PreparedKeeps DEF Move, Prepares
  <2>3. CASE /\ mayCut /\ Ends
             /\ pkgfs' = [Pkgfs("dir", op.src) EXCEPT !.whole = FALSE]
      BY <1>9, <2>1, <2>3, <1>t, <1>k, EndsPrepares DEF Move, Prepares
  <2> QED
      BY <1>9, <2>2, <2>3 DEF Move
<1>10. CASE PrepareFiles
  <2>1. configs' \in [Configs -> {"none", "cut", "whole"}]
      BY <1>10, <1>t, WrittenTyped DEF PrepareFiles
  <2>2. CASE Goto("files")
      BY <1>10, <2>1, <2>2, <1>t, GotoKeeps DEF PrepareFiles, Prepares
  <2>3. CASE Ends
      BY <1>10, <2>1, <2>3, <1>t, EndsPrepares DEF PrepareFiles, Prepares
  <2> QED
      BY <1>10, <2>2, <2>3 DEF PrepareFiles
<1> QED
    BY <1>1, <1>2, <1>3, <1>4, <1>5, <1>6, <1>7, <1>8, <1>9, <1>10

-----------------------------------------------------------------------------
(* From the source to the image *)

LEMMA TakeImageStep ==
    ASSUME TypeOK, WorkspaceInv, RunInv, FileInv, TakeImage
    PROVE  TypeOK' /\ WorkspaceInv' /\ RunInv' /\ WriteInv' /\ FileInv'
<1>1. /\ pc = "build" /\ pc' = "format" /\ pkgfs.of \in Files
      /\ op' = [op EXCEPT !.image = pkgfs.of]
      /\ UNCHANGED <<pkgfs, unpacked, configs, images, output, runs, mayCut>>
    BY DEF TakeImage, workspace
<1>2. op' \in Ops /\ op'.image = pkgfs.of /\ op'.table = op.table /\ op'.at = op.at
    BY <1>1 DEF TypeOK, Ops
<1>3. TypeOK'
    BY <1>1, <1>2 DEF TypeOK
<1>4. WorkspaceInv' /\ WriteInv'
    BY <1>1 DEF WorkspaceInv, WriteInv
<1>5. RunInv'
    BY <1>1, <1>2 DEF RunInv, WorkspaceInv
<1>6. FileInv'
    BY <1>1 DEF FileInv, Signed
<1> QED
    BY <1>3, <1>4, <1>5, <1>6

ImagesFit ==
    /\ images \in [Files \cup {"built"} -> Images]
    /\ \A f \in Files : images[f].whole
    /\ \A f \in Files \cup {"built"} :
          Suits(images[f].of) => Blocked(images[f].size)

\* One image is replaced by another that is as good.
LEMMA ImageReplaced ==
    ASSUME TypeOK, WorkspaceInv, NEW f \in Files \cup {"built"}, NEW img \in Images,
           images' = [images EXCEPT ![f] = img],
           f \in Files => img.whole,
           Suits(img.of) => Blocked(img.size)
    PROVE  ImagesFit' /\ images'[f] = img
<1>1. images \in [Files \cup {"built"} -> Images]
    BY DEF TypeOK
<1>2. images' \in [Files \cup {"built"} -> Images]
    BY <1>1
<1>3. \A g \in Files \cup {"built"} :
          \/ g = f /\ images'[g] = img
          \/ g # f /\ images'[g] = images[g]
    BY <1>1
<1>4. \A g \in Files : images'[g].whole
    BY <1>3 DEF WorkspaceInv
<1>5. \A g \in Files \cup {"built"} : Suits(images'[g].of) => Blocked(images'[g].size)
    BY <1>3 DEF WorkspaceInv
<1> QED
    BY <1>2, <1>3, <1>4, <1>5 DEF ImagesFit

LEMMA MakeImageStep ==
    ASSUME TypeOK, WorkspaceInv, RunInv, FileInv, MakeImage
    PROVE  TypeOK' /\ WorkspaceInv' /\ RunInv' /\ WriteInv' /\ FileInv'
<1>1. /\ pc = "build" /\ pkgfs.of \in Sources /\ pkgfs.whole \in BOOLEAN
      /\ UNCHANGED <<pkgfs, unpacked, configs, output, runs, mayCut>>
    BY DEF MakeImage, Ends, TypeOK
<1>2. Size[pkgfs.of] \in Nat /\ HashBlock \in Nat \ {0}
    BY <1>1, BlockSizes
<1>3. Suits(pkgfs.of) => Blocked(Size[pkgfs.of])
    BY <1>2, WholeBlocks DEF Suits, Blocked
<1>4. Blocked(0)
  <2>1. (0 * HashBlock + 0) \div HashBlock = 0
      BY <1>2, RoundsTo
  <2> QED
      BY <1>2, <2>1 DEF Blocked
<1>f. "built" \notin Files
    BY BuildConstantsOK
<1>5. ImagesFit'
  <2>1. ASSUME NEW w \in BOOLEAN, NEW n \in Nat, Suits(pkgfs.of) => Blocked(n),
               images' = [images EXCEPT !["built"] = Image(pkgfs.of, w, n)]
        PROVE  ImagesFit'
    <3>1. /\ Image(pkgfs.of, w, n) \in Images
          /\ Image(pkgfs.of, w, n).of = pkgfs.of
          /\ Image(pkgfs.of, w, n).size = n
        BY <1>1, ImageTyped
    <3> QED
        BY <1>f, <2>1, <3>1, ImageReplaced
  <2>2. 0 \in Nat /\ FALSE \in BOOLEAN
      OBVIOUS
  <2> QED
      BY <1>1, <1>2, <1>3, <1>4, <2>1, <2>2 DEF MakeImage
<1>6. WorkspaceInv' /\ WriteInv'
  <2>1. pc' \in {"idle", "format"}
      BY DEF MakeImage, Ends
  <2> QED
      BY <1>1, <1>5, <2>1 DEF WorkspaceInv, WriteInv, ImagesFit
<1>7. FileInv'
    BY <1>1 DEF FileInv, Signed
<1>8. CASE Ends
  <2>1. NoImageYet(op') /\ pc' = "idle"
      BY <1>8, EndsPrepares
  <2>2. TypeOK'
      BY <1>1, <1>5, <2>1 DEF TypeOK, ImagesFit, NoImageYet
  <2>3. RunInv'
      BY <2>1 DEF RunInv, NoImageYet
  <2> QED
      BY <1>6, <1>7, <2>2, <2>3
<1>9. CASE /\ images' = [images EXCEPT !["built"] =
                             Image(pkgfs.of, pkgfs.whole, Size[pkgfs.of])]
           /\ op' = [op EXCEPT !.image = "built"] /\ pc' = "format"
  <2>1. op' \in Ops /\ op'.image = "built" /\ op'.table = op.table /\ op'.at = op.at
      BY <1>9 DEF TypeOK, Ops
  <2>2. images'["built"].whole \/ mayCut
    <3>1. images'["built"] = Image(pkgfs.of, pkgfs.whole, Size[pkgfs.of])
        BY <1>9 DEF TypeOK
    <3>2. images'["built"].whole = pkgfs.whole
        BY <1>1, <1>2, <3>1, ImageTyped
    <3> QED
        BY <3>2 DEF WorkspaceInv
  <2>3. TypeOK'
      BY <1>1, <1>5, <1>9, <2>1 DEF TypeOK, ImagesFit
  <2>4. RunInv'
      BY <1>1, <1>9, <2>1, <2>2 DEF RunInv
  <2> QED
      BY <1>6, <1>7, <2>3, <2>4
<1> QED
    BY <1>8, <1>9 DEF MakeImage

LEMMA FormatStep ==
    ASSUME TypeOK, WorkspaceInv, RunInv, FileInv, Format
    PROVE  TypeOK' /\ WorkspaceInv' /\ RunInv' /\ WriteInv' /\ FileInv'
<1> DEFINE img    == images[op.image]
           bs     == BlockSize[img.of]
           offset == Aligned(img.size, bs)
           after  == Formatted(img, offset)
           table  == [dataSize   |-> img.size,
                      hashOffset |-> offset,
                      hashSize   |-> HashSize(img, after, offset),
                      start      |-> HashStartBlock(img.size, bs),
                      salt       |-> after.salt]
<1>1. /\ pc = "format" /\ images' = [images EXCEPT ![op.image] = after]
      /\ \/ op' = [op EXCEPT !.table = table] /\ pc' = "wrap" /\ UNCHANGED runs
         \/ Ends
      /\ UNCHANGED <<pkgfs, unpacked, configs, output, mayCut>>
    BY DEF Format
<1>2. op.image \in Files \cup {"built"} /\ (img.whole \/ mayCut) /\ op.at = 0
    BY <1>1 DEF RunInv
<1>3. img \in Images /\ img.of \in Sources /\ img.size \in Nat /\ runs \in Nat
    BY <1>2 DEF TypeOK, Images
<1>4. bs \in Nat \ {0}
    BY <1>3, BlockSizes
<1>5. offset \in Nat
    BY <1>3, <1>4, AlignedIsNat
<1>i. Suits(img.of) => Blocked(img.size) /\ bs = HashBlock
    BY <1>2 DEF WorkspaceInv, Suits
<1>w. op.image \in Files => img.whole
    BY DEF WorkspaceInv
<1>6. /\ after \in Images /\ after.of = img.of /\ after.whole = img.whole
      /\ after.tree = TreeAt(offset) /\ after.salt = runs /\ after.size > offset
      /\ after.size \div HashBlock >= 1 /\ Blocked(after.size)
    BY <1>3, <1>5, FormattedImage
<1>s. Suits(img.of) => HashStartBlock(img.size, bs) = TreeAt(offset)
    BY <1>3, <1>i, StartIsTree
<1>h. HashStartBlock(img.size, bs) \in Nat
    BY <1>3, <1>4, Rounded DEF HashStartBlock
<1> HIDE DEF img, bs, offset, after
<1>7. ImagesFit' /\ images'[op.image] = after
    BY <1>1, <1>2, <1>6, <1>w, ImageReplaced
<1>8. WorkspaceInv' /\ WriteInv' /\ FileInv'
  <2>1. pc' \in {"idle", "wrap"}
      BY <1>1 DEF Ends
  <2>2. WorkspaceInv' /\ WriteInv'
      BY <1>1, <1>7, <2>1 DEF WorkspaceInv, WriteInv, ImagesFit
  <2> QED
      BY <1>1, <2>2 DEF FileInv, Signed
<1>9. CASE Ends
  <2>1. NoImageYet(op') /\ pc' = "idle" /\ runs' \in 0..MaxRuns
      BY <1>9, EndsPrepares
  <2>2. TypeOK'
      BY <1>1, <1>7, <2>1 DEF TypeOK, ImagesFit, NoImageYet
  <2>3. RunInv'
      BY <2>1 DEF RunInv, NoImageYet
  <2> QED
      BY <1>8, <2>2, <2>3
<1>10. CASE op' = [op EXCEPT !.table = table] /\ pc' = "wrap" /\ UNCHANGED runs
  <2>1. HashSize(img, after, offset) \in Nat /\ HashSize(img, after, offset) > 0
    <3>1. after.size \in Nat
        BY <1>6 DEF Images
    <3> QED
        BY <1>5, <1>6, <3>1 DEF HashSize
  <2>2. table \in Tables /\ table.hashSize > 0
      BY <1>3, <1>5, <1>6, <1>h, <2>1 DEF Tables
  <2>3. table.salt = after.salt /\ table.start = HashStartBlock(img.size, bs)
      OBVIOUS
  <2> HIDE DEF table
  <2>4. op' \in Ops /\ op'.table = table /\ op'.image = op.image /\ op'.at = op.at
      BY <1>10, <2>2 DEF TypeOK, Ops
  <2>5. TypeOK'
      BY <1>1, <1>7, <1>10, <2>2, <2>4 DEF TypeOK, ImagesFit
  <2>6. /\ table.salt = after.salt /\ Blocks(after) >= 1
        /\ after.whole \/ mayCut'
        /\ Suits(after.of) => table.start = after.tree
    <3>1. Suits(after.of) => table.start = after.tree
        BY <1>6, <1>s, <2>3
    <3> QED
        BY <1>1, <1>2, <1>6, <2>3, <3>1 DEF Blocks
  <2>7. RunInv'
    <3>1. op'.image = op.image /\ images'[op'.image] = after /\ op'.at = 0
        BY <1>2, <1>7, <2>4
    <3>2. Signed(op.table, images[op.image])'
        BY <2>4, <2>6, <3>1 DEF Signed
    <3> QED
        BY <1>2, <1>10, <2>6, <3>1, <3>2 DEF RunInv
  <2> QED
      BY <1>8, <2>5, <2>7
<1> QED
    BY <1>1, <1>9, <1>10

-----------------------------------------------------------------------------
(* Writing *)

LEMMA NothingLaid ==
    ASSUME NEW t \in Tables, NEW img \in Images
    PROVE  Laid(<<>>, t, img)
BY BlocksAreNat DEF Laid

\* The next cell is written where it belongs.
LEMMA CellWritten ==
    ASSUME NEW file \in Seq(Cells), NEW todo \in Seq(Cells), NEW t, NEW img \in Images,
           NEW last \in Nat, last <= Blocks(img) + 8,
           Laid(file, t, img), ToCome(todo, Len(file), last, t, img)
    PROVE  /\ Append(file, Head(todo)) \in Seq(Cells)
           /\ Len(Append(file, Head(todo))) = Len(file) + 1
           /\ Laid(Append(file, Head(todo)), t, img)
           /\ Len(todo) > 1 => /\ Tail(todo) \in Seq(Cells)
                               /\ ToCome(Tail(todo), Len(file) + 1, last, t, img)
           /\ Len(todo) <= 1 => Len(file) + 1 = last
<1> DEFINE cell == Head(todo)
           longer == Append(file, cell)
<1>1. /\ Blocks(img) \in Nat /\ Len(file) \in Nat /\ Len(todo) \in Nat
      /\ Len(todo) >= 1 /\ Len(file) + Len(todo) = last
    BY BlocksAreNat DEF ToCome
<1>2. cell = todo[1] /\ cell \in Cells /\ IsAt(cell, Len(file) + 1, t, img)
  <2>1. cell = todo[1] /\ 1 \in 1..Len(todo)
      BY <1>1
  <2> QED
      BY <2>1 DEF ToCome
<1>3. longer \in Seq(Cells) /\ Len(longer) = Len(file) + 1
    BY <1>2
<1>4. Laid(longer, t, img)
  <2>1. ASSUME NEW i \in 1..Len(file) + 1
        PROVE  IsAt(longer[i], i, t, img)
    <3>1. CASE i \in 1..Len(file)
      <4>1. longer[i] = file[i]
          BY <3>1
      <4> QED
          BY <3>1, <4>1 DEF Laid
    <3>2. CASE i = Len(file) + 1
      <4>1. longer[i] = cell
          BY <1>1, <3>2
      <4> QED
          BY <1>2, <3>2, <4>1
    <3> QED
        BY <1>1, <3>1, <3>2
  <2> HIDE DEF longer
  <2> QED
      BY <1>1, <1>3, <2>1 DEF Laid
<1>5. ASSUME Len(todo) > 1
      PROVE  /\ Tail(todo) \in Seq(Cells)
             /\ ToCome(Tail(todo), Len(file) + 1, last, t, img)
  <2>1. Tail(todo) \in Seq(Cells) /\ Len(Tail(todo)) = Len(todo) - 1
      BY <1>1, <1>5
  <2>2. ASSUME NEW j \in 1..Len(todo) - 1
        PROVE  IsAt(Tail(todo)[j], (Len(file) + 1) + j, t, img)
    <3>1. Tail(todo)[j] = todo[j + 1]
        BY <1>1, <1>5, <2>1
    <3>2. j + 1 \in 1..Len(todo) /\ Len(file) + (j + 1) = (Len(file) + 1) + j
        BY <1>1
    <3>3. IsAt(todo[j + 1], Len(file) + (j + 1), t, img)
        BY <3>2 DEF ToCome
    <3> QED
        BY <3>1, <3>2, <3>3
  <2>3. Len(todo) - 1 >= 1 /\ (Len(file) + 1) + (Len(todo) - 1) = last
      BY <1>1, <1>5
  <2> QED
      BY <2>1, <2>2, <2>3 DEF ToCome
<1> QED
    BY <1>1, <1>3, <1>4, <1>5

LEMMA CreateStep ==
    ASSUME TypeOK, WorkspaceInv, RunInv, Create
    PROVE  TypeOK' /\ WorkspaceInv' /\ RunInv' /\ WriteInv' /\ FileInv'
<1> DEFINE img  == images[op.image]
           todo == Payloads(op.table, img)
<1>1. /\ pc = "wrap" /\ pc' = "payloads" /\ output' = <<>>
      /\ op' = [op EXCEPT !.todo = todo]
      /\ UNCHANGED <<pkgfs, unpacked, configs, images, runs, mayCut>>
    BY DEF Create, Truncated, workspace
<1>2. /\ op \in Ops /\ op.table \in Tables /\ op.image \in Files \cup {"built"}
      /\ img \in Images /\ runs \in Nat /\ op.at = 0
    BY <1>1 DEF TypeOK, Ops, RunInv
<1>3. todo \in Seq(Cells) /\ ToCome(todo, 0, Blocks(img) + 5, op.table, img)
    BY <1>2, PayloadsToCome
<1>4. Laid(<<>>, op.table, img)
    BY <1>2, NothingLaid
<1> HIDE DEF todo
<1>5. /\ op' \in Ops /\ op'.todo = todo /\ op'.table = op.table
      /\ op'.image = op.image /\ op'.at = 0
    BY <1>1, <1>2, <1>3 DEF Ops
<1>6. TypeOK'
    BY <1>1, <1>5, OpTyped DEF TypeOK
<1>7. WorkspaceInv' /\ RunInv'
    BY <1>1, <1>5 DEF WorkspaceInv, RunInv, Signed
<1>8. WriteInv'
  <2>1. Len(output') = 0
      BY <1>1
  <2>2. /\ images'[op'.image] = img /\ op'.table = op.table
        /\ output' = <<>> /\ op'.todo = todo
      BY <1>1, <1>5
  <2> HIDE DEF img
  <2> QED
      BY <1>1, <1>3, <1>4, <1>5, <2>1, <2>2 DEF WriteInv
<1>9. FileInv'
    BY <1>1 DEF FileInv
<1> QED
    BY <1>6, <1>7, <1>8, <1>9

\* A run that writes: the package is the one of its table and image, whatever of
\* it lies there.
LEMMA WritesPackage ==
    ASSUME TypeOK, RunInv, pc \in {"payloads", "trailer"}, UNCHANGED mayCut,
           output' \in Seq(Cells), Laid(output', op.table, images[op.image])
    PROVE  FileInv'
<1>1. op.table \in Tables /\ images[op.image] \in Images
    BY DEF TypeOK, Ops, RunInv
<1>2. Signed(op.table, images[op.image])
    BY DEF RunInv
<1>3. PICK t0 \in Tables, img0 \in Images :
          Signed(t0, img0) /\ Laid(output', t0, img0)
    BY <1>1, <1>2
<1>4. Signed(t0, img0)'
    BY <1>3 DEF Signed
<1> QED
    BY <1>3, <1>4 DEF FileInv, Laid, Signed

LEMMA WritePayloadStep ==
    ASSUME TypeOK, WorkspaceInv, RunInv, WriteInv, WritePayload
    PROVE  TypeOK' /\ WorkspaceInv' /\ RunInv' /\ WriteInv' /\ FileInv'
<1> DEFINE img == images[op.image]
<1>1. /\ pc = "payloads"
      /\ UNCHANGED <<pkgfs, unpacked, configs, images, runs, mayCut>>
    BY DEF WritePayload, workspace
<1>2. /\ op \in Ops /\ op.table \in Tables /\ op.image \in Files \cup {"built"}
      /\ op.todo \in Seq(Cells) /\ op.at \in Nat
      /\ img \in Images /\ output \in Seq(Cells)
    BY <1>1 DEF TypeOK, Ops, RunInv
<1>3. /\ op.at = Len(output) /\ Laid(output, op.table, img)
      /\ ToCome(op.todo, Len(output), Blocks(img) + 5, op.table, img)
    BY <1>1 DEF WriteInv
<1>b. Blocks(img) \in Nat /\ Blocks(img) + 5 \in Nat
      /\ Blocks(img) + 5 <= Blocks(img) + 8 /\ Len(output) \in Nat
      /\ Len(op.todo) \in Nat
    BY <1>2, BlocksAreNat
<1>4. output' = Append(output, Head(op.todo))
  <2>1. op.at + 1 > Len(output)
      BY <1>3, <1>b
  <2> QED
      BY <2>1 DEF WritePayload
<1> HIDE DEF img
<1>5. /\ Append(output, Head(op.todo)) \in Seq(Cells)
      /\ Len(Append(output, Head(op.todo))) = Len(output) + 1
      /\ Laid(Append(output, Head(op.todo)), op.table, img)
      /\ Len(op.todo) > 1 =>
             /\ Tail(op.todo) \in Seq(Cells)
             /\ ToCome(Tail(op.todo), Len(output) + 1, Blocks(img) + 5, op.table, img)
      /\ Len(op.todo) <= 1 => Len(output) + 1 = Blocks(img) + 5
    BY <1>2, <1>3, <1>b, CellWritten
<1>6. /\ output' \in Seq(Cells) /\ Len(output') = Len(output) + 1
      /\ Laid(output', op.table, img)
    BY <1>4, <1>5
<1>7. FileInv'
    BY <1>1, <1>6, WritesPackage DEF img
<1>8. CASE Len(op.todo) > 1
  <2>1. op' = [op EXCEPT !.todo = Tail(op.todo), !.at = op.at + 1] /\ pc' = "payloads"
      BY <1>1, <1>8 DEF WritePayload
  <2>2. /\ op' \in Ops /\ op'.todo = Tail(op.todo) /\ op'.at = op.at + 1
        /\ op'.table = op.table /\ op'.image = op.image
    <3>1. Tail(op.todo) \in Seq(Cells) /\ op.at + 1 \in Nat /\ op \in Ops
        BY <1>2, <1>5, <1>8
    <3> QED
        BY <2>1, <3>1 DEF Ops
  <2>3. TypeOK'
      BY <1>1, <1>6, <2>1, <2>2 DEF TypeOK
  <2>4. WorkspaceInv' /\ RunInv'
      BY <1>1, <2>1, <2>2 DEF WorkspaceInv, RunInv, Signed
  <2>5. images'[op'.image] = img
      BY <1>1, <2>2 DEF img
  <2>6. WriteInv'
      BY <1>3, <1>5, <1>6, <1>8, <2>1, <2>2, <2>5 DEF WriteInv
  <2> QED
      BY <1>7, <2>3, <2>4, <2>6
<1>9. CASE ~(Len(op.todo) > 1)
  <2>1. op' = [op EXCEPT !.todo = Trailer(images[op.image])] /\ pc' = "trailer"
      BY <1>9 DEF WritePayload
  <2>2. /\ Trailer(img) \in Seq(Cells)
        /\ ToCome(Trailer(img), Blocks(img) + 5, Blocks(img) + 8, op.table, img)
      BY <1>2, TrailerToCome
  <2>3. /\ op' \in Ops /\ op'.todo = Trailer(img) /\ op'.at = op.at
        /\ op'.table = op.table /\ op'.image = op.image
      BY <1>2, <2>1, <2>2 DEF Ops, img
  <2>4. TypeOK'
      BY <1>1, <1>6, <2>1, <2>3 DEF TypeOK
  <2>5. WorkspaceInv' /\ RunInv'
      BY <1>1, <2>1, <2>3 DEF WorkspaceInv, RunInv, Signed
  <2>6. images'[op'.image] = img
      BY <1>1, <2>3 DEF img
  <2>7. Len(output') = Blocks(img) + 5
      BY <1>5, <1>6, <1>9, <1>b
  <2>8. WriteInv'
      BY <1>6, <2>1, <2>2, <2>3, <2>6, <2>7 DEF WriteInv
  <2> QED
      BY <1>7, <2>4, <2>5, <2>8
<1> QED
    BY <1>8, <1>9

LEMMA WriteTrailerStep ==
    ASSUME TypeOK, WorkspaceInv, RunInv, WriteInv, WriteTrailer
    PROVE  TypeOK' /\ WorkspaceInv' /\ RunInv' /\ WriteInv' /\ FileInv'
<1> DEFINE img == images[op.image]
<1>1. /\ pc = "trailer" /\ output' = Append(output, Head(op.todo))
      /\ UNCHANGED <<pkgfs, unpacked, configs, images, runs, mayCut>>
    BY DEF WriteTrailer, workspace, Ends
<1>2. /\ op \in Ops /\ op.table \in Tables /\ op.image \in Files \cup {"built"}
      /\ op.todo \in Seq(Cells)
      /\ img \in Images /\ output \in Seq(Cells)
    BY <1>1 DEF TypeOK, Ops, RunInv
<1>3. /\ Laid(output, op.table, img)
      /\ ToCome(op.todo, Len(output), Blocks(img) + 8, op.table, img)
    BY <1>1 DEF WriteInv
<1>b. Blocks(img) + 8 \in Nat /\ Blocks(img) + 8 <= Blocks(img) + 8
    BY <1>2, BlocksAreNat
<1> HIDE DEF img
<1>5. /\ Append(output, Head(op.todo)) \in Seq(Cells)
      /\ Len(Append(output, Head(op.todo))) = Len(output) + 1
      /\ Laid(Append(output, Head(op.todo)), op.table, img)
      /\ Len(op.todo) > 1 =>
             /\ Tail(op.todo) \in Seq(Cells)
             /\ ToCome(Tail(op.todo), Len(output) + 1, Blocks(img) + 8, op.table, img)
      /\ Len(op.todo) <= 1 => Len(output) + 1 = Blocks(img) + 8
    BY <1>2, <1>3, <1>b, CellWritten
<1>6. /\ output' \in Seq(Cells) /\ Len(output') = Len(output) + 1
      /\ Laid(output', op.table, img)
    BY <1>1, <1>5
<1>7. FileInv'
    BY <1>1, <1>6, WritesPackage DEF img
<1>8. CASE Len(op.todo) > 1
  <2>1. op' = [op EXCEPT !.todo = Tail(@)] /\ pc' = "trailer"
      BY <1>1, <1>8 DEF WriteTrailer
  <2>2. /\ op' \in Ops /\ op'.todo = Tail(op.todo)
        /\ op'.table = op.table /\ op'.image = op.image
      BY <1>2, <1>5, <1>8, <2>1 DEF Ops
  <2>3. TypeOK'
      BY <1>1, <1>6, <2>1, <2>2 DEF TypeOK
  <2>4. WorkspaceInv' /\ RunInv'
      BY <1>1, <2>1, <2>2 DEF WorkspaceInv, RunInv, Signed
  <2>5. images'[op'.image] = img
      BY <1>1, <2>2 DEF img
  <2>6. WriteInv'
      BY <1>5, <1>6, <1>8, <2>1, <2>2, <2>5 DEF WriteInv
  <2> QED
      BY <1>7, <2>3, <2>4, <2>6
<1>9. CASE Ends
  <2>1. NoImageYet(op') /\ pc' = "idle"
      BY <1>9, EndsPrepares
  <2>2. TypeOK'
      BY <1>1, <1>6, <2>1 DEF TypeOK, NoImageYet
  <2>3. WorkspaceInv' /\ RunInv' /\ WriteInv'
      BY <1>1, <2>1 DEF WorkspaceInv, RunInv, WriteInv, NoImageYet
  <2> QED
      BY <1>7, <2>2, <2>3
<1> QED
    BY <1>8, <1>9 DEF WriteTrailer

-----------------------------------------------------------------------------
(* The theorems *)

LEMMA IInvInit == Init => IInv
<1> SUFFICES ASSUME Init PROVE IInv
    OBVIOUS
<1>1. TypeOK
    BY TypeInit
<1>i. ASSUME NEW f \in Files
      PROVE  images[f].whole /\ images[f].of = f /\ images[f].size = Size[f]
  <2>1. f # "built" /\ f \in Sources /\ Size[f] \in Nat
      BY BuildConstantsOK, BlockSizes DEF Sources
  <2>2. images[f] = Image(f, TRUE, Size[f])
      BY <2>1 DEF Init
  <2> QED
      BY <2>1, <2>2 DEF Image
<1>2. \A f \in Files \cup {"built"} :
          Suits(images[f].of) => Blocked(images[f].size)
  <2>1. images["built"].size = 0
    <3>1. images["built"] = Image(Empty, FALSE, 0)
        BY DEF Init
    <3> QED
        BY <3>1 DEF Image
  <2>2. Blocked(0)
    <3>1. (0 * HashBlock + 0) \div HashBlock = 0
        BY BlockSizes, RoundsTo
    <3> QED
        BY BlockSizes, <3>1 DEF Blocked
  <2>3. ASSUME NEW f \in Files, Suits(f)
        PROVE  Blocked(Size[f])
    <3>1. Size[f] \in Nat /\ HashBlock \in Nat \ {0}
        BY BlockSizes DEF Sources
    <3> QED
        BY <2>3, <3>1, WholeBlocks DEF Suits, Blocked
  <2> QED
      BY <1>i, <2>1, <2>2, <2>3
<1>3. \A f \in Files : images[f].whole
    BY <1>i
<1>4. pkgfs.whole
    BY EmptyIsSource, PkgfsTyped DEF Init, NoPkgfs
<1>5. WorkspaceInv
    BY <1>2, <1>3, <1>4 DEF Init, WorkspaceInv
<1>6. RunInv /\ WriteInv /\ FileInv
    BY OpTyped DEF Init, RunInv, WriteInv, FileInv
<1> QED
    BY <1>1, <1>5, <1>6 DEF IInv

LEMMA IInvStep == IInv /\ [Next]_vars => IInv'
<1> SUFFICES ASSUME IInv, [Next]_vars
             PROVE  IInv'
    OBVIOUS
<1>1. TypeOK /\ WorkspaceInv /\ RunInv /\ WriteInv /\ FileInv
    BY DEF IInv
<1>2. CASE \/ Begin \/ Stops \/ UserTidies \/ KeepPkgfs \/ RemovePkgfs \/ LinkSource
           \/ Unpack \/ CopyRuntimeConfig \/ Move \/ PrepareFiles
  <2>1. Prepares
      BY <1>1, <1>2, SourceSteps
  <2> QED
      BY <1>1, <2>1, PreparesStep DEF IInv
<1>3. CASE TakeImage \/ MakeImage \/ Format
    BY <1>1, <1>3, TakeImageStep, MakeImageStep, FormatStep DEF IInv
<1>4. CASE Create \/ WritePayload \/ WriteTrailer
    BY <1>1, <1>4, CreateStep, WritePayloadStep, WriteTrailerStep DEF IInv
<1>5. CASE UNCHANGED vars
    BY <1>1, <1>5 DEF vars, workspace, run, IInv, TypeOK, WorkspaceInv, RunInv, WriteInv,
       FileInv, Signed
<1> QED
    BY <1>2, <1>3, <1>4, <1>5 DEF Next

LEMMA IInvInvariant == Spec => []IInv
BY IInvInit, IInvStep, PTL DEF Spec

\* What a reader finds in a file that has a footer: all of one signed image.
LEMMA AcceptedFile ==
    ASSUME TypeOK, FileInv, Accepted(output)
    PROVE  \E t \in Tables, img \in Images :
               /\ Signed(t, img)
               /\ output[1].table = t
               /\ Packaged(output) =
                      [i \in 1..Blocks(img) |-> [kind |-> "image", img |-> img]]
               /\ Packaged(output)[1] = [kind |-> "image", img |-> img]
<1>1. HasFooter(output) /\ output \in Seq(Cells)
    BY DEF Accepted, TypeOK
<1>2. Len(output) \in Nat /\ Len(output) >= 3 /\ output[Len(output)].kind = "footer"
    BY <1>1 DEF HasFooter
<1>3. PICK t \in Tables, img \in Images : Signed(t, img) /\ Laid(output, t, img)
  <2>1. output # <<>>
      BY <1>2
  <2> QED
      BY <2>1 DEF FileInv
<1> DEFINE n == Blocks(img)
<1>4. n \in Nat /\ n >= 1
    BY <1>3, BlocksAreNat DEF Signed
<1>5. Len(output) <= n + 8 /\ \A i \in 1..Len(output) : IsAt(output[i], i, t, img)
    BY <1>3 DEF Laid
<1>6. Len(output) = n + 8
  <2>1. Len(output) \in 1..Len(output) /\ IsAt(output[Len(output)], Len(output), t, img)
      BY <1>2, <1>5
  <2>2. \/ Len(output) \in 2..4 \/ Len(output) \in 5..(n + 4) \/ Len(output) = n + 5
        \/ Len(output) = n + 6 \/ Len(output) = n + 7 \/ Len(output) = n + 8
    <3> DEFINE m == Len(output)
    <3>1. m \in Nat /\ m >= 3 /\ m <= n + 8
        BY <1>2, <1>5
    <3> HIDE DEF m, n
    <3>2. \/ m \in 2..4 \/ m \in 5..(n + 4) \/ m = n + 5 \/ m = n + 6 \/ m = n + 7
          \/ m = n + 8
        BY <1>4, <3>1
    <3> QED
        BY <3>2 DEF m
  <2> QED
      BY <1>2, <2>1, <2>2 DEF IsAt
<1>7. output[1].table = t
  <2>1. IsAt(output[1], 1, t, img)
      BY <1>2, <1>5
  <2> QED
      BY <2>1 DEF IsAt
<1>8. Extents(output).first = 5 /\ Extents(output).length = n
  <2>1. n + 6 \in 1..Len(output) /\ Len(output) - 2 = n + 6
      BY <1>4, <1>6
  <2>2. IsAt(output[n + 6], n + 6, t, img)
      BY <1>5, <2>1
  <2>3. output[n + 6] = [kind |-> "extents", first |-> 5, length |-> n]
      BY <2>2 DEF IsAt
  <2> QED
      BY <2>1, <2>3 DEF Extents
<1>9. Packaged(output) = SubSeq(output, 5, n + 4)
  <2>1. 5 + n - 1 = n + 4
      BY <1>4
  <2> QED
      BY <1>8, <2>1 DEF Packaged
<1>10. \A i \in 1..n : output[i + 4] = [kind |-> "image", img |-> img]
  <2> SUFFICES ASSUME NEW i \in 1..n
               PROVE  output[i + 4] = [kind |-> "image", img |-> img]
      OBVIOUS
  <2>1. i + 4 \in 1..Len(output) /\ i + 4 \in 5..(n + 4)
      BY <1>4, <1>6
  <2>2. IsAt(output[i + 4], i + 4, t, img)
      BY <1>5, <2>1
  <2> QED
      BY <2>1, <2>2 DEF IsAt
<1>11. SubSeq(output, 5, n + 4) = [i \in 1..n |-> output[i + 4]]
    BY <1>1, <1>4, <1>6
<1>12. Packaged(output) = [i \in 1..n |-> [kind |-> "image", img |-> img]]
    BY <1>9, <1>10, <1>11
<1>13. Packaged(output)[1] = [kind |-> "image", img |-> img]
    BY <1>4, <1>12
<1> QED
    BY <1>3, <1>7, <1>12, <1>13

\* Every variable keeps its type; above all the hash area of a verity table, a
\* difference of two sizes, is not negative.
THEOREM BuildTypeCorrect == Spec => []TypeOK
<1>1. IInv => TypeOK
    BY DEF IInv
<1> QED
    BY <1>1, IInvInvariant, PTL

\* from_file_verified accepts no file that another run, cut short before or while
\* it was written, left half of itself in: the footer is written last and the
\* file is truncated first.
THEOREM AcceptedFileIsWhole == Spec => []AcceptedIsWhole
<1>1. IInv => AcceptedIsWhole
  <2> SUFFICES ASSUME IInv, Accepted(output)
               PROVE  AcceptedIsWhole
      BY DEF AcceptedIsWhole
  <2>1. PICK t \in Tables, img \in Images :
               /\ Signed(t, img)
               /\ output[1].table = t
               /\ Packaged(output) =
                      [i \in 1..Blocks(img) |-> [kind |-> "image", img |-> img]]
               /\ Packaged(output)[1] = [kind |-> "image", img |-> img]
      BY AcceptedFile DEF IInv
  <2>2. Packaged(output)[1].img = img
      BY <2>1
  <2> QED
      BY <2>1, <2>2 DEF AcceptedIsWhole, Signed, Blocks
<1> QED
    BY <1>1, IInvInvariant, PTL

\* from_verity_image names the block the hash tree is in, for a file system with
\* the block size of the tree that fills its image, however often the image was
\* formatted and whatever of it was there.
THEOREM TableLeadsToTree == Spec => []TableFindsTreeOtherwise
<1>1. IInv => TableFindsTreeOtherwise
  <2> SUFFICES ASSUME IInv, Accepted(output)
               PROVE  TableFindsTreeOtherwise
      BY DEF TableFindsTreeOtherwise
  <2>1. PICK t \in Tables, img \in Images :
               /\ Signed(t, img)
               /\ output[1].table = t
               /\ Packaged(output) =
                      [i \in 1..Blocks(img) |-> [kind |-> "image", img |-> img]]
               /\ Packaged(output)[1] = [kind |-> "image", img |-> img]
      BY AcceptedFile DEF IInv
  <2>2. Packaged(output)[1].img = img
      BY <2>1
  <2> QED
      BY <2>1, <2>2 DEF TableFindsTreeOtherwise, Signed, Suits
<1> QED
    BY <1>1, IInvInvariant, PTL
=============================================================================
