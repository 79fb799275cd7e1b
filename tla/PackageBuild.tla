---------------------------- MODULE PackageBuild ----------------------------
(***************************************************************************)
(* How a package file comes to be, and what a reader takes from it.  Runs  *)
(* of ssam-wrap on one workspace, one after the other: take the source of  *)
(* the package's file system, write the configuration files that are       *)
(* missing, make an image, append a dm-verity hash tree to it, and write   *)
(* the package: [ payloads | zip directory | extents | size | footer ].    *)
(*                                                                         *)
(* Whatever a run has done so far stays on the disk when it fails or is    *)
(* killed, and the next run works on what it finds.  Sizes are counted in  *)
(* a unit of which every block size is a multiple.                         *)
(***************************************************************************)
EXTENDS Naturals, Sequences

CONSTANTS
    Trees,      \* sources: directories, ...
    Empty,      \* ... among them that of a pkgfs nobody filled yet,
    Files,      \* file system images,
    Remotes,    \* and container images
    Size,       \* the size of the file system in or made of a source ...
    BlockSize,  \* ... and its block size
    HashBlock,  \* the block size of hash trees (veritysetup's)
    MaxRuns,    \* how often ssam-wrap is run
    Cuts        \* whether a tree may be left half moved or half removed

Sources == Trees \cup Files \cup Remotes

ASSUME BuildConstantsOK ==
    /\ Empty \in Trees
    \* the image that a run makes is not one of the user's
    /\ "built" \notin Files
    /\ Size \in [Sources -> Nat \ {0}] /\ BlockSize \in [Sources -> Nat \ {0}]
    \* mkfs makes images of whole blocks; an image a user has may be any file
    /\ \A s \in Trees \cup Remotes : Size[s] % BlockSize[s] = 0
    /\ HashBlock \in Nat \ {0} /\ MaxRuns \in Nat
    /\ Cuts \subseteq BOOLEAN

Configs == {"package", "runtime", "seccomp"}

\* What is at <workspace>/pkgfs: a directory or a symlink, with which source's
\* file system, and whether with all of it.
Pkgfs(kind, of) == [kind |-> kind, of |-> of, whole |-> TRUE]
NoPkgfs == Pkgfs("none", Empty)

\* An image: what it was made of, its size, and the hash tree in it: the hash
\* block where it begins, and its salt, which is new with every format.
Image(of, whole, size) ==
    [of |-> of, whole |-> whole, size |-> size, tree |-> 0, salt |-> 0]
Images == [of : Sources, whole : BOOLEAN, size : Nat, tree : Nat, salt : Nat]

\* PackageFsVerityInfo.  The root hash stands in it as the salt.
Tables == [dataSize : Nat, hashOffset : Nat, hashSize : Nat, start : Nat,
           salt : Nat]
NoTable == [dataSize |-> 0, hashOffset |-> 0, hashSize |-> 0, start |-> 0,
            salt |-> 0]

\* What a cell of a package file holds.
Cells ==
    [kind : {"metadata"}, salt : Nat, table : Tables]
        \cup [kind : {"runtime", "seccomp", "signature"}, salt : Nat]
        \cup [kind : {"image"}, img : Images]
        \cup [kind : {"extents"}, first : Nat, length : Nat]
        \cup [kind : {"directory", "size", "footer"}]

\* A run: what is packaged, the image and table it has come to, and what it has
\* to write still, at which place.
Ops == [mode : {"none", "prepare", "wrap"}, src : Sources \cup {"none"},
        image : Files \cup {"built", "none"}, table : Tables,
        todo : Seq(Cells), at : Nat]
NoOp == [mode |-> "none", src |-> "none", image |-> "none", table |-> NoTable,
         todo |-> <<>>, at |-> 0]

VARIABLES
    pkgfs,    \* <workspace>/pkgfs
    unpacked, \* <workspace>/intermediate/oci_unpack is there
    configs,  \* configs[c]: "none", "cut" short, or "whole"
    images,   \* images[f]: the user's image files, and "built", the one in
              \* the intermediate directory
    output,   \* the package file, cell by cell
    runs,     \* runs so far
    pc,       \* where the run under way is
    op,       \* what it was asked, and has come to
    mayCut    \* whether trees may be cut short in this behaviour

workspace == <<pkgfs, unpacked, configs, images>>
run       == <<runs, pc, op>>
vars      == <<workspace, output, run, mayCut>>

TypeOK ==
    /\ pkgfs \in [kind : {"none", "dir", "link"}, of : Sources, whole : BOOLEAN]
    /\ unpacked \in BOOLEAN
    /\ configs \in [Configs -> {"none", "cut", "whole"}]
    /\ images \in [Files \cup {"built"} -> Images]
    /\ output \in Seq(Cells)
    /\ runs \in 0..MaxRuns
    /\ pc \in {"idle", "source", "unpack", "config", "move", "files", "build",
               "format", "wrap", "payloads", "trailer"}
    /\ op \in Ops
    \* there is no verity table without a hash area
    /\ op.table # NoTable => op.table.hashSize > 0
    /\ mayCut \in Cuts

Init ==
    /\ pkgfs = NoPkgfs /\ unpacked = FALSE
    /\ configs = [c \in Configs |-> "none"]
    /\ images = [f \in Files \cup {"built"} |->
                    IF f = "built" THEN Image(Empty, FALSE, 0)
                                   ELSE Image(f, TRUE, Size[f])]
    /\ output = <<>>
    /\ runs = 0 /\ pc = "idle" /\ op = NoOp
    /\ mayCut \in Cuts

-----------------------------------------------------------------------------
(* A run, and its ends *)

Goto(p) == pc' = p /\ UNCHANGED <<runs, op>>
Ends    == pc' = "idle" /\ op' = NoOp /\ UNCHANGED runs

Begin ==
    /\ pc = "idle" /\ runs < MaxRuns
    /\ runs' = runs + 1
    /\ \E mode \in {"prepare", "wrap"}, src \in Sources \cup {"none"} :
          op' = [NoOp EXCEPT !.mode = mode, !.src = src]
    /\ pc' = "source"
    /\ UNCHANGED <<workspace, output, mayCut>>

\* An error of a call that did nothing, a refusal (a source that is not there, a
\* key that is not given), or a kill between two calls.
Stops ==
    /\ pc # "idle"
    /\ Ends
    /\ UNCHANGED <<workspace, output, mayCut>>

\* Between two runs the user fills pkgfs, or deletes what a run complained of.
UserTidies ==
    /\ pc = "idle"
    /\ \/ /\ pkgfs.kind = "dir"
          /\ \E t \in Trees : pkgfs' = Pkgfs("dir", t)
          /\ UNCHANGED <<unpacked, configs>>
       \/ unpacked /\ unpacked' = FALSE /\ UNCHANGED <<pkgfs, configs>>
       \/ \E c \in Configs :
             /\ configs[c] = "cut"
             /\ configs' = [configs EXCEPT ![c] = "none"]
             /\ UNCHANGED <<pkgfs, unpacked>>
    /\ UNCHANGED <<images, output, run, mayCut>>

-----------------------------------------------------------------------------
(* The source *)

Prepared == Goto(IF op.mode = "prepare" THEN "files" ELSE "build")

\* Without a source pkgfs is kept, or made for the user to fill.
KeepPkgfs ==
    /\ pc = "source" /\ op.src = "none"
    /\ pkgfs' = IF pkgfs.kind = "none" THEN Pkgfs("dir", Empty) ELSE pkgfs
    /\ Prepared
    /\ UNCHANGED <<unpacked, configs, images, output, mayCut>>

\* With one it is removed first, a symlink without what it leads to.
RemovePkgfs ==
    /\ pc = "source" /\ op.src # "none" /\ pkgfs.kind # "none"
    /\ \/ pkgfs' = NoPkgfs /\ Goto("source")
       \/ /\ mayCut /\ pkgfs.kind = "dir"
          /\ pkgfs' = [pkgfs EXCEPT !.whole = FALSE] /\ Ends
    /\ UNCHANGED <<unpacked, configs, images, output, mayCut>>

LinkSource ==
    /\ pc = "source" /\ op.src \in Trees \cup Files /\ pkgfs.kind = "none"
    /\ pkgfs' = Pkgfs("link", op.src)
    /\ Prepared
    /\ UNCHANGED <<unpacked, configs, images, output, mayCut>>

\* extract_rootfs: refused when an earlier one left its directory.
Unpack ==
    /\ pc = "source" /\ op.src \in Remotes /\ pkgfs.kind = "none"
    /\ ~unpacked
    /\ unpacked' = TRUE
    /\ \/ Goto(IF configs["runtime"] = "none" THEN "config" ELSE "move")
       \/ Ends
    /\ UNCHANGED <<pkgfs, configs, images, output, mayCut>>

\* A file that is written is there from its creation on.
Written(c) ==
    \E how \in {"cut", "whole"} : configs' = [configs EXCEPT ![c] = how]

\* copy_runtime_config
CopyRuntimeConfig ==
    /\ pc = "config"
    /\ Written("runtime")
    /\ IF configs'["runtime"] = "whole" THEN Goto("move") ELSE Ends
    /\ UNCHANGED <<pkgfs, unpacked, images, output, mayCut>>

\* move_dir: a rename, or across file systems a copy.
Move ==
    /\ pc = "move"
    /\ \/ pkgfs' = Pkgfs("dir", op.src) /\ Prepared
       \/ /\ mayCut
          /\ pkgfs' = [Pkgfs("dir", op.src) EXCEPT !.whole = FALSE] /\ Ends
    /\ UNCHANGED <<unpacked, configs, images, output, mayCut>>

FirstMissing ==
    CASE configs["package"] = "none" -> "package"
      [] configs["package"] # "none" /\ configs["runtime"] = "none" -> "runtime"
      [] OTHER -> "seccomp"

\* Workspace::prepare: the files that are there are kept.
PrepareFiles ==
    /\ pc = "files"
    /\ IF \A c \in Configs : configs[c] # "none"
       THEN Ends /\ UNCHANGED configs
       ELSE LET c == FirstMissing
            IN /\ Written(c)
               /\ IF configs'[c] = "whole" THEN Goto("files") ELSE Ends
    /\ UNCHANGED <<pkgfs, unpacked, images, output, mayCut>>

-----------------------------------------------------------------------------
(* The image *)

\* An image file is packaged as it is.
TakeImage ==
    /\ pc = "build" /\ pkgfs.kind = "link" /\ pkgfs.of \in Files
    /\ op' = [op EXCEPT !.image = pkgfs.of]
    /\ pc' = "format"
    /\ UNCHANGED <<workspace, output, runs, mayCut>>

\* Of a directory mkfs makes one, over the one that is there; the mounts of the
\* runtime config, and the service type, say which directories it must have.
MakeImage ==
    /\ pc = "build" /\ pkgfs.kind # "none" /\ pkgfs.of \notin Files
    /\ configs["runtime"] = "whole" /\ configs["package"] = "whole"
    /\ \/ /\ images' = [images EXCEPT !["built"] =
                            Image(pkgfs.of, pkgfs.whole, Size[pkgfs.of])]
          /\ op' = [op EXCEPT !.image = "built"]
          /\ pc' = "format" /\ UNCHANGED runs
       \/ /\ images' = [images EXCEPT !["built"] = Image(pkgfs.of, FALSE, 0)]
          /\ Ends
    /\ UNCHANGED <<pkgfs, unpacked, configs, output, mayCut>>

\* aligned_hash_offset
Aligned(size, bs) == ((size + bs - 1) \div bs) * bs

\* veritysetup: a superblock at the offset, the tree in the next hash block.
TreeAt(offset) == offset \div HashBlock + 1
Formatted(img, offset) ==
    [img EXCEPT !.tree = TreeAt(offset), !.salt = runs,
                !.size = (TreeAt(offset) + 1) * HashBlock]

\* Bug: the size is asked for before veritysetup has run.
SizeBefore(before, after, offset) == before.size - offset
\* FormatVerity::run
HashSize(before, after, offset) == after.size - offset

\* Bug: the superblock is forgotten.
StartAtSuperblock(size, bs) == size \div bs
\* from_verity_image: hash_start_block
HashStartBlock(size, bs) == size \div bs + 1

\* FormatVerity: the image grows by its hash tree, in place; the table is made
\* of its size before, and of the superblock, root hash and size after.
Format ==
    /\ pc = "format"
    /\ LET img    == images[op.image]
           bs     == BlockSize[img.of]
           offset == Aligned(img.size, bs)
           after  == Formatted(img, offset)
       IN  /\ images' = [images EXCEPT ![op.image] = after]
           /\ \/ /\ op' = [op EXCEPT !.table =
                        [dataSize   |-> img.size,
                         hashOffset |-> offset,
                         hashSize   |-> HashSize(img, after, offset),
                         start      |-> HashStartBlock(img.size, bs),
                         salt       |-> after.salt]]
                 /\ pc' = "wrap" /\ UNCHANGED runs
              \/ Ends
    /\ UNCHANGED <<pkgfs, unpacked, configs, output, mayCut>>

-----------------------------------------------------------------------------
(* The package file *)

\* The payloads in the order of their types, an image in cells of a hash block,
\* and the directory of the zip archive they are in.
Payloads(table, img) ==
    <<[kind |-> "metadata", salt |-> runs, table |-> table],
      [kind |-> "runtime", salt |-> runs],
      [kind |-> "seccomp", salt |-> runs],
      [kind |-> "signature", salt |-> runs]>>
    \o [i \in 1..(img.size \div HashBlock) |-> [kind |-> "image", img |-> img]]
    \o <<[kind |-> "directory"]>>

\* wrap_payloads_info, write_footer: where the image is, and the mark of a
\* package.
Trailer(img) ==
    <<[kind |-> "extents", first |-> 5, length |-> img.size \div HashBlock],
      [kind |-> "size"], [kind |-> "footer"]>>

\* Bug: the file is opened without truncating it.
Reopened(file) == file
\* File::create
Truncated(file) == <<>>

\* from_source, which reads the configuration files, and the start of wrap().
Create ==
    /\ pc = "wrap"
    /\ \A c \in Configs : configs[c] = "whole"
    /\ output' = Truncated(output)
    /\ op' = [op EXCEPT !.todo = Payloads(op.table, images[op.image])]
    /\ pc' = "payloads"
    /\ UNCHANGED <<workspace, runs, mayCut>>

\* wrap_payloads: at the place where the last write ended.
WritePayload ==
    /\ pc = "payloads"
    /\ LET at   == op.at + 1
           cell == Head(op.todo)
       IN  output' = IF at > Len(output) THEN Append(output, cell)
                                         ELSE [output EXCEPT ![at] = cell]
    /\ IF Len(op.todo) > 1
       THEN op' = [op EXCEPT !.todo = Tail(@), !.at = @ + 1] /\ UNCHANGED pc
       ELSE /\ op' = [op EXCEPT !.todo = Trailer(images[op.image])]
            /\ pc' = "trailer"
    /\ UNCHANGED <<workspace, runs, mayCut>>

\* The rest is appended to the file.
WriteTrailer ==
    /\ pc = "trailer"
    /\ output' = Append(output, Head(op.todo))
    /\ IF Len(op.todo) > 1
       THEN op' = [op EXCEPT !.todo = Tail(@)] /\ UNCHANGED <<runs, pc>>
       ELSE Ends
    /\ UNCHANGED <<workspace, mayCut>>

-----------------------------------------------------------------------------
(* The reader *)

\* load_payloads_info: the footer is the end of the file, and leads back to the
\* extents.
HasFooter(file) ==
    /\ Len(file) >= 3
    /\ file[Len(file)].kind = "footer" /\ file[Len(file) - 1].kind = "size"
    /\ file[Len(file) - 2].kind = "extents"
Extents(file) == file[Len(file) - 2]

\* Payloads::verify: the signature is over these three payloads.
Verified(file) ==
    /\ [i \in 1..4 |-> file[i].kind] =
           <<"metadata", "runtime", "seccomp", "signature">>
    /\ \A i \in 1..3 : file[i].salt = file[4].salt

\* from_file_verified
Accepted(file) == HasFooter(file) /\ Verified(file)

\* The image of a package file, as pkgfs_extent has it.
Packaged(file) ==
    SubSeq(file, Extents(file).first,
           Extents(file).first + Extents(file).length - 1)

-----------------------------------------------------------------------------

Next ==
    \/ Begin \/ Stops \/ UserTidies
    \/ KeepPkgfs \/ RemovePkgfs \/ LinkSource \/ Unpack \/ CopyRuntimeConfig
    \/ Move \/ PrepareFiles
    \/ TakeImage \/ MakeImage \/ Format
    \/ Create \/ WritePayload \/ WriteTrailer

Spec == Init /\ [][Next]_vars

-----------------------------------------------------------------------------
(* Properties *)

\* A package file that is accepted holds one image from end to end, the one whose
\* root hash it signs, whatever runs were cut short before or while it was
\* written; and if no tree was cut short, all of the source's files are in it.
AcceptedIsWhole ==
    Accepted(output) =>
        LET img == Packaged(output)[1].img
        IN  /\ Packaged(output) =
                   [i \in 1..(img.size \div HashBlock) |->
                       [kind |-> "image", img |-> img]]
            /\ img.salt = output[1].table.salt
            /\ img.whole \/ mayCut

\* The verity table of a package leads to the hash tree in its image
\* (veritysetup.rs:129: "dm-verity hash area starts after data area; align data
\* size up to block boundary so hash tree begins at a valid [...] offset").
TableFindsTree ==
    Accepted(output) => output[1].table.start = Packaged(output)[1].img.tree

\* It does whenever the file system has the block size of the hash tree and
\* fills its image, however often the image was formatted before.
TableFindsTreeOtherwise ==
    Accepted(output) =>
        LET img == Packaged(output)[1].img
        IN  BlockSize[img.of] = HashBlock /\ Size[img.of] % HashBlock = 0 =>
                output[1].table.start = img.tree
=============================================================================
