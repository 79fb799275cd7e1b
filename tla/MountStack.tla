----------------------------- MODULE MountStack -----------------------------
(***************************************************************************)
(* The layers mounted at a package's mount point: the read-only package    *)
(* image (the base) and, when packages_overlayfs_root is configured, an    *)
(* overlay stacked on it at the same path.  Only the number of layers is   *)
(* kept.  Mounting and unmounting are relations: an operator gives the set *)
(* of results [ok, layers] a call may have, the failing ones only when     *)
(* the environment may fail it.                                            *)
(***************************************************************************)
EXTENDS Naturals

Layers == 0..2

\* A call's result: Ok(()) or Err, and the layers it leaves behind.
Results == [ok : BOOLEAN, layers : Layers]
Result(ok, n) == [ok |-> ok, layers |-> n]

\* The stack a successful mount leaves.
FullStack(overlay) == IF overlay THEN 2 ELSE 1

\* mount_device_with on an empty mount point.  An overlay that fails rolls the
\* base back; a rollback that fails as well is only logged and leaves the base.
MountDevice(overlay, mayFail) ==
    {r \in Results :
        \/ r = Result(TRUE, FullStack(overlay))
        \/ mayFail /\ r = Result(FALSE, 0)
        \/ mayFail /\ overlay /\ r = Result(FALSE, 1)}

\* mount_pkgfs: whatever is already mounted at the path is reused as it is.
Mount(n, overlay, mayFail) ==
    IF n > 0 THEN {Result(TRUE, n)} ELSE MountDevice(overlay, mayFail)

\* Bug: one umount(2) for the path, whatever is stacked there.
UnmountTop(n, overlay, mayFail) ==
    {r \in Results :
        \/ r = Result(TRUE, IF n > 0 THEN n - 1 ELSE 0)
        \/ mayFail /\ r = Result(FALSE, n)}

\* unmount_pkgfs: the overlay, then the base, each only if the path is still a
\* mount point; the first umount(2) that fails ends the call.
Unmount(n, overlay, mayFail) ==
    LET top == IF overlay /\ n > 0 THEN n - 1 ELSE n
        end == IF top > 0 THEN top - 1 ELSE 0
    IN  {r \in Results :
            \/ r = Result(TRUE, end)
            \/ mayFail /\ overlay /\ n > 0 /\ r = Result(FALSE, n)
            \/ mayFail /\ top > 0 /\ r = Result(FALSE, top)}

\* The mount task of setup(): one retry, and only after a clean unmount.
MountWithRetry(n, overlay, mayFailMount, mayFailUnmount) ==
    {r \in Results :
        \/ r.ok /\ r \in Mount(n, overlay, mayFailMount)
        \/ \E f \in Mount(n, overlay, mayFailMount) :
               /\ ~f.ok
               /\ \E u \in Unmount(f.layers, overlay, mayFailUnmount) :
                     IF u.ok THEN r \in Mount(u.layers, overlay, mayFailMount)
                             ELSE r = u}
=============================================================================
