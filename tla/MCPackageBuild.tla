--------------------------- MODULE MCPackageBuild ---------------------------
(***************************************************************************)
(* Instances of PackageBuild for TLC: a tree, the image of an aligned and  *)
(* of an unaligned file system, and a container image.  The hash block is  *)
(* two units; the container's file system has the smaller blocks.          *)
(***************************************************************************)
EXTENDS PackageBuild, TLC

CONSTANTS empty, tree, image, odd, remote

Sizes == (empty :> 2) @@ (tree :> 4) @@ (image :> 4) @@ (odd :> 3) @@ (remote :> 4)
BlockSizes ==
    (empty :> 2) @@ (tree :> 2) @@ (image :> 2) @@ (odd :> 2) @@ (remote :> 1)
=============================================================================
