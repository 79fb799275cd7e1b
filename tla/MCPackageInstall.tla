-------------------------- MODULE MCPackageInstall --------------------------
(***************************************************************************)
(* An instance of PackageInstall for TLC: package p is bundled in version  *)
(* 1.  A fresh install is one after teardown_all, or one over a broken     *)
(* download.                                                               *)
(***************************************************************************)
EXTENDS PackageInstall, TLC

DestP    == "p" :> "p.ssam"
BundledP == "p" :> Content("p", 1, TRUE)

\* The downloaded file of p is missing, damaged, fine, or refused by
\* Package::new; another one may have been copied there under its own name.
Downloads ==
    {("p.ssam" :> p) @@ ("x.ssam" :> x) :
        p \in {NoFile, Corrupt, Content("p", 2, TRUE), Content("p", 2, FALSE)},
        x \in {NoFile, Corrupt, Content("p", 1, TRUE)}}

NewFiles == {Content("p", 2, TRUE), Content("p", 2, FALSE), Content("p", 1, TRUE)}
=============================================================================
