---------------------------- MODULE MCSsamDaemon ----------------------------
(***************************************************************************)
(* Instances of SsamDaemon for TLC.                                        *)
(***************************************************************************)
EXTENDS SsamDaemon, TLC

CONSTANTS a, b, c1, c2

RpcCall(op, names, v) == [op |-> op, names |-> names, version |-> v]
SomeCalls == c1 :> {RpcCall("start", {}, 1), RpcCall("install", {a}, 2)}
          @@ c2 :> {RpcCall("stop", {a}, 1), RpcCall("remove", {a}, 1),
                    RpcCall("list", {}, 1)}

With(fs, ns) == [faults |-> fs, bundled |-> ns]

\* Two packages for the RPCs and the teardown of all, of which clients install one,
\* and one package for what may fail.
SomeScenarios ==
    {With({}, {b}), With({}, {a}), With({"hangup"}, {a}), With({"umount"}, {a}),
     With({"work"}, {a}), With({"install", "recover"}, {a}), With({"actor"}, {a}),
     With({"exit"}, {a}), With({"crash"}, {a})}
=============================================================================
