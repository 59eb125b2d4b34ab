------------------------------- MODULE MCAnalysis -------------------------------
(*****************************************************************************)
(* Two packages in either order.  p.rs and q.rs are their roots; p.rs may    *)
(* mount m.rs beside it and the shared file, q.rs may mount n.rs, and n.rs   *)
(* the shared file, through a `#[path]` out of its package; g.rs is spliced  *)
(* in by p.rs and mounts o.rs, which lies outside both packages; link.rs is  *)
(* m.rs by another name.  In the last, p.rs and m.rs both mount the shared   *)
(* file, which mounts g.rs, and m.rs mounts the root again.                  *)
(*****************************************************************************)
EXTENDS Analysis

CONSTANTS P, Q, pRs, mRs, qRs, nRs, shared, gRs, oRs, linkRs, dep

Mod(f, t) == [from |-> f, to |-> t, kind |-> "mod", ruledOut |-> {}]
Not(pkg, e) == [e EXCEPT !.ruledOut = {pkg}]

MCEdges == {
  {Mod(pRs, mRs), Mod(qRs, nRs), Mod(nRs, shared)},
  {Mod(pRs, shared), Mod(qRs, nRs), Mod(nRs, shared), [Mod(pRs, shared) EXCEPT !.kind = "include"]},
  {Mod(pRs, mRs), Mod(mRs, shared), Mod(qRs, shared)},
  {Not(P, Mod(pRs, mRs)), Mod(qRs, nRs), Not(Q, Mod(nRs, shared))},
  {Mod(pRs, mRs), Mod(mRs, pRs), [Mod(pRs, gRs) EXCEPT !.kind = "include"], Mod(gRs, oRs)},
  {Mod(pRs, mRs), [Mod(pRs, gRs) EXCEPT !.kind = "claim"], [Mod(qRs, shared) EXCEPT !.kind = "include"], Mod(qRs, nRs)},
  {Mod(pRs, linkRs), Mod(qRs, shared)},
  {Mod(pRs, mRs), Mod(pRs, shared), Mod(mRs, shared), Mod(shared, gRs), Mod(mRs, pRs)} }

MCTroubles == {[broken |-> {}, lost |-> {}], [broken |-> {mRs}, lost |-> {}], [broken |-> {nRs}, lost |-> {}],
               [broken |-> {shared}, lost |-> {}], [broken |-> {oRs}, lost |-> {}],
               [broken |-> {}, lost |-> {shared}], [broken |-> {}, lost |-> {qRs}]}

MCUses == {{<<pRs, mRs>>, <<qRs, shared>>}, {<<mRs, pRs>>, <<nRs, shared>>, <<shared, qRs>>}, {<<gRs, mRs>>, <<oRs, pRs>>, <<linkRs, qRs>>}}

Workspace(order, edges, trouble, uses, tests, named) ==
  [order |-> order,
   targets |-> [k \in {P, Q} |-> IF k = P THEN <<pRs>> \o tests
                                 ELSE <<qRs>>],
   edges |-> edges, broken |-> trouble.broken, lost |-> trouble.lost,
   swept |-> [k \in {P, Q} |-> IF k = P THEN {pRs, mRs, shared} ELSE {qRs, nRs, linkRs}],
   dir |-> [k \in {P, Q} |-> IF k = P THEN {pRs, mRs, shared, gRs} ELSE {qRs, nRs, linkRs}],
   real |-> [f \in Files |-> IF f = linkRs THEN mRs ELSE f],
   uses |-> uses,
   gated |-> {mRs, shared}, holds |-> {<<shared, Q>>},
   names |-> [f \in Files |-> IF f = named THEN {dep} ELSE {}],
   deps |-> [k \in {P, Q} |-> {dep}],
   ignored |-> CASE named = pRs -> {mRs} [] named = mRs -> {Q} [] OTHER -> {}]

MCWorkspaces ==
  {Workspace(order, edges, trouble, uses, tests, named) :
     order \in {<<P, Q>>, <<Q, P>>}, edges \in MCEdges, trouble \in MCTroubles, uses \in MCUses,
     tests \in {<<>>, <<mRs>>}, named \in {pRs, mRs, shared, gRs, oRs}}
=================================================================================
