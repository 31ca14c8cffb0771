----------------------------- MODULE MCOffload -----------------------------
(* Values of Offload's constants for TLC.                                  *)
EXTENDS Offload

CONSTANTS e1, e2, e3, s1, s2, q, o

MCExperts == {e1, e2, e3}
MCSlots == {s1, s2}
MCMatrices == {q, o}

File(flat, tensors, bias) == [flat |-> flat, tensors |-> tensors, bias |-> bias]
Setup(f1, f2, f3, di, ve, re, bytes, asked, rel, floats) ==
    [files |-> e1 :> f1 @@ e2 :> f2 @@ e3 :> f3,
     direct |-> di, verify |-> ve, reuse |-> re, budget |-> bytes,
     wants |-> asked, release |-> rel, f32 |-> floats]

MCSetups == {
    (* experts on the GPU, which holds two of them *)
    Setup(File("none", "gs64", "none"), File("none", "gs64", "none"),
          File("none", "gs64", "plain"), FALSE, FALSE, TRUE, 5,
          {"experts", "router"}, FALSE, {}),
    (* or one, or not even that; a packed flat file over the shards *)
    Setup(File("fits", "gs64", "none"), File("fits", "absent", "none"),
          File("none", "packed", "none"), FALSE, FALSE, TRUE, 1,
          {"experts"}, FALSE, {}),
    (* one flat file with an unusable and a damaged entry, slabs reused *)
    Setup(File("othersize", "gs64", "none"), File("damaged", "gs64", "plain"),
          File("none", "gs64", "none"), TRUE, TRUE, TRUE, 1,
          {"dense", "router"}, TRUE, {q, o}),
    (* every other layout, tensor by tensor *)
    Setup(File("none", "packed", "packed"), File("none", "nodown", "plain"),
          File("damaged", "float", "none"), TRUE, FALSE, FALSE, 1,
          {"dense"}, FALSE, {q})}

(* The slots of a pool are interchangeable.                                *)
Symmetric == Permutations(MCSlots)

=============================================================================
