--------------------------- MODULE MCPointToPoint ---------------------------
(* Three tags and a pool of two threads, so that a receive may have to wait  *)
(* for a thread.  Tag 1 carries two tensors, the header of the first maybe a *)
(* foreign one; tag 0 one with a partial group and tag 2 an empty one.       *)
EXTENDS PointToPoint, TLC

Int8 == [bit |-> 8, group_size |-> 16, quant_type |-> "linear", compact |-> TRUE]
Int4 == [bit |-> 4, group_size |-> 16, quant_type |-> "linear", compact |-> FALSE]

Tensor(shape, dtype, wire) ==
    [shape |-> shape, dtype |-> dtype, wire |-> wire,
     payload_numel |-> payload_nbytes(logical_numel(shape), dtype, wire),
     layout_generation |-> 0, flags |-> 0]

MCScript ==
    (0 :> <<Tensor(<<5>>, "fp32", Int8)>>)
    @@ (1 :> <<Tensor(<<4, 5>>, "fp16", Int4), Tensor(<<2>>, "fp16", Int4)>>)
    @@ (2 :> <<Tensor(<<0, 3>>, "fp32", Int8)>>)

MCForeign == {<<1, 1>>}

MCExpects ==
    (0 :> [dtype |-> "fp32", wire |-> Int8])
    @@ (1 :> [dtype |-> "fp16", wire |-> Int4])
    @@ (2 :> [dtype |-> "fp32", wire |-> Int8])
=============================================================================
