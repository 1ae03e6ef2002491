------------------------------ MODULE KVecSpec ------------------------------
(***************************************************************************)
(* What Vec promises: a sequence of values and a capacity.  KVec.tla has   *)
(* to behave like this.                                                    *)
(***************************************************************************)
EXTENDS Integers, SequencesExt

CONSTANTS Elems, UsizeMax, None, Err

VARIABLES
    seq,     \* the values, of the Vec or left in its iterator
    cap,     \* Vec::capacity
    view,    \* "none", "vec", "raw", "retain", "iter" or "drain"
    pos,     \* retain: the values it has kept
    op       \* the last call and what it returned

vars == <<seq, cap, view, pos, op>>

Init ==
    /\ seq = <<>> /\ cap \in {0, UsizeMax} /\ view = "none" /\ pos = 0
    /\ op = <<"start", None>>

Usize == 0..UsizeMax

\* The capacity after a call that needs room for n values.
Room(n) == cap' >= n /\ (cap' # cap => cap < n)

\* A call that fails leaves the vector as it is.
Fails(name) ==
    /\ op' = <<name, Err>>
    /\ UNCHANGED <<seq, cap, view, pos>>

Make ==
    /\ view = "none"
    /\ \/ /\ view' = "vec"
          /\ \/ \E n \in Usize : Room(n) /\ seq' = <<>> /\ op' = <<"with_capacity", n>>
             \/ \E n \in Usize, v \in Elems :
                   /\ Room(n)
                   /\ Len(seq') = n /\ (n # 0 => Last(seq') = v)
                   /\ op' = <<"from_elem", v>>
             \/ Room(Len(seq')) /\ op' = <<"from_box", seq'>>
       \/ Fails("with_capacity") \/ Fails("from_elem")
    /\ UNCHANGED pos

\* n values are put at the end, of which the last is v.
Extend(name, n, v, result) ==
    /\ Room(Len(seq) + n)
    /\ Len(seq') = Len(seq) + n
    /\ SubSeq(seq', 1, Len(seq)) = seq
    /\ n # 0 /\ v # None => Last(seq') = v
    /\ op' = <<name, result>>
    /\ UNCHANGED <<view, pos>>

\* The calls that change the sequence and not the capacity.
Becomes(s, name, result) ==
    /\ seq' = s
    /\ op' = <<name, result>>
    /\ UNCHANGED <<cap, view, pos>>

Grow ==
    /\ view = "vec"
    /\ \/ \E n \in Usize :
             /\ Room(Len(seq) + n)
             /\ op' = <<"reserve", n>>
             /\ UNCHANGED <<seq, view, pos>>
       \/ \E v \in Elems :
             \/ Extend("push", 1, v, v)
             \/ \E n \in Usize : Extend("extend_with", n, v, v)
             \/ \E n \in Usize : n >= Len(seq) /\ Extend("resize", n - Len(seq), v, v)
       \/ \E n \in Usize : Extend("extend_from_slice", n, None, n)
       \/ \E name \in {"reserve", "push", "extend_with", "resize", "extend_from_slice"} : Fails(name)

Within ==
    /\ view = "vec"
    /\ \/ /\ Len(seq) < cap
          /\ \E v \in Elems :
                \/ Becomes(Append(seq, v), "push_within_capacity", v)
                \/ \E i \in 0..Len(seq) : Becomes(InsertAt(seq, i + 1, v), "insert", i)
       \/ Len(seq) = cap /\ Fails("push_within_capacity")
       \/ Fails("insert")

Take ==
    /\ view = "vec"
    /\ \/ seq = <<>> /\ Becomes(seq, "pop", None)
       \/ seq # <<>> /\ Becomes(Front(seq), "pop", Last(seq))
       \/ \E i \in DOMAIN seq : Becomes(RemoveAt(seq, i), "remove", seq[i])
       \/ Fails("remove")

Shorten ==
    /\ view = "vec"
    /\ \E n \in Usize :
          \/ Becomes(SubSeq(seq, 1, IF n < Len(seq) THEN n ELSE Len(seq)), "truncate", n)
          \/ n < Len(seq) /\ \E v \in Elems : Becomes(SubSeq(seq, 1, n), "resize", v)

Convert(from, to, name, result) ==
    /\ view = from
    /\ view' = to
    /\ op' = <<name, result>>
    /\ UNCHANGED <<seq, pos>>

Retain ==
    \/ Convert("vec", "retain", "retain", None) /\ cap' = cap
    \/ /\ view = "retain"
       /\ pos < Len(seq)
       /\ UNCHANGED <<cap, view>>
       /\ \/ pos' = pos + 1 /\ UNCHANGED seq /\ op' = <<"check", TRUE>>
          \/ pos' = pos /\ seq' = RemoveAt(seq, pos + 1) /\ op' = <<"check", FALSE>>
    \/ /\ view = "retain"
       /\ pos = Len(seq)
       /\ view' = "vec" /\ pos' = 0
       /\ op' = <<"retained", None>>
       /\ UNCHANGED <<seq, cap>>

Iterate ==
    \/ Convert("vec", "drain", "drain_all", None) /\ cap' = cap
    \/ Convert("vec", "iter", "into_iter", None) /\ cap' = cap
    \/ /\ view \in {"iter", "drain"}
       /\ \/ seq = <<>> /\ Becomes(seq, "next", None)
          \/ seq # <<>> /\ Becomes(Tail(seq), "next", Head(seq))
    \/ Convert("iter", "vec", "collect", None) /\ cap' \in Len(seq)..cap

End ==
    /\ \/ view = "drain" /\ view' = "vec" /\ cap' = cap
          /\ op' \in {<<"drain_drop", None>>, <<"drain_forget", None>>}
       \/ view \in {"vec", "iter"} /\ view' = "none" /\ cap' \in {0, cap}
          /\ op' = <<"drop", None>>
    /\ seq' = <<>>
    /\ UNCHANGED pos

Raw ==
    /\ cap' = cap
    /\ \/ Convert("vec", "raw", "into_raw_parts", Len(seq))
       \/ Convert("raw", "vec", "from_raw_parts", Len(seq))

Next == Make \/ Grow \/ Within \/ Take \/ Shorten \/ Retain \/ Iterate \/ End \/ Raw

Spec == Init /\ [][Next]_vars
=============================================================================
