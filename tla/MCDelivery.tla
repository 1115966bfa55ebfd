----------------------------- MODULE MCDelivery -----------------------------
(* A role stage, the plan gate, the design workcell and its gate, two parallel
   workcells and the candidate gate of one delivery. *)
EXTENDS Delivery

CONSTANTS designer, api, console

Stage(kind, lanes) == [kind |-> kind, lanes |-> lanes]
Pipeline == <<Stage("role", {}), Stage("plan", {}),
              Stage("work", {designer}), Stage("design", {}),
              Stage("work", {api, console}), Stage("candidate", {})>>
=============================================================================
