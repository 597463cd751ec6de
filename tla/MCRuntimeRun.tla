---------------------------- MODULE MCRuntimeRun ----------------------------
(***************************************************************************)
(* An instance of RuntimeRun: the requests tell apart every branch of      *)
(* routing, risk, approval and escalation.                                 *)
(***************************************************************************)
EXTENDS RuntimeRun

Request(hints, kind, labels, images, deep, hops, approvals) ==
  [content |-> [hints |-> hints, kind |-> kind, labels |-> labels, images |-> images,
                deep |-> deep, hops |-> hops],
   approvals |-> approvals]

MCPrints ==
  {Request({}, "programming", "none", TRUE, FALSE, 0, {}),
   Request({"context"}, "other", "few", FALSE, FALSE, 1, {"unstated"}),
   Request({"destructive"}, "architecture", "none", FALSE, TRUE, 0, {"approved", "rejected"}),
   Request({"destructive"}, "architecture", "none", FALSE, FALSE, 0, {"pending", "canceled"}),
   Request({}, "operations", "none", FALSE, FALSE, 0, {"unstated"}),
   Request({}, "operations", "none", FALSE, FALSE, 0, {"invalid", "pending"}),
   Request({"network", "destructive"}, "other", "most", FALSE, FALSE, 0, {"approved"}),
   Request({}, "other", "none", FALSE, FALSE, 0, {})}

=============================================================================
