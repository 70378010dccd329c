------------------------------ MODULE MCTcpcl -------------------------------
(***************************************************************************)
(* Two nodes of the TCP convergence layer.  The dialer takes two bytes in  *)
(* a transfer and one in a segment, the listener three and two.            *)
(***************************************************************************)
EXTENDS Tcpcl, TLC

CONSTANTS dialer, listener, large, stored, small, huge, bad

MCSize == large :> 3 @@ stored :> 1 @@ small :> 2 @@ huge :> 4 @@ bad :> 1

MCTransfers == ({dialer} \X {large, stored, huge, bad}) \cup ({listener} \X {small, huge})

\* A bundle in two segments and one the listener has, against one in two
\* segments the other way; a malformed bundle, and then another one; bundles
\* larger than the receiver announced, one of which is sent all the same.
MCTraffic ==
    {{<<dialer, large>>, <<dialer, stored>>}, {<<dialer, large>>, <<listener, small>>},
     {<<dialer, bad>>, <<dialer, large>>},
     {<<dialer, huge>>, <<listener, huge>>}, {<<listener, huge>>, <<listener, small>>, <<dialer, stored>>}}

MCStored      == dialer :> {} @@ listener :> {stored}
MCSegmentMru  == dialer :> 1 @@ listener :> 2
MCTransferMru == dialer :> 2 @@ listener :> 3
=============================================================================
