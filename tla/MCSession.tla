------------------------------ MODULE MCSession ------------------------------
(* Model-checking instance of Session.                                     *)
EXTENDS Session, TLC

CONSTANTS u1, c1, c2, s1, Colon_

(* Two keys that print apart: one peer on channel "x", and a peer id      *)
(* "x:peer" on channel "peer" (a peer id may hold ':').                    *)
MCKeys == {Key(u1, u1, << "x" >>, << "x" >>),
           Key(u1, u1, << "peer" >>, << "x", Colon_, "peer" >>)}

(* One key of the race runs.                                               *)
MCOneKey == {Key(u1, u1, << "x" >>, << "x" >>)}

(* Two different keys: channel "x:peer:x" with peer "x", and channel "x"  *)
(* with peer "x:peer:x"; both print as                                     *)
(* tenant:u1:agent:u1:channel:x:peer:x:peer:x.                              *)
MCCollidingKeys ==
    {Key(u1, u1, << "x", Colon_, "peer", Colon_, "x" >>, << "x" >>),
     Key(u1, u1, << "x" >>, << "x", Colon_, "peer", Colon_, "x" >>)}
=============================================================================
