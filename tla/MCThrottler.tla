---------------------------- MODULE MCThrottler ----------------------------
(***************************************************************************)
(* Small instances of Throttler for TLC: a user at two addresses, and      *)
(* anonymous clients at one of them, one claiming to be the user.          *)
(***************************************************************************)
EXTENDS ThrottlerProps

CONSTANTS u1, a1, a2

SeenAt(uid, ip, claims) == [uid |-> uid, ip |-> ip, claims |-> claims]
Mixed == {SeenAt(u1, a1, NoUser), SeenAt(u1, a2, NoUser),
          SeenAt(NoUser, a1, NoUser), SeenAt(NoUser, a1, u1)}
=============================================================================
