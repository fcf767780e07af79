---------------------------- MODULE MCAdminReads ----------------------------
(* TLC instance of AdminReads: an organization with an app, a key, an endpoint *)
(* and a log entry, three users, and ints of five bits, so that the offset of  *)
(* page 9 wraps to a negative one.                                             *)
EXTENDS AdminReads

Row(id, kind, of, by, born) == [id |-> id, kind |-> kind, of |-> of, by |-> by, born |-> born]

MCSeed ==
    {Row(1, "organization", None, None, 0), Row(2, "app", 1, None, 0),
     Row(3, "endpoint", 2, None, 0), Row(4, "key", 2, None, 0), Row(5, "policy", 3, None, 0),
     Row(6, "log", 1, 7, 1), Row(7, "user", None, None, 0), Row(8, "user", None, None, 1),
     Row(9, "user", None, None, 1)}

MCNamed == {1, 2, 3, Bad}
MCKeys  == {4}
MCMakes ==
    {<<"user", None, None>>, <<"key", 2, None>>, <<"key", 1, None>>}

MCPages == {0, 2, 3, 9}
MCPerPages == {9}
=============================================================================
