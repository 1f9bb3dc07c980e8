---------------------------- MODULE MC_Accounts ----------------------------
(* Finite instances of Accounts. *)
EXTENDS Accounts, TLC

Mix(m) == [b \in Bounds |-> IF b \in DOMAIN m THEN m[b] ELSE 0]

\* A grant refreshed twice while Google calls, and once with a failure.
Rotation == Mix([login |-> 1, authorize |-> 1, exchange |-> 1, refresh |-> 2, fulfil |-> 1,
                 expiry |-> 1])
Rupture == Mix([login |-> 1, authorize |-> 1, exchange |-> 1, refresh |-> 1, fulfil |-> 1,
                fault |-> 1, expiry |-> 1])

\* A deletion beside everything that makes tokens.
Unlinking == Mix([login |-> 1, authorize |-> 1, exchange |-> 1, refresh |-> 1, deleteMe |-> 1,
                  fault |-> 1])

\* Sessions coming and going beside a deletion.
Browsing == Mix([login |-> 2, visit |-> 1, logout |-> 1, deleteMe |-> 1, fault |-> 1, expiry |-> 1])

\* A user links a Google identity and deletes the account, and somebody signs
\* in with that identity.
Linking == Mix([login |-> 1, startLogin |-> 1, startLink |-> 1, callback |-> 2, deleteMe |-> 1,
                fault |-> 1])

\* Sign-in by Google, a state used twice among it, and the deletion of the account.
SignIn == Mix([startLogin |-> 2, callback |-> 3, deleteMe |-> 1, expiry |-> 1])

\* An admin deletes a user who signed up.
Removal == Mix([signUp |-> 1, login |-> 2, deleteUser |-> 1, visit |-> 1, logout |-> 1])

\* An admin deletes a user whom a sign-in with Google creates meanwhile.
Creation == Mix([startLogin |-> 1, callback |-> 1, login |-> 2, deleteUser |-> 1])

\* Two links offered before either comes back.
Relinking == Mix([login |-> 1, startLink |-> 2, callback |-> 2])

\* A code that is exchanged a second time.
Reuse == Mix([login |-> 1, authorize |-> 1, exchange |-> 2, fulfil |-> 1])

AllMixes == {Rotation, Rupture, Unlinking, Browsing, Linking, SignIn, Removal, Creation,
             Relinking, Reuse}
LinkingOnly == {Linking}

Symmetry == Permutations(Requests) \cup Permutations(Googles)
=============================================================================
