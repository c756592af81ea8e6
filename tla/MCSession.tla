----------------------------- MODULE MCSession -----------------------------
(***************************************************************************)
(* Session with one process or two, two depots, and a branch of each kind: *)
(* public, with an encrypted manifest, and hidden.                         *)
(***************************************************************************)
EXTENDS Session, TLC

CONSTANTS s1, s2, a, b, d1, d2, public, locked, hidden, p, q, i, j, k

OneProcess   == a :> s1 @@ b :> s1
TwoProcesses == a :> s1 @@ b :> s2

MCPasswordOf == public :> NoPassword @@ locked :> p @@ hidden :> q
MCListed     == [d \in Depots |-> {public}]
MCEncrypted  == d1 :> {locked} @@ d2 :> {}
MCPrivate    == d1 :> {} @@ d2 :> {hidden}

Download(d, branch, password) ==
  [depot |-> d, branch |-> branch, password |-> password]

\* A right password and a wrong one for the same branch; the wrong one is right for
\* the hidden branch, which both depots are asked for and only one is in.
MCAsked == {Download(d1, locked, p), Download(d1, locked, q), Download(d2, hidden, q),
            Download(d1, hidden, q)}

PublicOnly == {Download(d, public, NoPassword) : d \in Depots}

Alike == Permutations(Callers) \cup Permutations(Inodes)
============================================================================
