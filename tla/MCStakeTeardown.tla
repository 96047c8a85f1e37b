-------------------------- MODULE MCStakeTeardown --------------------------
(* A small instance of StakeTeardown for TLC. *)
EXTENDS StakeTeardown

CONSTANTS p1, p2

const_Pubkeys == {p1, p2}
\* one key staked for its capability and, by the same key, into a contract;
\* another staked for its capability
const_Entries == {<<"s", p1>>, <<"c", p1>>, <<"s", p2>>}
\* the other key was staked before the run
const_Seeded == {<<"s", p2>>}
=============================================================================
