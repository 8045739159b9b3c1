----------------------------- MODULE MCNotifier -----------------------------
(* One job that both searches match.                                        *)
EXTENDS Notifier

MCListed == [j1 |-> [words |-> {"senior", "go"}, salaryMin |-> 120, score |-> 70]]
MCWanted == [s1 |-> [keywords |-> {"go", "rust"}, minSalary |-> 0, minScore |-> 60],
             s2 |-> [keywords |-> {"senior"}, minSalary |-> 100, minScore |-> 70]]
=============================================================================
