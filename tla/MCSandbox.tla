----------------------------- MODULE MCSandbox -----------------------------
(***************************************************************************)
(* The instances of SandboxProperties that TLC checks: two calls of one    *)
(* executor and one of another.                                            *)
(***************************************************************************)
EXTENDS SandboxProperties

CONSTANTS p1, p2, b1

MCShellOf == [r \in Runs |-> IF r = b1 THEN "bash" ELSE "powershell"]

MCStatuses == {[r \in Runs |-> CASE r = p1 -> 1 [] r = p2 -> 0 [] r = b1 -> 2]}

Env(callers, cmdlets, sequential, faults) ==
    [callers |-> callers, cmdlets |-> cmdlets, sequential |-> sequential, faults |-> faults]

Faults == {{}, {"docker", "popen"}, {"stop"}, {"die"}, {"late"}, FaultKinds}

\* p2 may be a cmdlet, before or behind the native program of p1.
MCEnvironments ==
    {Env(callers, {}, TRUE, faults) : callers \in {{p1, p2}, {p1, b1}}, faults \in Faults}
        \union {Env({p1, p2}, {p2}, TRUE, faults) : faults \in {{}, FaultKinds}}
        \union {Env(Runs, {}, TRUE, {}), Env({p1, p2}, {}, FALSE, {})}

\* The finding: shells die, everything else works.
MCMortal == {Env(Runs, {}, TRUE, {"die"})}

=============================================================================
