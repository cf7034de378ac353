---------------------------- MODULE MCWasixWorker ----------------------------
(***************************************************************************)
(* The worker on small inputs.  The probe starts from every deployment and *)
(* inherited process below, one property varied at a time; the other       *)
(* operations, which pin, start and validate the worker by the same code,  *)
(* from a sound deployment as root.                                        *)
(***************************************************************************)
EXTENDS WasixWorker

User == 1000
Group == 5

Directory == [kind |-> "directory", owner |-> 0, writers |-> {}]
Executable ==
    [kind |-> "regular", owner |-> 0, writers |-> {}, size |-> 2, length |-> 2,
     executable |-> TRUE, setid |-> FALSE, capabilities |-> "absent"]
Config == [absolute |-> TRUE, timeout |-> 5, groups |-> <<>>]
Deployment ==
    [config |-> Config, ancestors |-> <<Directory, Directory>>, file |-> Executable,
     image |-> "this", upgraded |-> FALSE]
Allowing(groups) ==
    [Deployment EXCEPT !.config.groups = with_allowed_supplementary_groups(groups)]

Free == <<Unlimited, Unlimited>>
Limits == [core |-> Free, fsize |-> Free, as |-> Free, nofile |-> <<1024, 4096>>]
Process == Exec(<<User, User>>, <<User, User>>, <<>>, 0, 0, Limits, {})
RootProcess == Exec(<<0, 0>>, <<0, 0>>, <<0>>, 0, 0, Limits, {4})

Configs ==
    {[Config EXCEPT !.absolute = FALSE]}
    \cup {[Config EXCEPT !.timeout = t] : t \in {0, 30, 31}}
    \cup {[Config EXCEPT !.groups = with_allowed_supplementary_groups(g)] :
             g \in {{0, Group}, 1 .. 64, 1 .. 65}}

Entries(entry) ==
    {entry} \cup {[entry EXCEPT !.kind = k] : k \in {"symlink", "other"}}
    \cup {[entry EXCEPT !.owner = o] : o \in {User, 7}}
    \cup {[entry EXCEPT !.writers = w] : w \in {{"group"}, {"other"}}}
Executables ==
    Entries(Executable)
    \cup {[Executable EXCEPT !.size = n, !.length = l] : n \in {0, 2}, l \in 1 .. 3}
    \cup {[Executable EXCEPT !.executable = FALSE], [Executable EXCEPT !.setid = TRUE]}
    \cup {[Executable EXCEPT !.capabilities = c] :
             c \in {"empty", "unsupported", "present", "unreadable"}}

Deployments ==
    {[Deployment EXCEPT !.config = c] : c \in Configs}
    \cup {[Deployment EXCEPT !.file = f] : f \in Executables}
    \cup {[Deployment EXCEPT !.ancestors = <<d, Directory>>] : d \in Entries(Directory)}
    \cup {[Deployment EXCEPT !.ancestors = <<Directory, d>>] : d \in Entries(Directory)}
    \cup {[Deployment EXCEPT !.image = i] : i \in Images}

Identities == {<<0, 0>>, <<0, User>>, <<User, 0>>, <<User, User>>}
Credentials ==
    {Exec(u, g, s, a, a, Limits, {}) :
        u \in Identities, g \in Identities, a \in {0, 1}, s \in {<<>>, <<7, Group>>}}
    \cup {Exec(u, u, <<0>>, 1, 0, Limits, {}) : u \in Identities}
Pairs(values) ==
    {l \in values \X values : l[2] = Unlimited \/ (l[1] # Unlimited /\ l[1] <= l[2])}
Limited ==
    {[Process EXCEPT !.limits[r] = l] : r \in {"fsize", "as"}, l \in Pairs({0, 1, 4096, Unlimited})}
    \cup {[Process EXCEPT !.limits.nofile = l] : l \in Pairs({3, 4, 65, Unlimited})}
    \cup {[Process EXCEPT !.limits.core = <<0, Unlimited>>]}
    \cup {[Process EXCEPT !.limits.nofile = <<4, n>>, !.descriptors = 0 .. 3] : n \in {4, 5}}

Start(d, p) == [deployment |-> d, process |-> p]
ProbeStarts ==
    {Start(d, Process) : d \in Deployments}
    \cup {Start(Deployment, p) : p \in Credentials}
    \cup {Start(Allowing({Group, 7}), p) : p \in {q \in Credentials : q.groups # <<>>}}
    \cup {Start([Deployment EXCEPT !.upgraded = TRUE], p) : p \in {Process, RootProcess}}
    \cup {Start(Deployment, p) : p \in Limited}
    \cup {Start(Allowing({Group}), [Process EXCEPT !.groups = <<Group, Group>>])}
OtherStarts == {Start(Deployment, RootProcess)}

MCStarts ==
    [o \in AllOperations |-> IF o = "probe" THEN ProbeStarts ELSE OtherStarts]
=============================================================================
