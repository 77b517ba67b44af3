----------------------------- MODULE MCProcessIo -----------------------------
EXTENDS ProcessIo

\* Plans: an ordinary one, one without network and disks but with a bootstrap
\* command, and ones at or over an edge of one of the validations.
Net(ip, gateway, prefix) ==
    [subnet |-> 5, prefix_len |-> prefix, gateway |-> gateway, guest_ip |-> ip,
     dns |-> <<[v4 |-> TRUE, address |-> 6]>>]
Drive(name, path, created) ==
    [host_path |-> <<"C:", "disks", name>>, size |-> 1, mount |-> path, created |-> created]
Ordinary ==
    [vm_id |-> 5, capability |-> 6, host_nonce |-> 7, nat |-> {Net(5, 6, 2)},
     disks |-> <<Drive("a.vhdx", <<SLASH, 8>>, FALSE), Drive("b.vhdx", <<SLASH, 9>>, TRUE)>>,
     bootstrap |-> {}]
Bootstrap(artifact) ==
    [Ordinary EXCEPT !.nat = {}, !.disks = <<>>,
       !.bootstrap = {[program |-> <<SLASH, 8>>, args |-> <<<<9>>, <<>>>>, artifact |-> artifact]}]
WithNat(n) == [Ordinary EXCEPT !.nat = {n}]
WithMount(path) == [Ordinary EXCEPT !.disks[2].mount = path]
WithPath(path) == [Ordinary EXCEPT !.disks[2].host_path = path]
EdgePlans ==
    {WithNat(Net(ip, gateway, prefix)) : ip \in {4, 5, 8}, gateway \in {5, 7}, prefix \in {0, 1, 2, 3}}
    \cup {WithNat([Net(5, 6, 2) EXCEPT !.dns = d]) :
            d \in {<<>>, <<[v4 |-> FALSE, address |-> 6]>>,
                   [i \in 1..(NAT_DNS_SERVERS + 1) |-> [v4 |-> TRUE, address |-> i]]}}
    \cup {WithMount(path) :
            path \in {<<>>, <<9>>, <<SLASH>>, <<SLASH, 8>>, <<SLASH, PROC>>, <<SLASH, JYTH, SLASH, 8>>,
                      <<SLASH, DOTDOT>>, <<SLASH, SPACE>>, <<SLASH, 9, SLASH>>, <<SLASH, 9, 9>>}}
    \cup {WithPath(path) :
            path \in {<<"disks", "b.vhdx">>, <<"C:", "b.vhdx">>, <<"C:", "..", "b.vhdx">>,
                      <<"C:", "disks", "b.img">>, <<"C:", ".", "disks", "a.vhdx">>,
                      <<"C:", "disks", "..", "disks", "b.vhdx">>}}
    \cup {[Ordinary EXCEPT !.disks[1].size = 0],
          [Ordinary EXCEPT !.disks = Append(@, Drive("c.vhdx", <<SLASH, 7>>, TRUE))],
          Bootstrap(<<SLASH, DOTDOT>>),
          Bootstrap(<<SLASH, 8, 8, 8, 8, 8, 8, 8, 8>>),
          Bootstrap(<<SLASH, 8, 8, 8, 8, 8, 8, 8, 8, 8>>)}
MCPlans == {Ordinary, Bootstrap(<<SLASH, 9>>)} \cup EdgePlans
MCResults == {success(2, 9), success(MAX_BOOTSTRAP_ARTIFACT_BYTES + 1, 9), command_failed({}),
              command_failed({3}), artifact_unavailable}
MCOther == [vm_id |-> 8, capability |-> 9]
MCDirectories == {<<"C:", "disks">>}

\* Runs: how the output is routed, what the process does.
Discard == [route |-> "discard", limit |-> 0, overflow |-> "stop", end |-> "stream", size |-> 0, delimiter |-> <<>>]
HostFile == [Discard EXCEPT !.route = "host_file"]
Capture(limit, overflow, end) ==
    [Discard EXCEPT !.route = "capture", !.limit = limit, !.overflow = overflow, !.end = end]
Run(out, err, texts, code) ==
    [stdout |-> out, stderr |-> err, script |-> [stdout |-> texts[1], stderr |-> texts[2]],
     executable |-> [kind |-> "exec", path |-> <<"tool">>], scheduled |-> FALSE, code |-> code, daemon |-> FALSE, timeout |-> FALSE, impatient |-> FALSE]
MCRuns ==
    {Run(Capture(3, "stop", "stream"), HostFile, <<<<1>>, <<1>>>>, 0),
     Run(Capture(1, "stop", "stream"), Discard, <<<<1, 1>>, <<>>>>, 0),
     Run([Capture(6, "stop", "delimiter") EXCEPT !.delimiter = <<1, 2>>], Discard,
         <<<<1, 2, 1, 1, 1, 1>>, <<>>>>, 0),
     [Run([Capture(2, "truncate", "bytes") EXCEPT !.size = 1], Discard, <<<<1, 2>>, <<>>>>, 1)
        EXCEPT !.impatient = TRUE],
     [Run(Discard, Capture(1, "truncate", "line"), <<<<>>, <<1, 2>>>>, 0)
        EXCEPT !.daemon = TRUE, !.timeout = TRUE]}
Quiet == Run(Discard, Discard, <<<<>>, <<>>>>, 0)
\* Runs at an edge of the builder's validations, and every kind of executable.
Executables(path) == [kind : {"shell", "exec", "rust", "bytes"}, path : {path}]
EdgeRuns ==
    {[Quiet EXCEPT !.executable = e, !.scheduled = b] :
        e \in Executables(<<>>) \cup Executables(<<"tool">>), b \in BOOLEAN}
    \cup {[Quiet EXCEPT !.stdout = o] :
             o \in {Capture(0, "stop", "stream"), Capture(6, "stop", "stream"), Capture(7, "stop", "stream"),
                    Capture(1, "truncate", "bytes"), Capture(1, "truncate", "delimiter")}}
AllRuns == MCRuns \cup {Quiet} \cup EdgeRuns
MCLaunches == ({Ordinary} \X (MCRuns \cup EdgeRuns)) \cup ((MCPlans \ {Ordinary}) \X {Quiet})
=============================================================================
