----------------------------- MODULE MCImages -----------------------------
(***************************************************************************)
(* A small instance of the image pipeline: an image of up to three layers  *)
(* with a kernel, its modules, whiteouts and links, a raw kernel, a raw    *)
(* archive, and pairs of builders in one process or in two.                *)
(***************************************************************************)
EXTENDS Images

CONSTANTS b1, b2, b3, p1, p2

MCProcess == (b1 :> p1) @@ (b2 :> p2) @@ (b3 :> p1)

Reg(p, n) == [path |-> p, kind |-> "reg", body |-> n, link |-> <<>>]
Dir(p) == [path |-> p, kind |-> "dir", body |-> 0, link |-> <<>>]
Lnk(p, t) == [path |-> p, kind |-> "lnk", body |-> 0, link |-> t]
Hard(p, t) == [path |-> p, kind |-> "hard", body |-> 0, link |-> t]

Vmlinuz == <<"boot", "k">>
Older == <<"boot", "old">>
Module == <<"lib", "modules", "m">>

\* base: a kernel with its modules; top: hides the modules, replaces a name and
\* writes through the link; opq: clears a directory and replaces the link; nok:
\* hides the kernel's name, not its link.
MCTars ==
    [base |-> <<Dir(<<"boot", "">>), Reg(Vmlinuz, 7), Dir(<<"lib">>), Dir(<<"lib", "modules">>),
                Reg(<<".", "lib", "modules", "m">>, 3), Lnk(<<"l">>, <<"lib">>),
                Hard(<<"boot", "h">>, Vmlinuz), Dir(<<"etc">>), Reg(<<"etc", "c">>, 2)>>,
     top  |-> <<Reg(<<"lib", ".wh.modules">>, 0), Reg(<<"l", "x">>, 4), Reg(<<"lib", "y">>, 5)>>,
     opq  |-> <<Dir(<<"etc">>), Reg(<<"etc", "d">>, 1), Reg(<<"etc", ".wh..wh..opq">>, 0),
                Reg(<<"l">>, 6)>>,
     nok  |-> <<Reg(<<"boot", ".wh.k">>, 0)>>,
     arch |-> <<Reg(Vmlinuz, 7), Reg(Older, 8), Reg(Module, 3)>>]

MCSources ==
    [base |-> <<"gz", "tar", "base">>, top |-> <<"tar", "top">>, opq |-> <<"gz", "tar", "opq">>,
     nok |-> <<"tar", "nok">>, arch |-> <<"gz", "tar", "arch">>, raw |-> <<"bz", "raw">>]

NoNested == <<>>

\* Manifests of one to three layers, an index for several platforms and one
\* without the host's.
L(names) == [i \in DOMAIN names |-> [media |-> "tar+gzip", digest |-> names[i]]]
Manifest(names) == [media |-> "oci image", layers |-> L(names), manifests |-> <<>>]
Entry(os, arch, variant, d) == [os |-> os, arch |-> arch, variant |-> variant, digest |-> d]
Index(entries) == [media |-> "docker list", layers |-> <<>>, manifests |-> entries]
MCDocuments ==
    [m_base |-> Manifest(<<"base">>), m_top |-> Manifest(<<"base", "top">>),
     m_opq |-> Manifest(<<"base", "opq">>), m_all |-> Manifest(<<"base", "top", "opq">>),
     m_nok |-> Manifest(<<"base", "nok">>),
     m_odd |-> [Manifest(<<"base">>) EXCEPT !.layers[1].media = "json"],
     m_old |-> [Manifest(<<"base">>) EXCEPT !.media = "schema 1"],
     i_any |-> Index(<<Entry("windows", "amd64", "", "m_base"), Entry("linux", "arm64", "v8", "m_top"),
                       Entry("linux", "amd64", "v2", "m_top"), Entry("linux", "amd64", "", "m_opq")>>),
     i_arm |-> Index(<<Entry("linux", "arm64", "v8", "m_top")>>)]

MCReferences ==
    [image  |-> <<"img">>,
     full   |-> <<"https", "://", "registry-1.docker.io", "/", "library", "/", "img", ":", "latest">>,
     local  |-> <<"http", "://", "localhost", ":", "5000", "/", "team", "/", "img">>,
     pinned |-> <<"library", "/", "img", ":", "old", "@", "m_all">>,
     other  |-> <<"img", ":", "old">>,
     scheme |-> <<"ftp", "://", "localhost", "/", "img">>]

MCLinkKind == [s \in DOMAIN MCSources |->
    CASE s = "raw" -> "bytes" [] s = "arch" -> "local" [] OTHER -> "http"]
MCLinkSize == [s \in DOMAIN MCSources |-> IF s = "top" THEN 0 ELSE 2]
MCBodySize == [s \in DOMAIN MCSources |-> 2]

Ok(token, access) == [url |-> [realm |-> "auth", service |-> "registry", scope |-> "pull"], status |-> 200, token |-> token, access_token |-> access]
Keys == <<<<"realm", "auth">>, <<"service", "registry">>, <<"scope", "pull">>>>
Open(m) == [host |-> <<"registry-1.docker.io">>, repository |-> <<"library", "img">>, tagged |-> {m},
            auth |-> "open", challenge |-> Keys, token |-> Ok({}, {}), header |-> "sha256",
            damage |-> "none", length |-> TRUE]
Asks(m) == [Open(m) EXCEPT !.auth = "token", !.token = Ok({}, {"t"}), !.header = "none", !.length = FALSE]
Local(m) == [Asks(m) EXCEPT !.host = <<"localhost", ":", "5000">>, !.repository = <<"team", "img">>,
                            !.header = "sha512"]

\* Custom requests: by a catalogued version, the newest one, by a pin, with a
\* configuration of either mode, and ones that the constructors refuse.
Digits(v) == [i \in DOMAIN v |-> [numeric |-> TRUE, padded |-> FALSE, value |-> v[i]]]
Sha(value) == [algorithm |-> "sha256", hex |-> TRUE, value |-> value]
Tarball(v) == [scheme |-> "https", host |-> "cdn", plain |-> TRUE, file |-> v]
Release(v, value) == [version |-> Digits(v), url |-> Tarball(v), sha256 |-> Sha(value)]
MCCatalog == [schema_version |-> 1, releases |-> <<Release(<<7, 10>>, 3), Release(<<7, 9, 1>>, 4)>>]
MCDefaultConfig == <<"net", "CRLF", "tcp">>
MCDefaultKernel == [kernel |-> "image", path |-> <<".", "boot", "k">>]
MCCompiler ==
    [recipe_version |-> 1, script |-> Sha(1), bootstrap_kernel |-> Sha(2), toolchain_rootfs |-> Sha(3),
     target_arch |-> "x86_64", kbuild_metadata |-> "jyth"]
Asked(version, pin, config) == [version |-> version, pin |-> pin, config |-> config]
MCRequested == Asked({Digits(<<7, 10>>)}, {}, {})

J(k, p, r, b) ==
    [kernel |-> k, path |-> p, rootfs |-> r, boot |-> b, custom |-> {}, compiler |-> MCCompiler,
     output |-> FALSE]
Compile(request) == [J("custom", <<>>, "", FALSE) EXCEPT !.custom = {request}]
Custom_ == Compile(MCRequested)
Complete == Compile([MCRequested EXCEPT !.config = {[mode |-> "complete", text |-> MCDefaultConfig]}])
SameText == Compile(Asked({}, {}, {[mode |-> "fragment", text |-> <<"net", "LF", "tcp", "LF", "LF">>]}))
SamePin == Compile(Asked({Digits(<<7, 10>>)}, {[url |-> Tarball(<<7, 10>>), sha256 |-> Sha(3)]}, {}))
OtherPin == Compile(Asked({Digits(<<7, 10>>)}, {[url |-> Tarball(<<7, 10>>), sha256 |-> Sha(5)]}, {}))
NewRecipe == [Custom_ EXCEPT !.compiler.recipe_version = 2]
Cli == [SameText EXCEPT !.output = TRUE]
Refused ==
    <<Compile(Asked({Digits(<<7, 11>>)}, {}, {})), Compile(Asked({Digits(<<7>>)}, {}, {})),
      Compile(Asked({[Digits(<<7, 10>>) EXCEPT ![2].padded = TRUE]}, {}, {})),
      Compile([MCRequested EXCEPT !.config = {[mode |-> "complete", text |-> <<>>]}]),
      Compile(Asked({Digits(<<7, 10>>)}, {[url |-> [Tarball(<<7, 10>>) EXCEPT !.scheme = "http"],
                                           sha256 |-> Sha(3)]}, {})),
      [Custom_ EXCEPT !.compiler.script.hex = FALSE], J("image", <<"..", "k">>, "", FALSE)>>
Default == J("default", <<>>, "", FALSE)
Image == J("image", Vmlinuz, "", FALSE)
Rootfs == J("", <<>>, "image", FALSE)
Raw == J("raw", <<>>, "", FALSE)
Arch_ == J("arch", Vmlinuz, "", FALSE)
ArchOlder == J("arch", Older, "", FALSE)
ArchRootfs == J("", <<>>, "arch", FALSE)
NoKernel == J("arch", Module, "", FALSE)
Boot == J("image", Vmlinuz, "image", TRUE)
RawBoot == J("raw", <<>>, "arch", TRUE)

\* Two mishaps where one builder works, one where several race.
RunAt(reg, s, t, u) == [jobs |-> (b1 :> s) @@ (b2 :> t) @@ (b3 :> u), registry |-> reg,
                    spent |-> IF t = <<>> /\ u = <<>> THEN 0 ELSE 1]
Run(s, t, u) == RunAt(Open("m_base"), s, t, u)
From(source) == [Rootfs EXCEPT !.rootfs = source]

\* Registries and references that do not lead to an image, undisturbed.
Odd(reg, source) == [RunAt(reg, <<From(source)>>, <<>>, <<>>) EXCEPT !.spent = MaxMishaps]
OddScenarios ==
    {Odd(Open("m_base"), "other"), Odd(Open("m_base"), "scheme"), Odd(Open("i_arm"), "image"),
     Odd(Open("m_odd"), "image"), Odd(Open("m_old"), "image"),
     Odd([Open("m_base") EXCEPT !.auth = "refuses", !.token = Ok({"t"}, {})], "image"),
     Odd([Asks("m_base") EXCEPT !.token.status = 403], "image"),
     Odd([Asks("m_base") EXCEPT !.challenge = Keys \o <<<<"push">>>>], "image"),
     Odd([Open("m_base") EXCEPT !.header = "blake3"], "image"),
     Odd([Open("m_base") EXCEPT !.damage = "manifest"], "image"),
     Odd([Asks("m_base") EXCEPT !.damage = "manifest"], "pinned"),
     Odd([Open("m_base") EXCEPT !.damage = "blob"], "image"),
     Odd([Asks("m_top") EXCEPT !.damage = "cut"], "image")}

MCScenarios == OddScenarios \cup
    {Run(<<Custom_, Cli>>, <<>>, <<>>),
     Run(<<Custom_>>, <<Complete>>, <<>>),
     Run(<<OtherPin>> \o Refused, <<SamePin>>, <<>>),
     [Run(<<NewRecipe, Custom_, Cli>>, <<>>, <<>>) EXCEPT !.spent = MaxMishaps],
     Run(<<Custom_, Custom_>>, <<Custom_>>, <<Custom_>>),
     Run(<<Default>>, <<Image>>, <<>>),
     RunAt(Asks("m_base"), <<From("full")>>, <<Image>>, <<>>),
     RunAt(Local("m_top"), <<From("local"), [Image EXCEPT !.kernel = "local"]>>, <<>>, <<>>),
     RunAt(Open("i_any"), <<Boot, Boot>>, <<>>, <<>>),
     RunAt(Asks("m_base"), <<From("pinned")>>, <<>>, <<>>),
     Run(<<NoKernel>>, <<>>, <<>>),
     Run(<<Arch_, Arch_>>, <<>>, <<>>),
     Run(<<Arch_, ArchOlder>>, <<>>, <<>>),
     Run(<<Arch_>>, <<Arch_>>, <<>>),
     Run(<<ArchRootfs>>, <<>>, <<ArchRootfs>>),
     Run(<<RawBoot>>, <<RawBoot>>, <<>>)}

\* An image whose second layer hides the name a hard link leads to.
HardlinkScenarios == {RunAt(Open(m), <<Rootfs>>, <<>>, <<>>) : m \in {"m_nok", "m_opq"}}

\* A tag that moves from one manifest to another, and a user who names the old.
MovedScenarios == {[RunAt([Open("m_base") EXCEPT !.tagged = {"m_top", "m_all"}],
                          <<Rootfs>>, <<From("pinned")>>, <<>>) EXCEPT !.spent = MaxMishaps]}
=============================================================================
