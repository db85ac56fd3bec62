---------------------------- MODULE MCNodeCommands ----------------------------
(* Templates and node configs like those of the repository, cut down.      *)
EXTENDS NodeCommands, TLC

Required(name) == [name |-> name, optional |-> FALSE, default |-> <<>>]
Optional(name, default) == [name |-> name, optional |-> TRUE, default |-> default]

Hostname == <<"hostname">>
Version  == <<"version">>
AppId    == <<"receiver", "app", "id">>
Redirect == <<"redirect">>
Key      == <<"private", "key">>
KeyUrl   == <<"private", "key", "url">>

NoDefs == [k \in {} |-> <<>>]

Chrome == [params |-> <<>>, hasDefs |-> FALSE, defs |-> NoDefs,
           capabilities |-> "browserName" :> <<Lit("chrome")>>]

Edge == [params |-> <<>>, hasDefs |-> TRUE,
         defs |-> "exe" :> <<Lit("msedgedriver"), Ref(<<"exe">>)>>,
         capabilities |-> "browserName" :> <<Lit("msedge")>>]

Chromecast ==
    [params |-> <<Required(Hostname), Required(Version), Optional(AppId, <<>>),
                  Optional(Redirect, <<Lit("true")>>)>>,
     hasDefs |-> TRUE,
     defs |-> "hostname" :> <<Ref(Hostname)>> @@ "app-id" :> <<Ref(AppId)>>
              @@ "redirect" :> <<Ref(Redirect)>>
              @@ "exe" :> <<Lit("server"), Ref(<<"cmd">>)>>,
     capabilities |-> "version" :> <<Ref(Version)>>]

Chromeos ==
    [params |-> <<Required(Hostname), Optional(Key, <<>>), Optional(KeyUrl, <<>>)>>,
     hasDefs |-> TRUE,
     defs |-> "key" :> <<Ref(Key)>> @@ "url" :> <<Ref(KeyUrl)>>,
     capabilities |-> "browserName" :> <<Lit("chromeos")>>]

MCTemplateFile == "chrome" :> Chrome @@ "edge" :> Edge
                  @@ "chromecast" :> Chromecast @@ "chromeos" :> Chromeos

\* Parameters a config may give, defs it may have, templates it may name.
Given(name) == name :> <<Lit("given")>>
HostVersion == Given(Hostname) @@ Given(Version)
ParamChoices == {NoDefs, Given(Hostname), HostVersion,
                 HostVersion @@ Given(AppId), HostVersion @@ Given(Redirect)}
DefChoices == {NoDefs, "app-id" :> <<Lit("own")>>,
               "extra" :> <<Lit("on"), Ref(Hostname)>>, "exe" :> <<>>}
NodeConfigs == [template : {"chrome", "edge", "chromecast", "unknown"},
                params : ParamChoices, defs : DefChoices]

MCConfigs == {c \in SeqOf(NodeConfigs, 2) : Separate(c)}

\* None of these asks for more than is documented.
ASSUME PlainConfigs == \A c \in MCConfigs : Plain(c)

\* A password "pa$$word" loses a dollar, and "$&" gives back the reference.
Filled(value) == SubstituteParams(<<Ref(Hostname), Lit("tail")>>,
                                  << [name |-> Hostname, value |-> value] >>)
ASSUME PatternsExpanded ==
    /\ Filled(<<Lit("pa"), Lit("$$"), Lit("word")>>)
         = <<Lit("pa"), Lit("$"), Lit("word"), Lit("tail")>>
    /\ Filled(<<Lit("$&")>>) = <<Ref(Hostname), Lit("tail")>>
    /\ Filled(<<Lit("$behind"), Lit("$before")>>) = <<Lit("tail"), Lit("tail")>>

\* Every time of the day, and what is none.
MCTimes == {<<h, m>> : h \in 0 .. 1, m \in 0 .. 1}
           \cup {NoTime, <<2, 0>>, <<0, 2>>, <<-1, 0>>, <<1>>, <<1, 0, 1>>}

JustOnce == {NoTime}

\* One template twice, the first instance with a definition of its own.
SharedConfigs ==
    {<<[template |-> "chromecast", params |-> HostVersion, defs |-> d],
       [template |-> "chromecast", params |-> HostVersion, defs |-> NoDefs]>> :
        d \in DefChoices}

\* A Chrome OS node with neither a private key nor its URL, or with either.
ChromeosConfigs ==
    {<<[template |-> "chromeos", params |-> p, defs |-> NoDefs]>> :
        p \in {Given(Hostname), Given(Hostname) @@ Given(Key),
               Given(Hostname) @@ Given(KeyUrl)}}
=============================================================================
