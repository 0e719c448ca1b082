----------------------------- MODULE MCAppQueue -----------------------------
EXTENDS AppQueue, TLC

\* The options of a part that does not say otherwise.
Default == [kind |-> "swr", op |-> "", route |-> "any", enabled |-> TRUE,
            mutate |-> FALSE, initialData |-> "null", staleTime |-> "default",
            retry |-> TRUE, refetchOn |-> {"focus", "reconnect"}, gated |-> FALSE,
            guarded |-> FALSE, navigates |-> {}, outcomes |-> {"success", "error"}, next |-> <<>>,
            revalidates |-> <<>>, revalidateOp |-> ""]

Of_(kind, op) == [Default EXCEPT !.kind = kind, !.op = op]

MCPart ==
    [user    |-> [Of_("swr", "GET user") EXCEPT !.mutate = TRUE, !.route = "home"],
     team    |-> Of_("swr", "GET team"),
     todos   |-> Of_("query", "QUERY todos"),
     cached  |-> [Of_("query", "QUERY cached") EXCEPT !.initialData = "d1", !.retry = FALSE,
                      !.staleTime = "infinity", !.refetchOn = {"focus", "interval"}],
     off     |-> [Of_("query", "QUERY off") EXCEPT !.enabled = FALSE, !.staleTime = "static"],
     save    |-> Of_("mutation", "PUT save"),
     list    |-> [Of_("loader", "LOADER list") EXCEPT !.route = "list", !.gated = TRUE],
     home    |-> [Of_("loader", "LOADER home") EXCEPT !.route = "home"],
     add     |-> [Of_("action", "ACTION add") EXCEPT
                      !.revalidates = <<"list", "home">>, !.revalidateOp = "REVALIDATE add"],
     cache   |-> Of_("cache", "LOADER list"),
     reload  |-> [Of_("handler", "GET user") EXCEPT !.navigates = {"list"}],
     send    |-> [Of_("handler", "POST send") EXCEPT !.outcomes = {"success"}, !.guarded = TRUE],
     like    |-> [Of_("callback", "POST like") EXCEPT !.guarded = TRUE],
     ping    |-> [Of_("callback", "POST ping") EXCEPT !.outcomes = {}],
     login   |-> [Of_("chain", "POST login") EXCEPT !.next = <<"GET profile", "GET prefs">>],
     profile |-> [Of_("handler", "GET profile") EXCEPT !.outcomes = {"success"}],
     wizard  |-> [Of_("chain", "GET one") EXCEPT !.next = <<"GET two">>],
     tab     |-> Of_("transition", "transition tab")]

\* Pairs and triples: every kind of part with another one, parts that share an
\* operation (user and reload, list and cache, login and profile), a call nobody
\* waits for (ping), and requests that ask for more than there may be room for.
MCApps ==
    {{"user", "team"}, {"user", "save"}, {"todos", "send"}, {"cached", "like"},
     {"off", "tab"}, {"list", "cache"}, {"list", "home", "add"}, {"add", "team"},
     {"user", "reload"}, {"user", "ping"}, {"login", "user"}, {"login", "profile", "team"},
     {"wizard", "tab", "send"}, {"login", "wizard"}}

\* Two handlers that await a call each.
TwoHandlers == {{"reload", "send"}}

MCRoutes == {"home", "list"}
MCPayload == {"d1", "d2"}
=============================================================================
