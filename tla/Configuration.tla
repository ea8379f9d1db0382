--------------------------- MODULE Configuration ---------------------------
(***************************************************************************)
(* What config.Load makes of an environment (config/config.go).  An        *)
(* environment is a record of settings.  A setting that is missing or      *)
(* blank is Unset, a text of the wrong kind is Garbage; numbers and        *)
(* durations are integers, a secret is its length, and a list is a set.    *)
(***************************************************************************)
EXTENDS Integers, FiniteSets

CONSTANTS
    Unset, Garbage,
    PageOrigin,      \* an origin as a browser sends it
    PathOrigin,      \* the same with a slash at the end
    BareOrigin,      \* a host without a scheme
    Wildcard         \* "*"

\* What is missing or makes no sense is no setting, and the page sends its origin as it is
\* configured when it has a scheme and no slash at the end.
ASSUME MarkersAssumption ==
    /\ Unset # "uri" /\ Garbage \notin Int /\ Garbage \notin BOOLEAN
    /\ PageOrigin \notin {PathOrigin, BareOrigin, Wildcard}

MinSecret == 32

Settings == {"app", "mongo", "redis", "countsTTL", "limit", "window", "secret", "jwtTTL",
             "origins", "proxies", "secure", "sameSite"}

Plain == [ app |-> Unset, mongo |-> "uri", redis |-> "uri", countsTTL |-> Unset,
           limit |-> Unset, window |-> Unset, secret |-> MinSecret, jwtTTL |-> Unset,
           origins |-> {PageOrigin}, proxies |-> Unset, secure |-> Unset, sameSite |-> Unset ]

Other == [ app |-> {"production"}, mongo |-> {Unset}, redis |-> {Unset},
           countsTTL |-> {-1, 0, 60, Garbage}, limit |-> {-1, 0, 1, Garbage},
           window |-> {-1, 0, 5, Garbage}, secret |-> {0, MinSecret - 1},
           jwtTTL |-> {-1, 0, 60, Garbage},
           origins |-> {{}, {PageOrigin, PathOrigin}, {BareOrigin}, {Wildcard}},
           proxies |-> {"proxy", Garbage}, secure |-> {TRUE, FALSE, Garbage},
           sameSite |-> {"lax", "strict", "none", Garbage} ]

With(E) == E \cup UNION {{[e EXCEPT ![s] = v] : v \in Other[s]} : e \in E, s \in Settings}

\* The environments that differ from the plain one in up to three settings.
Environments == With(With(With({Plain})))

-----------------------------------------------------------------------------

\* durationOr and intOr: zero and less are refused, like what is not a number.
IsPositive(v) == v # Garbage /\ v > 0

\* envOr and its kin.
Or(v, fallback) == IF v = Unset THEN fallback ELSE v

Production(env) == env.app = "production"

\* COOKIE_SECURE defaults to on in production only.
CookieSecure(env) == Or(env.secure, Production(env))

CookieSameSite(env) == Or(env.sameSite, "lax")

\* An origin is exact: no wildcard, a scheme, no slash at the end.
OriginsOK(env) == env.origins \cap {Wildcard, BareOrigin, PathOrigin} = {}

\* Browsers drop a SameSite=None cookie that is not Secure.
CookieOK(env) ==
    /\ CookieSecure(env) # Garbage
    /\ CookieSameSite(env) \in {"lax", "strict", "none"}
    /\ CookieSameSite(env) = "none" => CookieSecure(env)

\* Load fails at the first setting that is missing or makes no sense.
Loads(env) ==
    /\ env.mongo # Unset /\ env.redis # Unset
    /\ IsPositive(Or(env.countsTTL, 86400))
    /\ IsPositive(Or(env.limit, 30)) /\ IsPositive(Or(env.window, 300))
    /\ env.secret >= MinSecret
    /\ IsPositive(Or(env.jwtTTL, 86400))
    /\ OriginsOK(env)
    /\ CookieOK(env)

\* Load: the settings that the running server of this model looks at.  The list of
\* trusted proxies is not looked at before the router is built.
Load(env) == [origins |-> env.origins, proxiesOK |-> env.proxies # Garbage]

============================================================================
