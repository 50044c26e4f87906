------------------------ MODULE MCOpenConnectBrowser ------------------------
(* OpenConnectBrowser on two requests that share a storage. *)
EXTENDS OpenConnectBrowser, TLC

MCPartitions == {"p"}
MCCookies == {"sid", "early"}
MCNameOf == "sid" :> "webvpn" @@ "early" :> "saml"
MCAtOther == {"sid"}
MCValues == {"v"}
MCWindows == {"root", "popup"}
MCSlots == {1, 2}

Says(cookies, early, final, headers, callback) ==
    [cookies |-> cookies, early |-> early, final |-> final,
     headers |-> headers, callback |-> callback]

\* A sign-in by cookies, then one by a header, and what parseRequest refuses.
MCAsks ==
    << {Says({"webvpn"}, {"saml"}, TRUE, {}, FALSE)},
       {Says({}, {}, FALSE, Headers, FALSE), Says({}, {}, FALSE, {}, TRUE),
        Says({}, {}, FALSE, Headers, TRUE)} >>
=============================================================================
