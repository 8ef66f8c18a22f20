--------------------------- MODULE MCInstallation ---------------------------
EXTENDS InstallSequence

Nothing == [i \in Items |-> "absent"]

Addr(family, class, host) == [family |-> family, class |-> class, host |-> host]
MCLocal == {Addr("v4", "unicast", 1), Addr("v6", "loopback", 2)}
MCResolutions == {<<>>, <<Addr("v4", "unicast", 3)>>,
                  <<Addr("v4", "unicast", 3), Addr("mapped", "unicast", 3)>>,
                  <<Addr("v4", "unicast", 3), Addr("mapped", "unicast", 1)>>,
                  <<Addr("v4", "unicast", 3), Addr("mapped", "unicast", 3),
                    Addr("v4", "unicast", 1)>>,
                  <<Addr("v4", "unicast", 3), Addr("v6", "unicast", 4)>>,
                  <<Addr("v6", "linklocal", 3)>>, <<Addr("mapped", "unicast", 1)>>}

\* A fresh machine, and machines on which one part is already there.
MCFound == {Nothing, [Nothing EXCEPT !["package"] = "wrong"],
            [Nothing EXCEPT !["state"] = "right", !["authority"] = "right"],
            [Nothing EXCEPT !["staging"] = "right"],
            [Nothing EXCEPT !["sources"] = "right", !["configuration"] = "wrong"]}
=============================================================================
