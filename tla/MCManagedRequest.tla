-------------------------- MODULE MCManagedRequest --------------------------
(* TLC instance of ManagedRequest: an order service with a table of its own    *)
(* and a payment service behind a URL, two apps, the token of Login and one    *)
(* that names an organization.  Endpoints under /order/{id} beside the         *)
(* documented /orders/{id}; bodies with a card number at every depth, and one  *)
(* whose key is not a name.                                                    *)
EXTENDS ManagedRequest, TLC

MCUsers  == {"ann"}
MCOrgs   == {"org"}
MCIssued == {[user |-> "ann", org |-> "org"]}
MCOrgOf  == [acme |-> "org"]
MCWorkspaceOf == [org |-> [main |-> "w1"]]
MCGrants == {<<"ann", "org">>}
MCApps   == {"shop", "blog"}
MCUrls   == {"https://pay"}
MCPlural == [order |-> "orders"]
MCTables == {"orders"}
MCSingular  == [orders |-> {"order", "Order"}]
MCNames     == {"note", "card", "items", "ID", "App_ID", "app_id"}
MCKeys      == MCNames \cup {"not a name"}
MCSensitive == {"card"}
MCColumnOf  ==
    [note |-> "note", card |-> "card", items |-> "items",
     ID |-> "id", App_ID |-> "app_id", app_id |-> "app_id"]

Json(leaves) == [kind |-> "json", leaves |-> leaves]
Garbage == [kind |-> "other", leaves |-> {}]

Raw(path) == [path |-> path, masked |-> FALSE]

Plain   == Json({Raw(<<"note">>), Raw(<<"card">>)})
Nested  == Json({Raw(<<"items", Item, "note">>), Raw(<<"items", Item, "card">>)})
Deep    == Json({Raw(<<"items", Item, Item, "card">>)})
InArray == Json({Raw(<<Item, "card">>)})
Cased   == Json({Raw(<<"App_ID">>), Raw(<<"card">>)})
Renamed == Json({Raw(<<"ID">>), Raw(<<"App_ID">>)})
Owned   == Json({Raw(<<"app_id">>), Raw(<<"note">>)})
Odd     == Json({Raw(<<"not a name">>)})

MCAccepts == [order |-> {Plain, Nested, Cased, InArray}]

End(app, method, path, action, service, schema, masking, guarded) ==
    [app |-> app, method |-> method, path |-> path, action |-> action,
     service |-> service, table |-> IF method = "DELETE" THEN "orders" ELSE None,
     schema |-> schema, masking |-> masking, guarded |-> guarded]

MCEndpoints ==
    {End("shop", "POST", <<"orders">>, "create", "order", "order", TRUE, FALSE),
     End("shop", "GET", <<"orders">>, "list", "order", None, FALSE, FALSE),
     End("shop", "GET", <<"orders", "a1">>, "get", "order", None, FALSE, FALSE),
     End("shop", "GET", <<"Order", "a1">>, "get", "order", None, FALSE, FALSE),
     End("shop", "PUT", <<"order", "a1">>, "update", "order", None, TRUE, FALSE),
     End("shop", "DELETE", <<"order", "a2">>, "delete", "order", None, FALSE, TRUE),
     End("shop", "POST", <<"orders", "old">>, "archive", "order", "broken", FALSE, FALSE),
     End("shop", "PATCH", <<"orders", "old">>, "archive", "order", None, FALSE, FALSE),
     End("shop", "POST", <<"pay">>, "create", "https://pay", None, TRUE, FALSE),
     End("blog", "POST", <<"orders">>, "create", "order", None, FALSE, FALSE)}

Send(app, method, path, content) ==
    [app |-> app, method |-> method, path |-> path, body |-> content,
     org |-> None, host |-> "acme", workspace |-> None, slug |-> "main",
     offset |-> 0, limit |-> 0]

MCInputs ==
    {Send("shop", "POST", <<"orders">>, b) : b \in {Plain, Nested, Deep, Cased, InArray, Garbage}}
    \cup {Send("shop", "PUT", <<"order", "a1">>, b) : b \in {Cased, Renamed, Owned, Odd}}
    \cup {Send("shop", "POST", <<"pay">>, b) : b \in {Nested, Deep, InArray}}
    \cup {[Send("shop", "GET", <<"orders">>, NoBody) EXCEPT !.offset = o, !.limit = 2] :
             o \in {-1, 1}}
    \cup {Send("shop", "GET", <<"orders", "a1">>, NoBody),
          Send("shop", "GET", <<"Order", "a1">>, NoBody),
          Send("shop", "DELETE", <<"order", "a2">>, NoBody),
          Send("shop", "POST", <<"orders", "old">>, Plain),
          Send("shop", "PATCH", <<"orders", "old">>, NoBody),
          Send("blog", "POST", <<"orders">>, Odd),
          Send(Bad, "GET", <<"orders">>, NoBody),
          [Send("blog", "POST", <<"orders">>, Owned) EXCEPT !.org = "org"],
          [Send("shop", "GET", <<"orders">>, NoBody) EXCEPT !.org = Bad]}

Order(id, org, app, born) ==
    [table |-> "orders", id |-> id, org |-> org, app |-> app, born |-> born, data |-> {}]

RequestSymmetry == Permutations(Requests)

MCIds  == {"a1", "a2", "a3", "a4", "a5"}
MCSeed == {Order("a1", NilOrg, "shop", 0), Order("a2", "org", "shop", 1),
           Order("a3", NilOrg, "blog", 2)}
MCWritable == {Order("a2", NilOrg, "blog", 1)}
=============================================================================
