-------------------------- MODULE UpgradeableProxy --------------------------
(***************************************************************************)
(* InitializableAdminUpgradeabilityProxy and the initialisers of what it   *)
(* runs, as operators on the state of one proxy.  "code" is the name of    *)
(* the contract at an address, "" where there is none; data is the encoded *)
(* call of an initialiser.                                                 *)
(*                                                                         *)
(* Storage: balances to assets (slots 0 to 60) are declared alike in every *)
(* revision and left out; slots counts from the variable after assets.     *)
(***************************************************************************)
EXTENDS Naturals, Sequences, Networks

NoContract == [nonce |-> 0]    \* address(0)
PROXY == "InitializableAdminUpgradeabilityProxy"

Revision(code) ==
    CASE code = "StakedOas" -> 1 [] code = "StakedTokenV2Rev3" -> 3
      [] code = "StakedTokenV2Rev4" -> 4 [] OTHER -> 0

\* The parameters of initialize, which tell its selectors apart.
InitializerArity(code) ==
    CASE code = "StakedOas" -> 4 [] code = "StakedTokenV2Rev3" -> 0
      [] code = "StakedTokenV2Rev4" -> 3 [] OTHER -> 99

StakingVariables == <<"stakerRewardsToClaim", "stakersCooldowns">>
TokenVariables == <<"STAKED_TOKEN", "REWARD_TOKEN", "REWARDS_VAULT">>
PowerVariables ==
    <<"_votingDelegates", "_propositionPowerSnapshots",
      "_propositionPowerSnapshotsCounts", "_propositionPowerDelegates", "_nonces">>

\* The storage variables in the order of their declaration.  In Rev3, as in V2
\* and V3, the token variables are immutable and take no slot.
StorageLayout(code) ==
    CASE code = "StakedOas" -> TokenVariables \o StakingVariables
      [] code = "StakedTokenV2Rev3" -> StakingVariables \o PowerVariables
      [] code = "StakedTokenV2Rev4" -> TokenVariables \o StakingVariables \o PowerVariables
      [] OTHER -> <<>>

Slots == 1 .. 10

\* Where a revision keeps a variable; {} when it has none of that name.
SlotsOf(code, variable) ==
    {i \in DOMAIN StorageLayout(code) : StorageLayout(code)[i] = variable}

FreshProxy ==
    [implementation |-> NoContract, admin |-> ZERO_ADDRESS,
     lastInitializedRevision |-> 0, slots |-> [i \in Slots |-> "empty"]]

\* The delegatecall of an initialiser succeeds.
CanRunInitializer(proxy, code, data) ==
    /\ data.arity = InitializerArity(code)
    /\ Revision(code) > proxy.lastInitializedRevision
    /\ code = "StakedOas" => ZERO_ADDRESS \notin {data.token, data.vault}

RunInitializer(proxy, code, data) ==
    [proxy EXCEPT
       !.lastInitializedRevision = Revision(code),
       !.slots = IF code = "StakedTokenV2Rev3" THEN @
                 ELSE [@ EXCEPT ![1] = data.token, ![2] = data.token, ![3] = data.vault]]

CanInitialize(proxy, code, data) ==
    proxy.implementation = NoContract /\ code # "" /\ CanRunInitializer(proxy, code, data)

\* Faulty: the admin stays unset.
InitializeWithoutAdmin(proxy, logic, code, admin, data) ==
    [RunInitializer(proxy, code, data) EXCEPT !.implementation = logic]

Initialize(proxy, logic, code, admin, data) ==
    [RunInitializer(proxy, code, data) EXCEPT !.implementation = logic, !.admin = admin]

\* From the admin it upgrades.  From anybody else the call falls through to
\* the implementation: StakedToken has no such function and reverts, but a
\* delegatecall to address(0), the implementation of a fresh proxy, succeeds.
CanUpgradeToAndCall(proxy, sender, code, data) ==
    IF sender = proxy.admin
      THEN code # "" /\ CanRunInitializer(proxy, code, data)
      ELSE proxy.implementation = NoContract

\* Faulty: the storage is cleared for the new implementation.
UpgradeToFreshStorage(proxy, sender, logic, code, data) ==
    IF sender = proxy.admin
      THEN [RunInitializer([proxy EXCEPT !.slots = [i \in Slots |-> "empty"]], code, data)
              EXCEPT !.implementation = logic]
      ELSE proxy

UpgradeToAndCall(proxy, sender, logic, code, data) ==
    IF sender = proxy.admin
      THEN [RunInitializer(proxy, code, data) EXCEPT !.implementation = logic]
      ELSE proxy

\* Every mapping of the layout has something in it once the holders have
\* staked, cooled down, delegated and signed.
UseStorage(proxy, code) ==
    [proxy EXCEPT !.slots =
        [i \in Slots |->
           IF i \in DOMAIN StorageLayout(code)
              /\ StorageLayout(code)[i] \notin {"STAKED_TOKEN", "REWARD_TOKEN", "REWARDS_VAULT"}
             THEN StorageLayout(code)[i] ELSE proxy.slots[i]]]

=============================================================================
