------------------------------ MODULE Networks ------------------------------
(***************************************************************************)
(* What the tasks know of each network they run on: constants.ts, looked   *)
(* up with getParamPerNetwork, and the networks of hardhat.config.ts.      *)
(* An address is a name; two are equal when the literals are.              *)
(***************************************************************************)
EXTENDS Naturals

ZERO_ADDRESS == "0x0"
COOLDOWN_SECONDS == 3600
UNSTAKE_WINDOW == 1800
DISTRIBUTION_DURATION == 86400

\* The networks of hardhat.config.ts whose chain outlives a process.  hardhat
\* and coverage start from an empty chain each time, tenderly from a new fork.
LiveNetworks == {"ganache", "kovan", "main", "oasys", "rinkeby", "testnet"}

\* network.config.chainId: ganache (and coverage) have none.
HasChainId(network) == network \notin {"ganache", "coverage"}

SUPPORTED_ETHERSCAN_NETWORKS == {"main", "kovan", "oasys", "testnet"}

\* Any other network is taken for main; nothing reads the entry of coverage.
GetParamPerNetwork(params, network) ==
    IF network \in {"hardhat", "kovan", "rinkeby", "main", "oasys", "testnet"}
      THEN params[network]
      ELSE params["main"]

GetTokenPerNetwork(network) == GetParamPerNetwork(
    [hardhat |-> "MockWOAS", rinkeby |-> ZERO_ADDRESS, kovan |-> "MockWOAS",
     main |-> "Oas", oasys |-> "WOAS", testnet |-> "WOAS"], network)

GetCooldownSecondsPerNetwork(network) == GetParamPerNetwork(
    [hardhat |-> COOLDOWN_SECONDS, rinkeby |-> COOLDOWN_SECONDS,
     kovan |-> COOLDOWN_SECONDS, main |-> 864000, oasys |-> 864000,
     testnet |-> COOLDOWN_SECONDS], network)

GetUnstakeWindowPerNetwork(network) == GetParamPerNetwork(
    [hardhat |-> UNSTAKE_WINDOW, rinkeby |-> UNSTAKE_WINDOW,
     kovan |-> UNSTAKE_WINDOW, main |-> 172800, oasys |-> 172800,
     testnet |-> UNSTAKE_WINDOW], network)

GetAdminPerNetwork(network) == GetParamPerNetwork(
    [hardhat |-> "Wallet0", rinkeby |-> ZERO_ADDRESS, kovan |-> ZERO_ADDRESS,
     main |-> ZERO_ADDRESS, oasys |-> "InitialAdmin", testnet |-> "InitialAdmin"], network)

GetDistributionDurationPerNetwork(network) == GetParamPerNetwork(
    [hardhat |-> 864000, rinkeby |-> DISTRIBUTION_DURATION, kovan |-> 864000,
     main |-> 12960000, oasys |-> 12960000, testnet |-> DISTRIBUTION_DURATION], network)

GetIncentivesVaultPerNetwork(network) == GetParamPerNetwork(
    [hardhat |-> "MockVault", rinkeby |-> ZERO_ADDRESS, kovan |-> "MockVault",
     main |-> "MainVault", oasys |-> "OasysVault", testnet |-> "TestnetVault"], network)

NotFalsyOrZeroAddress(address) == address \notin {"", ZERO_ADDRESS}

=============================================================================
