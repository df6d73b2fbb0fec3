------------------------------ MODULE MCConsole -------------------------------
(* Components of the console that do not share state, checked in one run: a    *)
(* behaviour is one of the component that part names, the rest stands still.   *)
EXTENDS Accounts, KeycloakClient, TenantSettings, TenantWizard, Checkout, RateLimit,
        ResourceLimits, AppRegistry, AppRoleSelect, TLC

VARIABLE part

everything == <<part, accountVars, clientVars, settingsVars, wizardVars, checkoutVars,
                 limiterVars, limitVars, registryVars, selectVars>>

PartsInit ==
  /\ part \in {"accounts", "client", "settings", "wizard", "checkout", "limiter", "limits",
              "registry", "roles"}
  /\ AccountsInit /\ ClientInit /\ SettingsInit /\ WizardInit
  /\ CheckoutInit /\ LimiterInit /\ LimitsInit /\ RegistryInit /\ SelectInit

PartsNext ==
  /\ UNCHANGED part
  /\ \/ /\ part = "accounts" /\ AccountsNext
        /\ UNCHANGED <<clientVars, settingsVars, wizardVars, checkoutVars, limiterVars,
                       limitVars, registryVars, selectVars>>
     \/ /\ part = "client" /\ ClientNext
        /\ UNCHANGED <<accountVars, settingsVars, wizardVars, checkoutVars, limiterVars,
                       limitVars, registryVars, selectVars>>
     \/ /\ part = "settings" /\ SettingsNext
        /\ UNCHANGED <<accountVars, clientVars, wizardVars, checkoutVars, limiterVars,
                       limitVars, registryVars, selectVars>>
     \/ /\ part = "wizard" /\ WizardNext
        /\ UNCHANGED <<accountVars, clientVars, settingsVars, checkoutVars, limiterVars,
                       limitVars, registryVars, selectVars>>
     \/ /\ part = "checkout" /\ CheckoutNext
        /\ UNCHANGED <<accountVars, clientVars, settingsVars, wizardVars, limiterVars,
                       limitVars, registryVars, selectVars>>
     \/ /\ part = "limiter" /\ LimiterNext
        /\ UNCHANGED <<accountVars, clientVars, settingsVars, wizardVars, checkoutVars,
                       limitVars, registryVars, selectVars>>
     \/ /\ part = "limits" /\ LimitsNext
        /\ UNCHANGED <<accountVars, clientVars, settingsVars, wizardVars, checkoutVars,
                       limiterVars, registryVars, selectVars>>
     \/ /\ part = "registry" /\ RegistryNext
        /\ UNCHANGED <<accountVars, clientVars, settingsVars, wizardVars, checkoutVars,
                       limiterVars, limitVars, selectVars>>
     \/ /\ part = "roles" /\ SelectNext
        /\ UNCHANGED <<accountVars, clientVars, settingsVars, wizardVars, checkoutVars,
                       limiterVars, limitVars, registryVars>>

PartsSpec == PartsInit /\ [][PartsNext]_everything

Interchangeable == Permutations(Requests) \cup Permutations(Slugs)
==============================================================================
